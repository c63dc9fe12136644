---------------------------- MODULE InboundProofs ----------------------------
(***************************************************************************)
(* Theorems about what reaches the service: the events of EventIngest, the *)
(* probes of ProbeCache and the start of StartupGate, each for its own     *)
(* specification and for any values of its constants.                      *)
(***************************************************************************)
EXTENDS MCInbound, TLAPS

-----------------------------------------------------------------------------
(* Events: the inductive invariant *)

Flushed(r) == batch[r].accepted \ batch[r].pending

\* A request that has not begun stands at the first place.
NotBegun == \A r \in Request : batch[r].at = "idle" => batch[r].item = 1

\* Every event that the loop has passed and not rejected is there under its id, in the
\* table or in the session.
PassedKept ==
    \A r \in Request : InFlight(r) \/ Committed(r) =>
      \A i \in 1..batch[r].item - 1 \ batch[r].rejected :
        \E f \in stored \cup batch[r].accepted : SameRow(batch[r].list[i], f)

\* A committed request has passed its list, and has stored all it accepted.
CommittedWhole ==
    \A r \in Request : Committed(r) =>
      batch[r].item = Len(batch[r].list) + 1 /\ batch[r].accepted \subseteq stored

\* The unique index: an event that a request in flight has flushed is neither committed
\* nor flushed by another.
EntriesHeld ==
    \A r \in Request : InFlight(r) =>
      \A e \in Flushed(r) :
        /\ \A f \in stored : ~SameRow(e, f)
        /\ \A q \in Request \ {r} : InFlight(q) => \A f \in Flushed(q) : ~SameRow(e, f)

IndInv ==
    /\ TypeOK
    /\ NotBegun
    /\ PassedKept
    /\ CommittedWhole
    /\ EntriesHeld
    /\ BilledOnce
    /\ WholeOrNothing

LEMMA InitIndInv == Init => IndInv
  <1> SUFFICES ASSUME Init PROVE IndInv
    OBVIOUS
  <1>1. batch \in [Request -> BatchLocal] /\ stored \subseteq Event
    BY DEF Init, BatchLocal
  <1>2. \A r \in Request : Tallied(batch[r])
    BY DEF Init, Tallied
  <1> QED  BY <1>1, <1>2 DEF IndInv, Init, TypeOK, NotBegun, PassedKept, CommittedWhole,
                EntriesHeld, InFlight, Committed, BilledOnce, WholeOrNothing

-----------------------------------------------------------------------------
(* Steps of one request that leave the table alone *)

\* A list has a length.
LEMMA ListType ==
  ASSUME TypeOK, NEW r \in Request
  PROVE  /\ batch[r].list \in Seq(Event) /\ Len(batch[r].list) \in Nat
         /\ DOMAIN batch[r].list = 1..Len(batch[r].list)
  <1>1. batch[r].list \in Batch \/ batch[r].list = <<>>
    BY DEF TypeOK, BatchLocal
  <1>2. batch[r].list \in Seq(Event)
    <2>1. CASE batch[r].list \in Batch
      BY <2>1, EventShape
    <2>2. CASE batch[r].list = <<>>
      BY <2>2
    <2> QED  BY <1>1, <2>1, <2>2
  <1> QED  BY <1>2

\* The item of a request that is not past its list is an event.
LEMMA ItemType ==
  ASSUME TypeOK, NEW r \in Request, ~Exhausted(r)
  PROVE  /\ Item(r) \in Event
         /\ Item(r) = batch[r].list[batch[r].item]
         /\ batch[r].item \in 1..Len(batch[r].list)
  <1>1. batch[r].list \in Seq(Event) /\ Len(batch[r].list) \in Nat
    BY ListType
  <1>2. batch[r].item \in 1..Len(batch[r].list)
    BY <1>1 DEF TypeOK, Tallied, Exhausted
  <1> QED  BY <1>1, <1>2 DEF Item

\* What passing an item does to the counts.
RejectedItem(c, b) ==
    /\ b.rejected = c.rejected \cup {c.item} /\ b.deduplicated = c.deduplicated
    /\ b.accepted = c.accepted /\ b.pending \subseteq c.pending

DeduplicatedItem(c, b) ==
    /\ b.rejected = c.rejected /\ b.deduplicated = c.deduplicated \cup {c.item}
    /\ b.accepted = c.accepted /\ b.pending \subseteq c.pending

AcceptedItem(c, b) ==
    /\ b.rejected = c.rejected /\ b.deduplicated = c.deduplicated
    /\ b.accepted = c.accepted \cup {c.list[c.item]} /\ b.pending = {c.list[c.item]}

\* An item that is passed is counted once.
LEMMA TalliedPass ==
  ASSUME NEW c, NEW b, Tallied(c), Len(c.list) \in Nat, c.item \in 1..Len(c.list),
         b.list = c.list, b.item = c.item + 1,
         RejectedItem(c, b) \/ DeduplicatedItem(c, b) \/ AcceptedItem(c, b)
  PROVE  Tallied(b)
  <1> DEFINE counted(d) == d.rejected \cup d.deduplicated
  <1>1. b.item - 1 = c.item /\ c.item \in Nat
    OBVIOUS
  <1>2. 1..c.item = (1..c.item - 1) \cup {c.item} /\ c.item \notin 1..c.item - 1
    OBVIOUS
  <1>3. c.item \notin counted(c)
    BY <1>2 DEF Tallied
  <1>4. b.item \in 1..Len(b.list) + 1
    OBVIOUS
  <1>5. b.rejected \cap b.deduplicated = {}
    BY <1>3 DEF Tallied, RejectedItem, DeduplicatedItem, AcceptedItem
  <1>6. counted(b) \subseteq 1..b.item - 1
    <2>1. counted(b) \subseteq counted(c) \cup {c.item}
      BY DEF RejectedItem, DeduplicatedItem, AcceptedItem
    <2>2. counted(c) \subseteq 1..c.item - 1
      BY DEF Tallied
    <2> HIDE DEF counted
    <2> QED  BY <2>1, <2>2, <1>1, <1>2
  <1>7. b.accepted = {b.list[i] : i \in 1..b.item - 1 \ counted(b)}
    <2>1. CASE RejectedItem(c, b) \/ DeduplicatedItem(c, b)
      <3>1. counted(b) = counted(c) \cup {c.item} /\ b.accepted = c.accepted
        BY <2>1 DEF RejectedItem, DeduplicatedItem
      <3>2. c.accepted = {c.list[i] : i \in 1..c.item - 1 \ counted(c)}
        BY DEF Tallied
      <3> HIDE DEF counted
      <3>3. 1..b.item - 1 \ counted(b) = 1..c.item - 1 \ counted(c)
        BY <3>1, <1>1, <1>2
      <3> QED  BY <3>1, <3>2, <3>3
    <2>2. CASE AcceptedItem(c, b)
      <3>1. counted(b) = counted(c) /\ b.accepted = c.accepted \cup {c.list[c.item]}
        BY <2>2 DEF AcceptedItem
      <3>2. c.accepted = {c.list[i] : i \in 1..c.item - 1 \ counted(c)}
        BY DEF Tallied
      <3> HIDE DEF counted
      <3>3. 1..b.item - 1 \ counted(b) = (1..c.item - 1 \ counted(c)) \cup {c.item}
        BY <3>1, <1>1, <1>2, <1>3
      <3> QED  BY <3>1, <3>2, <3>3
    <2> QED  BY <2>1, <2>2
  <1>8. b.pending \subseteq b.accepted
    BY DEF Tallied, RejectedItem, DeduplicatedItem, AcceptedItem
  <1> QED  BY <1>4, <1>5, <1>6, <1>7, <1>8 DEF Tallied

\* Where a request stands changes, and nothing else of it.
LEMMA StandsType ==
  ASSUME TypeOK, NEW r \in Request,
         NEW place \in {"aborted", "failed", "died", "answered", "lost"},
         batch' = [batch EXCEPT ![r].at = place], stored' = stored
  PROVE  /\ TypeOK'
         /\ \A q \in Request \ {r} : batch'[q] = batch[q]
         /\ batch'[r].at = place /\ batch'[r].item = batch[r].item
         /\ batch'[r].list = batch[r].list /\ batch'[r].accepted = batch[r].accepted
         /\ batch'[r].pending = batch[r].pending /\ batch'[r].rejected = batch[r].rejected
  <1>1. /\ batch'[r] = [batch[r] EXCEPT !.at = place]
        /\ \A q \in Request \ {r} : batch'[q] = batch[q]
        /\ batch[r] \in BatchLocal
    BY DEF TypeOK
  <1>2. /\ batch'[r] \in BatchLocal
        /\ batch'[r].at = place /\ batch'[r].item = batch[r].item
        /\ batch'[r].list = batch[r].list /\ batch'[r].accepted = batch[r].accepted
        /\ batch'[r].pending = batch[r].pending /\ batch'[r].rejected = batch[r].rejected
        /\ batch'[r].deduplicated = batch[r].deduplicated
    BY <1>1 DEF BatchLocal
  <1>3. \A q \in Request : Tallied(batch'[q])
    BY <1>1, <1>2 DEF TypeOK, Tallied
  <1> QED  BY <1>1, <1>2, <1>3 DEF TypeOK

\* A request that ends before its commit: what it held is let go.
LEMMA EndIndInv ==
  ASSUME IndInv, NEW r \in Request, InFlight(r),
         NEW place \in {"aborted", "failed", "died"},
         batch' = [batch EXCEPT ![r].at = place], stored' = stored
  PROVE  IndInv'
  <1> USE DEF IndInv
  <1>1. /\ TypeOK'
        /\ \A q \in Request \ {r} : batch'[q] = batch[q]
        /\ batch'[r].at = place /\ batch'[r].item = batch[r].item
        /\ batch'[r].list = batch[r].list /\ batch'[r].accepted = batch[r].accepted
        /\ batch'[r].pending = batch[r].pending /\ batch'[r].rejected = batch[r].rejected
    BY StandsType
  <1>2. ~InFlight(r)' /\ ~Committed(r)' /\ ~Committed(r)
    BY <1>1 DEF InFlight, Committed
  <1>3. \A q \in Request \ {r} : /\ InFlight(q)' <=> InFlight(q)
                                 /\ Committed(q)' <=> Committed(q)
                                 /\ Flushed(q)' = Flushed(q) /\ Exhausted(q)' = Exhausted(q)
    BY <1>1 DEF InFlight, Committed, Flushed, Exhausted
  <1>4. NotBegun'
    BY <1>1 DEF NotBegun
  <1>5. PassedKept'
    BY <1>1, <1>2, <1>3 DEF PassedKept
  <1>6. CommittedWhole'
    BY <1>1, <1>2, <1>3 DEF CommittedWhole
  <1>7. EntriesHeld'
    BY <1>2, <1>3 DEF EntriesHeld
  <1>8. BilledOnce'
    BY <1>1, <1>2, <1>3 DEF BilledOnce
  <1>9. WholeOrNothing'
    BY <1>1, <1>2, <1>3 DEF WholeOrNothing
  <1> QED  BY <1>1, <1>4, <1>5, <1>6, <1>7, <1>8, <1>9

\* A committed request whose answer is given or lost: the rows stay.
LEMMA SettleIndInv ==
  ASSUME IndInv, NEW r \in Request, batch[r].at = "committed",
         NEW place \in {"answered", "lost"},
         batch' = [batch EXCEPT ![r].at = place], stored' = stored
  PROVE  IndInv'
  <1> USE DEF IndInv
  <1>1. /\ TypeOK'
        /\ \A q \in Request \ {r} : batch'[q] = batch[q]
        /\ batch'[r].at = place /\ batch'[r].item = batch[r].item
        /\ batch'[r].list = batch[r].list /\ batch'[r].accepted = batch[r].accepted
        /\ batch'[r].pending = batch[r].pending /\ batch'[r].rejected = batch[r].rejected
    BY StandsType
  <1>2. \A q \in Request : /\ InFlight(q)' <=> InFlight(q)
                           /\ Committed(q)' <=> Committed(q)
                           /\ Flushed(q)' = Flushed(q) /\ Exhausted(q)' = Exhausted(q)
                           /\ batch'[q].item = batch[q].item /\ batch'[q].list = batch[q].list
                           /\ batch'[q].accepted = batch[q].accepted
                           /\ batch'[q].rejected = batch[q].rejected
    BY <1>1 DEF InFlight, Committed, Flushed, Exhausted
  <1>3. NotBegun'
    BY <1>1 DEF NotBegun
  <1>4. PassedKept'
    BY <1>2 DEF PassedKept
  <1>5. CommittedWhole'
    BY <1>2 DEF CommittedWhole
  <1>6. EntriesHeld'
    BY <1>2 DEF EntriesHeld
  <1>7. BilledOnce'
    BY <1>2 DEF BilledOnce
  <1>8. WholeOrNothing'
    BY <1>2 DEF WholeOrNothing
  <1> QED  BY <1>1, <1>3, <1>4, <1>5, <1>6, <1>7, <1>8

\* A request that passes its item and stays in flight leaves the committed ones alone.
LEMMA PassIndInv ==
  ASSUME IndInv, NEW r \in Request, InFlight(r), ~Exhausted(r),
         NEW b \in BatchLocal, b.at = "next", b.list = batch[r].list,
         b.item = batch[r].item + 1,
         \/ RejectedItem(batch[r], b)
         \/ DeduplicatedItem(batch[r], b) /\ Known(r)
         \/ AcceptedItem(batch[r], b),
         batch' = [batch EXCEPT ![r] = b], stored' = stored
  PROVE  /\ TypeOK' /\ NotBegun' /\ PassedKept' /\ CommittedWhole'
         /\ BilledOnce' /\ WholeOrNothing'
         /\ batch'[r] = b /\ \A q \in Request \ {r} : batch'[q] = batch[q]
  <1> USE DEF IndInv
  <1>1. batch'[r] = b /\ \A q \in Request \ {r} : batch'[q] = batch[q]
    BY DEF TypeOK
  <1>2. /\ Item(r) \in Event /\ Item(r) = batch[r].list[batch[r].item]
        /\ batch[r].item \in 1..Len(batch[r].list) /\ Len(batch[r].list) \in Nat
    BY ItemType, ListType
  <1>3. /\ ~Committed(r) /\ ~Committed(r)'
        /\ \A q \in Request \ {r} : /\ InFlight(q)' <=> InFlight(q)
                                    /\ Committed(q)' <=> Committed(q)
                                    /\ Exhausted(q)' = Exhausted(q)
    BY <1>1 DEF InFlight, Committed, Exhausted
  <1>4. TypeOK'
    <2>1. Tallied(b)
      <3>1. Tallied(batch[r])
        BY DEF TypeOK
      <3> QED  BY <3>1, <1>2, TalliedPass
    <2> QED  BY <1>1, <2>1 DEF TypeOK
  <1>5. NotBegun'
    BY <1>1 DEF NotBegun
  <1>6. PassedKept'
    <2>1. ASSUME NEW i \in 1..b.item - 1 \ b.rejected
          PROVE  \E f \in stored \cup b.accepted : SameRow(b.list[i], f)
      <3>1. CASE i = batch[r].item
        BY <3>1, <2>1, <1>2 DEF SameRow, Known, RejectedItem, DeduplicatedItem, AcceptedItem
      <3>2. CASE i # batch[r].item
        <4>1. /\ batch[r].rejected \subseteq b.rejected
              /\ batch[r].accepted \subseteq b.accepted
          BY DEF RejectedItem, DeduplicatedItem, AcceptedItem
        <4>2. i \in 1..batch[r].item - 1 \ batch[r].rejected
          BY <3>2, <2>1, <1>2, <4>1
        <4>3. \E f \in stored \cup batch[r].accepted : SameRow(batch[r].list[i], f)
          BY <4>2 DEF PassedKept
        <4> QED  BY <4>1, <4>3
      <3> QED  BY <3>1, <3>2
    <2> QED  BY <1>1, <1>3, <2>1 DEF PassedKept
  <1>7. CommittedWhole'
    BY <1>1, <1>3 DEF CommittedWhole
  <1>8. BilledOnce'
    BY <1>1, <1>3 DEF BilledOnce
  <1>9. WholeOrNothing'
    BY <1>1, <1>3 DEF WholeOrNothing
  <1> QED  BY <1>1, <1>4, <1>5, <1>6, <1>7, <1>8, <1>9

\* One that has flushed its session before holds what it has flushed alone.
LEMMA MoveIndInv ==
  ASSUME IndInv, NEW r \in Request, InFlight(r), ~Exhausted(r), Flushable(r),
         NEW b \in BatchLocal, b.at = "next", b.list = batch[r].list,
         b.item = batch[r].item + 1,
         \/ RejectedItem(batch[r], b)
         \/ DeduplicatedItem(batch[r], b) /\ Known(r)
         \/ AcceptedItem(batch[r], b),
         batch' = [batch EXCEPT ![r] = b], stored' = stored
  PROVE  IndInv'
  <1>1. /\ TypeOK' /\ NotBegun' /\ PassedKept' /\ CommittedWhole'
        /\ BilledOnce' /\ WholeOrNothing'
        /\ batch'[r] = b /\ \A q \in Request \ {r} : batch'[q] = batch[q]
    BY PassIndInv
  <1>2. EntriesHeld'
    <2> USE DEF IndInv
    <2>1. Flushed(r)' \subseteq batch[r].accepted
      BY <1>1 DEF Flushed, RejectedItem, DeduplicatedItem, AcceptedItem
    <2>2. \A q \in Request \ {r} : Flushed(q)' = Flushed(q) /\ (InFlight(q)' <=> InFlight(q))
      BY <1>1 DEF Flushed, InFlight
    <2>3. \A e \in batch[r].accepted : \A f \in stored : ~SameRow(e, f)
      BY DEF EntriesHeld, Flushed, Flushable, FlushErrs
    <2>4. \A e \in batch[r].accepted, q \in Request \ {r} : InFlight(q) =>
            \A f \in Flushed(q) : ~SameRow(e, f)
      BY DEF EntriesHeld, Flushed, Flushable, WaitsFor
    <2>5. \A e, f : SameRow(e, f) => SameRow(f, e)
      BY DEF SameRow
    <2> QED  BY <2>1, <2>2, <2>3, <2>4, <2>5 DEF EntriesHeld
  <1> QED  BY <1>1, <1>2 DEF IndInv

-----------------------------------------------------------------------------
(* The steps of a batch *)

LEMMA BeginIndInv ==
  ASSUME IndInv, NEW r \in Request, NEW list \in Batch, Begin(r, list)
  PROVE  IndInv'
  <1> USE DEF IndInv
  <1> DEFINE b == [batch[r] EXCEPT !.at = "next", !.list = list]
  <1>1. batch[r] \in BatchLocal /\ batch[r].at = "idle" /\ Tallied(batch[r])
    BY DEF TypeOK, Begin
  <1>2. /\ b \in BatchLocal /\ b.at = "next" /\ b.list = list /\ b.item = batch[r].item
        /\ b.accepted = batch[r].accepted /\ b.pending = batch[r].pending
        /\ b.rejected = batch[r].rejected /\ b.deduplicated = batch[r].deduplicated
    BY <1>1 DEF BatchLocal
  <1>3. /\ batch' = [batch EXCEPT ![r] = b] /\ stored' = stored
    BY DEF Begin
  <1> HIDE DEF b
  <1>4. batch'[r] = b /\ \A q \in Request \ {r} : batch'[q] = batch[q]
    BY <1>3 DEF TypeOK
  <1>5. /\ batch[r].item = 1 /\ batch[r].rejected = {} /\ batch[r].deduplicated = {}
        /\ batch[r].accepted = {} /\ batch[r].pending = {}
    BY <1>1 DEF NotBegun, Tallied
  <1>6. Len(list) \in Nat
    BY EventShape
  <1>7. TypeOK'
    <2>1. Tallied(b)
      BY <1>2, <1>5, <1>6 DEF Tallied
    <2> QED  BY <1>2, <1>3, <1>4, <2>1 DEF TypeOK
  <1>8. /\ ~Committed(r) /\ ~Committed(r)'
        /\ \A q \in Request \ {r} : /\ InFlight(q)' <=> InFlight(q)
                                    /\ Committed(q)' <=> Committed(q)
                                    /\ Exhausted(q)' = Exhausted(q)
    BY <1>1, <1>2, <1>4 DEF InFlight, Committed, Exhausted
  <1>9. NotBegun'
    BY <1>2, <1>4 DEF NotBegun
  <1>10. PassedKept'
    BY <1>2, <1>3, <1>4, <1>5, <1>8 DEF PassedKept
  <1>11. CommittedWhole'
    BY <1>3, <1>4, <1>8 DEF CommittedWhole
  <1>12. EntriesHeld'
    BY <1>2, <1>3, <1>4, <1>5 DEF EntriesHeld, InFlight, Flushed
  <1>13. BilledOnce'
    BY <1>4, <1>8 DEF BilledOnce
  <1>14. WholeOrNothing'
    BY <1>3, <1>4, <1>8 DEF WholeOrNothing
  <1> QED  BY <1>7, <1>9, <1>10, <1>11, <1>12, <1>13, <1>14

\* Rejected without a statement: the session is not flushed.
LEMMA RejectFutureIndInv == ASSUME IndInv, NEW r \in Request, RejectFuture(r) PROVE IndInv'
  <1> DEFINE b == [batch[r] EXCEPT !.item = @ + 1, !.rejected = @ \cup {batch[r].item}]
  <1>1. batch[r] \in BatchLocal /\ batch[r].item \in Nat /\ batch[r].at = "next"
    BY DEF IndInv, TypeOK, BatchLocal, RejectFuture, AtItem, InFlight
  <1>2. /\ b \in BatchLocal /\ b.at = "next" /\ b.list = batch[r].list
        /\ b.item = batch[r].item + 1 /\ RejectedItem(batch[r], b)
        /\ b.accepted = batch[r].accepted /\ b.pending = batch[r].pending
    <2>1. /\ batch[r].item + 1 \in Nat
          /\ batch[r].rejected \cup {batch[r].item} \in SUBSET Nat
      BY <1>1 DEF BatchLocal
    <2>2. b \in BatchLocal
      BY <1>1, <2>1 DEF BatchLocal
    <2> QED  BY <1>1, <2>2 DEF BatchLocal, RejectedItem
  <1>3. batch' = [batch EXCEPT ![r] = b] /\ stored' = stored
    BY DEF RejectFuture
  <1> HIDE DEF b
  <1>4. /\ TypeOK' /\ NotBegun' /\ PassedKept' /\ CommittedWhole'
        /\ BilledOnce' /\ WholeOrNothing'
        /\ batch'[r] = b /\ \A q \in Request \ {r} : batch'[q] = batch[q]
    BY <1>2, <1>3, PassIndInv DEF RejectFuture, AtItem
  <1>5. EntriesHeld'
    BY <1>1, <1>2, <1>3, <1>4 DEF IndInv, EntriesHeld, InFlight, Flushed
  <1> QED  BY <1>4, <1>5 DEF IndInv

LEMMA DeduplicateIndInv == ASSUME IndInv, NEW r \in Request, Deduplicate(r) PROVE IndInv'
  <1> DEFINE b == [batch[r] EXCEPT !.item = @ + 1, !.pending = {},
                                   !.deduplicated = @ \cup {batch[r].item}]
  <1>1. batch[r] \in BatchLocal /\ batch[r].item \in Nat /\ batch[r].at = "next"
    BY DEF IndInv, TypeOK, BatchLocal, Deduplicate, LookingUp, AtItem, InFlight
  <1>2. /\ b \in BatchLocal /\ b.at = "next" /\ b.list = batch[r].list
        /\ b.item = batch[r].item + 1 /\ DeduplicatedItem(batch[r], b)
    <2>1. /\ batch[r].item + 1 \in Nat
          /\ batch[r].deduplicated \cup {batch[r].item} \in SUBSET Nat
      BY <1>1 DEF BatchLocal
    <2>2. b \in BatchLocal
      BY <1>1, <2>1 DEF BatchLocal
    <2> QED  BY <1>1, <2>2 DEF BatchLocal, DeduplicatedItem
  <1>3. batch' = [batch EXCEPT ![r] = b] /\ stored' = stored
    BY DEF Deduplicate
  <1> HIDE DEF b
  <1> QED  BY <1>2, <1>3, MoveIndInv DEF Deduplicate, LookingUp, AtItem

LEMMA RejectSignatureIndInv ==
  ASSUME IndInv, NEW r \in Request, RejectSignature(r) PROVE IndInv'
  <1> DEFINE b == [batch[r] EXCEPT !.item = @ + 1, !.pending = {},
                                   !.rejected = @ \cup {batch[r].item}]
  <1>1. batch[r] \in BatchLocal /\ batch[r].item \in Nat /\ batch[r].at = "next"
    BY DEF IndInv, TypeOK, BatchLocal, RejectSignature, LookingUp, AtItem, InFlight
  <1>2. /\ b \in BatchLocal /\ b.at = "next" /\ b.list = batch[r].list
        /\ b.item = batch[r].item + 1 /\ RejectedItem(batch[r], b)
    <2>1. /\ batch[r].item + 1 \in Nat
          /\ batch[r].rejected \cup {batch[r].item} \in SUBSET Nat
      BY <1>1 DEF BatchLocal
    <2>2. b \in BatchLocal
      BY <1>1, <2>1 DEF BatchLocal
    <2> QED  BY <1>1, <2>2 DEF BatchLocal, RejectedItem
  <1>3. batch' = [batch EXCEPT ![r] = b] /\ stored' = stored
    BY DEF RejectSignature
  <1> HIDE DEF b
  <1> QED  BY <1>2, <1>3, MoveIndInv DEF RejectSignature, LookingUp, AtItem

LEMMA AcceptIndInv == ASSUME IndInv, NEW r \in Request, Accept(r) PROVE IndInv'
  <1> DEFINE b == [batch[r] EXCEPT !.item = @ + 1, !.pending = {Item(r)},
                                   !.accepted = @ \cup {Item(r)}]
  <1>1. batch[r] \in BatchLocal /\ batch[r].item \in Nat /\ batch[r].at = "next"
    BY DEF IndInv, TypeOK, BatchLocal, Accept, LookingUp, AtItem, InFlight
  <1>2. Item(r) \in Event
    BY ItemType DEF IndInv, Accept, LookingUp, AtItem
  <1>3. /\ b \in BatchLocal /\ b.at = "next" /\ b.list = batch[r].list
        /\ b.item = batch[r].item + 1 /\ AcceptedItem(batch[r], b)
    <2>1. /\ batch[r].item + 1 \in Nat
          /\ batch[r].accepted \cup {Item(r)} \in SUBSET Event
          /\ {Item(r)} \in SUBSET Event
      BY <1>1, <1>2 DEF BatchLocal
    <2>2. b \in BatchLocal
      BY <1>1, <1>2, <2>1 DEF BatchLocal
    <2> QED  BY <1>1, <2>2 DEF BatchLocal, AcceptedItem, Item
  <1>4. batch' = [batch EXCEPT ![r] = b] /\ stored' = stored
    BY DEF Accept
  <1> HIDE DEF b
  <1> QED  BY <1>3, <1>4, MoveIndInv DEF Accept, LookingUp, AtItem

\* The commit: all that was accepted becomes visible at once, and is no one else's.
LEMMA CommitIndInv == ASSUME IndInv, NEW r \in Request, Commit(r) PROVE IndInv'
  <1> USE DEF IndInv
  <1> DEFINE b == [batch[r] EXCEPT !.at = "committed", !.pending = {}]
  <1>1. batch[r] \in BatchLocal /\ batch[r].at = "next" /\ Tallied(batch[r])
    BY DEF TypeOK, Commit, InFlight
  <1>2. /\ b \in BatchLocal /\ b.at = "committed" /\ b.list = batch[r].list
        /\ b.item = batch[r].item /\ b.rejected = batch[r].rejected
        /\ b.accepted = batch[r].accepted /\ b.pending = {}
        /\ b.deduplicated = batch[r].deduplicated
    BY <1>1 DEF BatchLocal
  <1>3. batch' = [batch EXCEPT ![r] = b] /\ stored' = stored \cup batch[r].accepted
    BY DEF Commit
  <1> HIDE DEF b
  <1>4. batch'[r] = b /\ \A q \in Request \ {r} : batch'[q] = batch[q]
    BY <1>3 DEF TypeOK
  <1>5. /\ batch[r].accepted \subseteq Event /\ batch[r].item \in Nat
        /\ Len(batch[r].list) \in Nat
    BY <1>1, ListType DEF BatchLocal
  <1>6. batch[r].item = Len(batch[r].list) + 1
    BY <1>1, <1>5 DEF Commit, Exhausted, Tallied
  <1>7. \A e \in batch[r].accepted : \A f \in stored : ~SameRow(e, f)
    BY DEF EntriesHeld, Flushed, Flushable, FlushErrs, Commit
  <1>8. \A e \in batch[r].accepted, q \in Request \ {r} : InFlight(q) =>
          \A f \in Flushed(q) : ~SameRow(e, f)
    BY DEF EntriesHeld, Flushed, Flushable, WaitsFor, Commit
  <1>9. \A e, f : SameRow(e, f) => SameRow(f, e)
    BY DEF SameRow
  <1>10. /\ InFlight(r) /\ Committed(r)' /\ ~InFlight(r)' /\ Exhausted(r)'
         /\ \A q \in Request \ {r} : /\ InFlight(q)' <=> InFlight(q)
                                     /\ Committed(q)' <=> Committed(q)
                                     /\ Exhausted(q)' = Exhausted(q)
    BY <1>1, <1>2, <1>4 DEF InFlight, Committed, Exhausted, Commit
  <1>11. TypeOK'
    <2>1. Tallied(b)
      BY <1>1, <1>2 DEF Tallied
    <2> QED  BY <1>2, <1>3, <1>4, <1>5, <2>1 DEF TypeOK
  <1>12. NotBegun'
    BY <1>2, <1>4 DEF NotBegun
  <1>13. PassedKept'
    BY <1>2, <1>3, <1>4, <1>10 DEF PassedKept
  <1>14. CommittedWhole'
    BY <1>2, <1>3, <1>4, <1>6, <1>10 DEF CommittedWhole
  <1>15. EntriesHeld'
    <2>1. \A q \in Request \ {r} : Flushed(q)' = Flushed(q)
      BY <1>4 DEF Flushed
    <2> QED  BY <2>1, <1>3, <1>8, <1>9, <1>10 DEF EntriesHeld
  <1>16. BilledOnce'
    <2>1. \A q \in Request \ {r} : Committed(q) =>
            \A e \in batch[r].accepted, f \in batch[q].accepted : ~SameRow(e, f)
      BY <1>7 DEF CommittedWhole
    <2> QED  BY <2>1, <1>2, <1>4, <1>9, <1>10 DEF BilledOnce
  <1>17. WholeOrNothing'
    <2> SUFFICES ASSUME NEW f \in stored'
                 PROVE  \E q \in Request :
                          /\ Committed(q)' /\ Exhausted(q)'
                          /\ f \in batch'[q].accepted /\ batch'[q].accepted \subseteq stored'
      BY DEF WholeOrNothing
    <2>1. CASE f \in batch[r].accepted
      BY <2>1, <1>2, <1>3, <1>4, <1>10
    <2>2. CASE f \in stored
      <3>1. PICK q \in Request :
              /\ Committed(q) /\ Exhausted(q)
              /\ f \in batch[q].accepted /\ batch[q].accepted \subseteq stored
        BY <2>2 DEF WholeOrNothing
      <3>2. q # r
        BY <3>1, <1>1 DEF Committed
      <3> QED  BY <3>1, <3>2, <1>3, <1>4, <1>10
    <2> QED  BY <2>1, <2>2, <1>3
  <1> QED  BY <1>11, <1>12, <1>13, <1>14, <1>15, <1>16, <1>17

LEMMA NextIndInv == IndInv /\ [Next]_vars => IndInv'
  <1> SUFFICES ASSUME IndInv, [Next]_vars PROVE IndInv'
    OBVIOUS
  <1>1. ASSUME NEW r \in Request, NEW list \in Batch, Begin(r, list) PROVE IndInv'
    BY <1>1, BeginIndInv
  <1>2. ASSUME NEW r \in Request, BatchStep(r) PROVE IndInv'
    <2>1. CASE AbortImplausible(r)
      BY <2>1, EndIndInv DEF AbortImplausible, AtItem
    <2>2. CASE FlushFails(r)
      BY <2>2, EndIndInv DEF FlushFails, LookingUp, AtItem
    <2>3. CASE DeadlockVictim(r)
      BY <2>3, EndIndInv DEF DeadlockVictim
    <2>4. CASE Answer(r)
      BY <2>4, SettleIndInv DEF Answer
    <2> QED  BY <1>2, <2>1, <2>2, <2>3, <2>4, RejectFutureIndInv, DeduplicateIndInv,
               RejectSignatureIndInv, AcceptIndInv, CommitIndInv DEF BatchStep
  <1>3. ASSUME NEW r \in Request, Die(r) PROVE IndInv'
    BY <1>3, EndIndInv DEF Die
  <1>4. ASSUME NEW r \in Request, LoseAnswer(r) PROVE IndInv'
    BY <1>4, SettleIndInv DEF LoseAnswer
  <1>5. CASE UNCHANGED vars
    BY <1>5 DEF vars, IndInv, TypeOK, NotBegun, PassedKept, CommittedWhole, EntriesHeld,
               BilledOnce, WholeOrNothing, InFlight, Committed, Exhausted, Flushed
  <1> QED  BY <1>1, <1>2, <1>3, <1>4, <1>5 DEF Next

\* In every reachable state all parts of the invariant hold.
LEMMA SpecIndInv == Spec => []IndInv
  BY InitIndInv, NextIndInv, PTL DEF Spec

-----------------------------------------------------------------------------
(* Events: the theorems *)

\* Every variable of the event ingest keeps its type.
THEOREM TypeCorrect == Spec => []TypeOK
  <1>1. IndInv => TypeOK
    BY DEF IndInv
  <1> QED  BY <1>1, SpecIndInv, PTL

\* AnsweredIsStored: an answer means that every event it did not reject is stored.
THEOREM AnswersAreTrue == Spec => []AnsweredIsStored
  <1>1. IndInv => AnsweredIsStored
    <2> SUFFICES ASSUME IndInv, NEW r \in Request, batch[r].at = "answered",
                        NEW i \in DOMAIN batch[r].list \ batch[r].rejected
                 PROVE  \E f \in stored : SameRow(batch[r].list[i], f)
      BY DEF AnsweredIsStored
    <2>1. Committed(r)
      BY DEF Committed
    <2>2. i \in 1..batch[r].item - 1 \ batch[r].rejected
      BY <2>1, ListType DEF IndInv, CommittedWhole
    <2> QED  BY <2>1, <2>2 DEF IndInv, PassedKept, CommittedWhole
  <1> QED  BY <1>1, SpecIndInv, PTL

\* BilledOnce: no two committed attempts count the same event as accepted, whether their
\* answers arrive or are lost.
THEOREM BilledAtMostOnce == Spec => []BilledOnce
  <1>1. IndInv => BilledOnce
    BY DEF IndInv
  <1> QED  BY <1>1, SpecIndInv, PTL

\* WholeOrNothing: a row is stored by a request that passed its whole list and stored all
\* it accepted, answered or not; one that ended before its commit leaves none.
THEOREM StoredWholeOrNot == Spec => []WholeOrNothing
  <1>1. IndInv => WholeOrNothing
    BY DEF IndInv
  <1> QED  BY <1>1, SpecIndInv, PTL

-----------------------------------------------------------------------------
(* Probes: the inductive invariant *)

\* A batch that is about to store an event has looked it up, not later than now.
Stores(w) == probes[w].at = "store"

StoringPlace ==
    \A w \in Worker : Stores(w) =>
      probes[w].next <= Len(probes[w].events) /\ probes[w].looked <= now

\* What was stored is in the past, and its entry has been given its time since.
EntriesLast ==
    \A one \in accepted :
      /\ one.looked <= now /\ one.stored <= now
      /\ expires[one.probe] # Absent /\ one.stored + TTL <= expires[one.probe]

\* An event about to be stored was not in the cache when it was looked up.
LookedUpAbsent ==
    \A w \in Worker, one \in accepted :
      Stores(w) /\ one.probe = Cache!Current(w) /\ one.stored < probes[w].looked
        => one.stored + TTL <= probes[w].looked

CacheInv ==
    /\ Cache!TypeOK
    /\ StoringPlace
    /\ EntriesLast
    /\ LookedUpAbsent
    /\ AcceptedTwiceOnlyByRace

LEMMA InitCacheInv == Cache!Init => CacheInv
  <1> SUFFICES ASSUME Cache!Init PROVE CacheInv
    OBVIOUS
  <1>1. Cache!Idle \in Cache!BatchLocal
    BY ProbeAssumption DEF Cache!Idle, Cache!BatchLocal
  <1>2. Cache!TypeOK
    BY <1>1, ProbeAssumption DEF Cache!Init, Cache!TypeOK, Cache!Idle
  <1> QED  BY <1>2 DEF Cache!Init, Cache!Idle, CacheInv, StoringPlace, EntriesLast, LookedUpAbsent,
               Stores, AcceptedTwiceOnlyByRace, Cache!AcceptedTwiceOnlyByRace

LEMMA EventsType ==
  ASSUME NEW b \in Cache!BatchLocal
  PROVE  b.events \in Seq(Probe) /\ Len(b.events) \in Nat
  <1>1. b.events \in Batches \/ b.events = <<>>
    BY DEF Cache!BatchLocal
  <1>2. CASE b.events \in Batches
    BY <1>2, ProbeAssumption
  <1>3. CASE b.events = <<>>
    BY <1>3
  <1> QED  BY <1>1, <1>2, <1>3

\* The event that a batch stands at is a probe.
LEMMA CurrentType ==
  ASSUME Cache!TypeOK, NEW w \in Worker, probes[w].next <= Len(probes[w].events)
  PROVE  Cache!Current(w) \in Probe
  <1>1. probes[w].events \in Batches \cup {<<>>} /\ probes[w].next \in 1..Len(probes[w].events) + 1
    BY DEF Cache!TypeOK, Cache!BatchLocal
  <1>2. probes[w].events \in Seq(Probe)
    BY <1>1, ProbeAssumption
  <1> QED  BY <1>1, <1>2 DEF Cache!Current

LEMMA TickCacheInv == ASSUME CacheInv, Cache!Tick PROVE CacheInv'
  <1> USE DEF CacheInv
  <1>1. now \in Nat /\ now' = now + 1 /\ UNCHANGED <<expires, probes, accepted>>
    BY ProbeAssumption DEF Cache!Tick, Cache!TypeOK
  <1>2. Cache!TypeOK'
    BY ProbeAssumption DEF Cache!Tick, Cache!TypeOK
  <1>3. StoringPlace'
    <2>1. \A w \in Worker : probes[w].looked \in Nat
      BY ProbeAssumption DEF Cache!TypeOK, Cache!BatchLocal
    <2> QED  BY <1>1, <2>1 DEF StoringPlace, Stores
  <1>4. EntriesLast'
    <2>1. \A one \in accepted : one.looked \in Nat /\ one.stored \in Nat
      BY ProbeAssumption DEF Cache!TypeOK
    <2> QED  BY <1>1, <2>1 DEF EntriesLast
  <1>5. LookedUpAbsent'
    BY <1>1 DEF LookedUpAbsent, Stores, Cache!Current
  <1>6. AcceptedTwiceOnlyByRace'
    BY <1>1 DEF AcceptedTwiceOnlyByRace, Cache!AcceptedTwiceOnlyByRace
  <1> QED  BY <1>2, <1>3, <1>4, <1>5, <1>6

\* A step of a batch that stores nothing.
LEMMA BatchCacheInv ==
  ASSUME CacheInv, NEW w \in Worker, NEW b \in Cache!BatchLocal,
         b.next \in 1..Len(b.events) + 1, b.accepted + b.hits = b.next - 1,
         b.at = "store" =>
           /\ b.next <= Len(b.events) /\ b.looked = now
           /\ b.events = probes[w].events /\ b.next = probes[w].next
           /\ ~Cache!Cached(Cache!Current(w)) /\ Cache!Current(w) \in Probe,
         probes' = [probes EXCEPT ![w] = b], UNCHANGED <<now, expires, accepted>>
  PROVE  CacheInv'
  <1> USE DEF CacheInv
  <1>1. probes'[w] = b /\ \A v \in Worker \ {w} : probes'[v] = probes[v]
    BY DEF Cache!TypeOK
  <1>2. now \in Nat
    BY ProbeAssumption DEF Cache!TypeOK
  <1>3. Cache!TypeOK'
    BY <1>1 DEF Cache!TypeOK
  <1>4. StoringPlace'
    BY <1>1, <1>2 DEF StoringPlace, Stores
  <1>5. EntriesLast'
    BY DEF EntriesLast
  <1>6. LookedUpAbsent'
    <2> SUFFICES ASSUME NEW v \in Worker, NEW one \in accepted,
                        Stores(v)', one.probe = Cache!Current(v)', one.stored < probes'[v].looked
                 PROVE  one.stored + TTL <= probes'[v].looked
      BY DEF LookedUpAbsent
    <2>1. CASE v = w
      <3>1. one.probe = Cache!Current(w) /\ probes'[v].looked = now
        BY <2>1, <1>1 DEF Stores, Cache!Current
      <3>2. expires[one.probe] <= now
        <4>1. expires[one.probe] \in 0..MaxTime + TTL
          BY <3>1, <2>1, <1>1 DEF EntriesLast, Cache!TypeOK, Stores
        <4>2. expires[one.probe] \in Nat
          <5>1. MaxTime + TTL \in Nat
            BY ProbeAssumption, TTLAssumption
          <5> QED  BY <4>1, <5>1 DEF EntriesLast
        <4> QED  BY <3>1, <2>1, <1>1, <1>2, <4>2 DEF EntriesLast, Cache!Cached, Stores
      <3>3. /\ one.stored + TTL <= expires[one.probe]
            /\ one.stored \in Nat /\ expires[one.probe] \in Nat
        BY <3>1, <2>1, <1>1, ProbeAssumption DEF EntriesLast, Cache!TypeOK, Stores
      <3> QED  BY <3>1, <3>2, <3>3, <1>2, TTLAssumption
    <2>2. CASE v # w
      BY <2>2, <1>1 DEF LookedUpAbsent, Stores, Cache!Current
    <2> QED  BY <2>1, <2>2
  <1>7. AcceptedTwiceOnlyByRace'
    BY DEF AcceptedTwiceOnlyByRace, Cache!AcceptedTwiceOnlyByRace
  <1> QED  BY <1>3, <1>4, <1>5, <1>6, <1>7


LEMMA StoreCacheInv == ASSUME CacheInv, NEW w \in Worker, Cache!Store(w) PROVE CacheInv'
  <1> USE DEF CacheInv
  <1> DEFINE b == [probes[w] EXCEPT !.at = "lookup", !.accepted = @ + 1, !.next = @ + 1]
             p == Cache!Current(w)
             new == Cache!AsNew(w)
  <1>1. /\ probes[w] \in Cache!BatchLocal /\ Stores(w)
        /\ now \in Nat /\ now \in 0..MaxTime /\ TTL \in Nat /\ TTL > 0
    BY ProbeAssumption, TTLAssumption DEF Cache!TypeOK, Cache!Store, Stores
  <1>2. /\ probes[w].accepted \in Nat /\ probes[w].hits \in Nat /\ probes[w].next \in Nat
        /\ probes[w].looked \in 0..MaxTime
    BY <1>1 DEF Cache!BatchLocal
  <1>3. probes[w].next <= Len(probes[w].events) /\ probes[w].looked <= now
    BY <1>1 DEF StoringPlace
  <1>4. p \in Probe
    BY <1>3, CurrentType
  <1>5. /\ b \in Cache!BatchLocal /\ b.at = "lookup" /\ b.events = probes[w].events
        /\ b.next = probes[w].next + 1 /\ b.accepted = probes[w].accepted + 1
        /\ b.hits = probes[w].hits
    <2>1. probes[w].accepted + 1 \in Nat /\ probes[w].next + 1 \in Nat
      BY <1>2
    <2> QED  BY <1>1, <2>1 DEF Cache!BatchLocal
  <1>6. new = [probe |-> p, looked |-> probes[w].looked, stored |-> now]
    BY DEF Cache!AsNew
  <1>7. /\ probes' = [probes EXCEPT ![w] = b] /\ expires' = [expires EXCEPT ![p] = now + TTL]
        /\ accepted' = accepted \cup {new} /\ now' = now
    BY DEF Cache!Store
  <1> HIDE DEF b, new
  <1>8. probes'[w] = b /\ \A v \in Worker \ {w} : probes'[v] = probes[v]
    BY <1>7 DEF Cache!TypeOK
  <1>9. /\ expires'[p] = now + TTL
        /\ \A q \in Probe \ {p} : expires'[q] = expires[q]
    BY <1>4, <1>7 DEF Cache!TypeOK
  <1>10. \A one \in accepted :
           one.probe \in Probe /\ one.looked \in Nat /\ one.stored \in Nat
    BY ProbeAssumption DEF Cache!TypeOK
  <1>11. Cache!TypeOK'
    <2>1. now + TTL \in 0..MaxTime + TTL
      BY <1>1, ProbeAssumption
    <2>2. expires' \in [Probe -> (0..MaxTime + TTL) \cup {Absent}]
      BY <1>4, <1>7, <2>1 DEF Cache!TypeOK
    <2>3. new \in [probe : Probe, looked : 0..MaxTime, stored : 0..MaxTime]
      BY <1>1, <1>2, <1>4, <1>6
    <2>4. /\ b.next \in 1..Len(b.events) + 1
          /\ b.accepted + b.hits = b.next - 1
      <3>1. Len(probes[w].events) \in Nat
        BY <1>1, EventsType
      <3>2. probes[w].accepted + probes[w].hits = probes[w].next - 1 /\ probes[w].next >= 1
        BY <3>1 DEF Cache!TypeOK
      <3>3. b.next \in 1..Len(b.events) + 1
        BY <1>2, <1>3, <1>5, <3>1
      <3>4. b.accepted + b.hits = b.next - 1
        BY <1>2, <1>5, <3>2
      <3> QED  BY <3>3, <3>4
    <2>5. probes' \in [Worker -> Cache!BatchLocal]
      BY <1>5, <1>7 DEF Cache!TypeOK
    <2>6. \A v \in Worker : /\ probes'[v].next \in 1..Len(probes'[v].events) + 1
                            /\ probes'[v].accepted + probes'[v].hits = probes'[v].next - 1
      BY <1>8, <2>4 DEF Cache!TypeOK
    <2>7. /\ now' \in 0..MaxTime
          /\ accepted' \subseteq [probe : Probe, looked : 0..MaxTime, stored : 0..MaxTime]
      BY <1>1, <1>7, <2>3 DEF Cache!TypeOK
    <2> QED  BY <2>2, <2>5, <2>6, <2>7 DEF Cache!TypeOK
  <1>12. StoringPlace'
    BY <1>5, <1>7, <1>8 DEF StoringPlace, Stores
  <1>13. EntriesLast'
    <2> SUFFICES ASSUME NEW one \in accepted'
                 PROVE  /\ one.looked <= now /\ one.stored <= now
                        /\ expires'[one.probe] # Absent
                        /\ one.stored + TTL <= expires'[one.probe]
      BY <1>7 DEF EntriesLast
    <2>1. now + TTL # Absent
      BY <1>1, ProbeAssumption
    <2>2. CASE one = new
      BY <2>1, <2>2, <1>1, <1>3, <1>6, <1>9
    <2>3. CASE one \in accepted /\ one.probe = p
      BY <2>1, <2>3, <1>1, <1>9, <1>10 DEF EntriesLast
    <2>4. CASE one \in accepted /\ one.probe # p
      BY <2>4, <1>9, <1>10 DEF EntriesLast
    <2> QED  BY <2>2, <2>3, <2>4, <1>7
  <1>14. LookedUpAbsent'
    <2> SUFFICES ASSUME NEW v \in Worker, NEW one \in accepted', Stores(v)',
                        one.probe = Cache!Current(v)', one.stored < probes'[v].looked
                 PROVE  one.stored + TTL <= probes'[v].looked
      BY DEF LookedUpAbsent
    <2>1. v # w
      BY <1>5, <1>8 DEF Stores
    <2>2. Stores(v) /\ probes'[v] = probes[v] /\ Cache!Current(v)' = Cache!Current(v)
      BY <2>1, <1>8 DEF Stores, Cache!Current
    <2>3. probes[v].looked <= now /\ probes[v].looked \in Nat
      BY <2>2, ProbeAssumption DEF StoringPlace, Cache!TypeOK, Cache!BatchLocal
    <2>4. one # new
      BY <2>2, <2>3, <1>1, <1>6
    <2> QED  BY <2>2, <2>4, <1>7 DEF LookedUpAbsent
  <1>15. AcceptedTwiceOnlyByRace'
    <2> SUFFICES ASSUME NEW one \in accepted', NEW other \in accepted',
                        one.probe = other.probe, one.stored < other.looked
                 PROVE  one.stored + TTL <= other.looked
      BY DEF AcceptedTwiceOnlyByRace, Cache!AcceptedTwiceOnlyByRace
    <2>1. CASE one = new
      BY <2>1, <1>1, <1>2, <1>3, <1>6, <1>7, <1>10 DEF EntriesLast
    <2>2. CASE one \in accepted /\ other = new
      BY <2>2, <1>1, <1>6 DEF LookedUpAbsent
    <2>3. CASE one \in accepted /\ other \in accepted
      BY <2>3 DEF AcceptedTwiceOnlyByRace, Cache!AcceptedTwiceOnlyByRace
    <2> QED  BY <2>1, <2>2, <2>3, <1>7
  <1> QED  BY <1>11, <1>12, <1>13, <1>14, <1>15

LEMMA NextCacheInv == CacheInv /\ [Cache!Next]_(Cache!vars) => CacheInv'
  <1> SUFFICES ASSUME CacheInv, [Cache!Next]_(Cache!vars) PROVE CacheInv'
    OBVIOUS
  <1> USE DEF CacheInv
  <1>1. Cache!Idle \in Cache!BatchLocal /\ Len(<<>>) = 0
    BY ProbeAssumption DEF Cache!Idle, Cache!BatchLocal
  <1>2. ASSUME NEW w \in Worker, NEW events \in Batches, Cache!Begin(w, events)
        PROVE  CacheInv'
    <2> DEFINE b == [Cache!Idle EXCEPT !.at = "lookup", !.events = events]
    <2>1. /\ b \in Cache!BatchLocal /\ b.at = "lookup" /\ b.events = events
          /\ b.next = 1 /\ b.accepted = 0 /\ b.hits = 0
      BY <1>1 DEF Cache!Idle, Cache!BatchLocal
    <2>2. Len(events) \in Nat
      BY ProbeAssumption
    <2>3. probes' = [probes EXCEPT ![w] = b] /\ UNCHANGED <<now, expires, accepted>>
      BY <1>2 DEF Cache!Begin
    <2> HIDE DEF b
    <2>4. /\ b.next \in 1..Len(b.events) + 1 /\ b.accepted + b.hits = b.next - 1
          /\ b.at # "store"
      BY <2>1, <2>2
    <2> QED  BY <2>1, <2>3, <2>4, BatchCacheInv
  <1>3. ASSUME NEW w \in Worker, Cache!LookUp(w) PROVE CacheInv'
    <2>1. /\ probes[w] \in Cache!BatchLocal /\ probes[w].at = "lookup"
          /\ probes[w].next <= Len(probes[w].events) /\ Cache!Current(w) \in Probe
      BY <1>3, CurrentType DEF Cache!LookUp, Cache!More, Cache!TypeOK
    <2>2. /\ probes[w].hits \in Nat /\ probes[w].next \in Nat /\ probes[w].accepted \in Nat
          /\ Len(probes[w].events) \in Nat
      BY <2>1, EventsType DEF Cache!BatchLocal
    <2>3. CASE Cache!Cached(Cache!Current(w))
      <3> DEFINE b == [probes[w] EXCEPT !.hits = @ + 1, !.next = @ + 1]
      <3>1. probes[w].hits + 1 \in Nat /\ probes[w].next + 1 \in Nat
        BY <2>2
      <3>2. /\ b \in Cache!BatchLocal /\ b.at = "lookup" /\ b.events = probes[w].events
            /\ b.next = probes[w].next + 1 /\ b.accepted = probes[w].accepted
            /\ b.hits = probes[w].hits + 1
        BY <2>1, <3>1 DEF Cache!BatchLocal
      <3>3. probes' = [probes EXCEPT ![w] = b] /\ UNCHANGED <<now, expires, accepted>>
        BY <1>3, <2>3 DEF Cache!LookUp
      <3> HIDE DEF b
      <3>4. probes[w].accepted + probes[w].hits = probes[w].next - 1
        BY DEF Cache!TypeOK
      <3>5. b.next \in 1..Len(b.events) + 1
        <4>1. b.next = probes[w].next + 1 /\ b.events = probes[w].events
          BY <3>2
        <4> QED  BY <2>1, <2>2, <4>1
      <3>6. b.accepted + b.hits = b.next - 1
        <4>1. \A x, y, z \in Nat : x + y = z - 1 => x + (y + 1) = (z + 1) - 1
          OBVIOUS
        <4>2. probes[w].accepted + (probes[w].hits + 1) = (probes[w].next + 1) - 1
          BY <2>2, <3>4, <4>1
        <4> QED  BY <3>2, <4>2
      <3> QED  BY <3>2, <3>3, <3>5, <3>6, BatchCacheInv
    <2>4. CASE ~Cache!Cached(Cache!Current(w))
      <3> DEFINE b == [probes[w] EXCEPT !.at = "store", !.looked = now]
      <3>1. /\ b \in Cache!BatchLocal /\ b.at = "store" /\ b.events = probes[w].events
            /\ b.next = probes[w].next /\ b.accepted = probes[w].accepted
            /\ b.hits = probes[w].hits /\ b.looked = now
        BY <2>1 DEF Cache!BatchLocal, Cache!TypeOK
      <3>2. probes' = [probes EXCEPT ![w] = b] /\ UNCHANGED <<now, expires, accepted>>
        BY <1>3, <2>4 DEF Cache!LookUp
      <3> HIDE DEF b
      <3>3. b.next \in 1..Len(b.events) + 1 /\ b.accepted + b.hits = b.next - 1
        BY <3>1 DEF Cache!TypeOK
      <3> QED  BY <2>1, <2>4, <3>1, <3>2, <3>3, BatchCacheInv
    <2> QED  BY <2>3, <2>4
  <1>4. ASSUME NEW w \in Worker, Cache!Leave(w) PROVE CacheInv'
    <2>1. /\ Cache!Idle.next = 1 /\ Cache!Idle.events = <<>> /\ Cache!Idle.accepted = 0
          /\ Cache!Idle.hits = 0 /\ Cache!Idle.at = "idle"
      BY DEF Cache!Idle
    <2>2. /\ Cache!Idle.next \in 1..Len(Cache!Idle.events) + 1
          /\ Cache!Idle.accepted + Cache!Idle.hits = Cache!Idle.next - 1
          /\ Cache!Idle.at # "store"
      BY <1>1, <2>1
    <2>3. probes' = [probes EXCEPT ![w] = Cache!Idle] /\ UNCHANGED <<now, expires, accepted>>
      BY <1>4 DEF Cache!Leave
    <2> QED  BY <1>1, <2>2, <2>3, BatchCacheInv
  <1>5. CASE UNCHANGED Cache!vars
    BY <1>5 DEF Cache!vars, Cache!TypeOK, StoringPlace, EntriesLast, LookedUpAbsent, Stores,
       Cache!Current, AcceptedTwiceOnlyByRace, Cache!AcceptedTwiceOnlyByRace
  <1> QED  BY <1>2, <1>3, <1>4, <1>5, TickCacheInv, StoreCacheInv DEF Cache!Next

LEMMA CacheSpecInv == Cache!Spec => []CacheInv
  BY InitCacheInv, NextCacheInv, PTL DEF Cache!Spec

\* AcceptedTwiceOnlyByRace: what was stored before an event was looked up keeps it from
\* being taken as new until the entry expires, in a cache of any size and time.
THEOREM CacheSkipsDuplicates == Cache!Spec => []AcceptedTwiceOnlyByRace
  <1>1. CacheInv => AcceptedTwiceOnlyByRace
    BY DEF CacheInv
  <1> QED  BY <1>1, CacheSpecInv, PTL

-----------------------------------------------------------------------------
(* The start: the inductive invariant *)

Past(stages) == process.stage \in stages

\* What the process has set up so far agrees with the environment it was given.
SetUpAsGiven ==
    /\ config # None => config \in Gate!Config
    /\ ~Past({"absent", "stopped", "refused"}) =>
         /\ process.engine = (IF config.url THEN "given" ELSE "localhost")
         /\ config.url \/ ~Gate!NamedProduction
    /\ Past({"created", "validated", "checked", "serving"}) =>
         process.origins = Gate!CorsOrigins /\ process.demoRoutes = Gate!DemoModeActive
    /\ Past({"validated", "checked", "serving"}) => ~Gate!Unsafe
    /\ Past({"checked", "serving"}) /\ Gate!IsProduction /\ config.requireDb => process.checked
    /\ process.demoData => Gate!DemoModeActive

GateInv == Gate!TypeOK /\ SetUpAsGiven

ProcessType ==
    [stage : {"absent", "stopped", "refused", "imported", "created", "validated", "checked",
              "serving"},
     engine : {"given", "localhost", None}, origins : {"listed", "wildcard", "veklom", None},
     demoRoutes : BOOLEAN, demoData : BOOLEAN, checked : BOOLEAN]

LEMMA StoppedType ==
  /\ Gate!Stopped \in ProcessType /\ Gate!Stopped.stage = "stopped" /\ ~Gate!Stopped.demoData
  /\ \A stage \in {"absent", "refused"} :
       LET p == [Gate!Stopped EXCEPT !.stage = stage]
       IN  p \in ProcessType /\ p.stage = stage /\ ~p.demoData
  BY DEF Gate!Stopped, ProcessType

LEMMA InitGateInv == Gate!Init => GateInv
  <1> SUFFICES ASSUME Gate!Init PROVE GateInv
    OBVIOUS
  <1>1. process \in ProcessType /\ process.stage = "absent" /\ ~process.demoData
    BY StoppedType DEF Gate!Init
  <1>2. deaths \in 0..MaxDeaths /\ outages \in 0..MaxOutages /\ deploys \in 0..MaxDeploys
    BY GateAssumption DEF Gate!Init
  <1>3. Gate!TypeOK
    BY <1>1, <1>2 DEF Gate!Init, Gate!TypeOK, ProcessType
  <1>4. SetUpAsGiven
    BY <1>1 DEF Gate!Init, SetUpAsGiven, Past
  <1> QED  BY <1>3, <1>4 DEF GateInv

\* A process that is stopped, or has refused to start, has set up nothing.
LEMMA EndGateInv ==
  ASSUME GateInv, config # None, config' \in Gate!Config,
         process' = Gate!Stopped \/ process' = [Gate!Stopped EXCEPT !.stage = "refused"],
         UNCHANGED <<database, outages>>,
         deaths' \in 0..MaxDeaths, deploys' \in 0..MaxDeploys
  PROVE  GateInv'
  <1>1. process' \in ProcessType /\ process'.stage \in {"stopped", "refused"} /\ ~process'.demoData
    BY StoppedType
  <1>2. Gate!TypeOK'
    BY <1>1, GateAssumption DEF GateInv, Gate!TypeOK, ProcessType
  <1>3. SetUpAsGiven'
    BY <1>1 DEF SetUpAsGiven, Past
  <1> QED  BY <1>2, <1>3 DEF GateInv

\* A step of the start, under the configuration there is.
LEMMA StartGateInv ==
  ASSUME GateInv, NEW p \in ProcessType, process' = p,
         UNCHANGED <<config, database, deaths, outages, deploys>>,
         p.stage # "absent", p.engine # None, config # None, p.demoData => p.stage = "serving",
         SetUpAsGiven'
  PROVE  GateInv'
  BY DEF GateInv, Gate!TypeOK, ProcessType

LEMMA NextGateInv == GateInv /\ [Gate!Next]_(Gate!vars) => GateInv'
  <1> SUFFICES ASSUME GateInv, [Gate!Next]_(Gate!vars) PROVE GateInv'
    OBVIOUS
  <1> USE DEF GateInv
  <1>1. /\ process \in ProcessType
        /\ ~Past({"absent"}) => config # None /\ config \in Gate!Config
        /\ process.engine = None => Past({"absent", "stopped", "refused"})
        /\ process.demoData => Past({"serving"})
    BY DEF Gate!TypeOK, ProcessType, SetUpAsGiven, Past
  <1>2. CASE Gate!DatabaseGoes \/ Gate!DatabaseComes
    <2>1. database' \in BOOLEAN /\ outages' \in 0..MaxOutages
      <3>1. MaxOutages \in Nat /\ outages \in 0..MaxOutages
        BY GateAssumption DEF Gate!TypeOK
      <3>2. CASE Gate!DatabaseGoes
        <4>1. database' = FALSE /\ outages < MaxOutages /\ outages' = outages + 1
          BY <3>2 DEF Gate!DatabaseGoes
        <4>2. outages' \in 0..MaxOutages
          BY <3>1, <4>1
        <4> QED  BY <4>1, <4>2
      <3>3. CASE Gate!DatabaseComes
        BY <3>1, <3>3 DEF Gate!DatabaseComes
      <3> QED  BY <1>2, <3>2, <3>3
    <2>2. UNCHANGED <<config, process, deaths, deploys>>
      BY <1>2 DEF Gate!DatabaseGoes, Gate!DatabaseComes
    <2>3. Gate!TypeOK'
      BY <2>1, <2>2 DEF Gate!TypeOK
    <2>4. SetUpAsGiven'
      BY <2>2 DEF SetUpAsGiven, Past, Gate!NamedProduction, Gate!CorsOrigins,
         Gate!DemoModeActive, Gate!Unsafe, Gate!IsProduction
    <2> QED  BY <2>3, <2>4
  <1>3. CASE Gate!Deploy
    <2>1. deploys' \in 0..MaxDeploys
      BY <1>3, GateAssumption DEF Gate!Deploy, Gate!TypeOK
    <2>2. Gate!TypeOK'
      BY <1>3, <2>1, StoppedType, GateAssumption DEF Gate!Deploy, Gate!TypeOK, ProcessType
    <2>3. SetUpAsGiven'
      BY <1>3, StoppedType DEF Gate!Deploy, SetUpAsGiven, Past
    <2> QED  BY <2>2, <2>3
  <1>4. CASE Gate!Die
    <2>1. deaths' \in 0..MaxDeaths
      BY <1>4, GateAssumption DEF Gate!Die, Gate!TypeOK
    <2> QED  BY <1>1, <1>4, <2>1, EndGateInv DEF Gate!Die, Past, Gate!TypeOK
  <1>5. CASE Gate!Restart
    BY <1>1, <1>5, EndGateInv DEF Gate!Restart, Past, Gate!TypeOK
  <1>6. CASE /\ Gate!Refuses /\ ~Past({"absent"})
             /\ UNCHANGED <<config, database, deaths, outages, deploys>>
    BY <1>1, <1>6, EndGateInv DEF Gate!Refuses, Gate!TypeOK
  <1>7. CASE Gate!ImportDatabase /\ ~Gate!Refuses
    <2> DEFINE p == [process EXCEPT !.stage = "imported",
                                    !.engine = IF config.url THEN "given" ELSE "localhost"]
    <2>1. process' = p /\ UNCHANGED <<config, database, deaths, outages, deploys>>
      BY <1>7 DEF Gate!ImportDatabase
    <2>2. /\ p \in ProcessType /\ p.stage = "imported" /\ ~p.demoData
          /\ p.engine = (IF config.url THEN "given" ELSE "localhost") /\ p.engine # None
      BY <1>1, <1>7, GateAssumption DEF ProcessType, Gate!ImportDatabase, Past
    <2> HIDE DEF p
    <2>3. SetUpAsGiven'
      BY <1>1, <1>7, <2>1, <2>2
         DEF SetUpAsGiven, Past, Gate!ImportDatabase, Gate!NamedProduction
    <2> QED  BY <1>1, <1>7, <2>1, <2>2, <2>3, StartGateInv DEF Gate!ImportDatabase, Past
  <1>8. CASE Gate!MountRoutes
    <2> DEFINE p == [process EXCEPT !.stage = "created", !.origins = Gate!CorsOrigins,
                                    !.demoRoutes = Gate!DemoModeActive]
    <2>1. process' = p /\ UNCHANGED <<config, database, deaths, outages, deploys>>
      BY <1>8 DEF Gate!MountRoutes
    <2>2. Gate!CorsOrigins \in {"listed", "wildcard", "veklom"} /\ Gate!DemoModeActive \in BOOLEAN
      BY <1>1, <1>8 DEF Gate!MountRoutes, Past, Gate!CorsOrigins, Gate!DemoModeActive,
         Gate!IsProduction, Gate!Config
    <2>3. /\ p \in ProcessType /\ p.stage = "created" /\ p.demoData = process.demoData
          /\ p.engine = process.engine /\ p.origins = Gate!CorsOrigins
          /\ p.demoRoutes = Gate!DemoModeActive
      BY <1>1, <2>2 DEF ProcessType
    <2> HIDE DEF p
    <2>4. SetUpAsGiven'
      BY <1>1, <1>8, <2>1, <2>3
         DEF SetUpAsGiven, Past, Gate!MountRoutes, Gate!NamedProduction, Gate!CorsOrigins,
             Gate!DemoModeActive, Gate!IsProduction
    <2> QED  BY <1>1, <1>8, <2>1, <2>3, <2>4, StartGateInv DEF Gate!MountRoutes, Past
  <1>9. CASE Gate!Validate /\ ~Gate!Refuses
    <2> DEFINE p == [process EXCEPT !.stage = "validated"]
    <2>1. process' = p /\ UNCHANGED <<config, database, deaths, outages, deploys>> /\ ~Gate!Unsafe
      BY <1>9 DEF Gate!Validate, Gate!Reaches
    <2>2. /\ p \in ProcessType /\ p.stage = "validated" /\ p.demoData = process.demoData
          /\ p.engine = process.engine /\ p.origins = process.origins
          /\ p.demoRoutes = process.demoRoutes
      BY <1>1 DEF ProcessType
    <2> HIDE DEF p
    <2>3. SetUpAsGiven'
      BY <1>1, <1>9, <2>1, <2>2
         DEF SetUpAsGiven, Past, Gate!Validate, Gate!NamedProduction, Gate!CorsOrigins,
             Gate!DemoModeActive, Gate!Unsafe, Gate!IsProduction
    <2> QED  BY <1>1, <1>9, <2>1, <2>2, <2>3, StartGateInv DEF Gate!Validate, Past
  <1>10. CASE Gate!CheckDatabase /\ ~Gate!Refuses
    <2>1. PICK checked \in {process.checked, TRUE} :
            /\ process' = [process EXCEPT !.stage = "checked", !.checked = checked]
            /\ Gate!IsProduction /\ config.requireDb => checked
      <3>1. CASE ~(Gate!IsProduction /\ config.requireDb)
        <4>1. process' = [process EXCEPT !.stage = "checked"]
          BY <1>10, <3>1 DEF Gate!CheckDatabase, Gate!Reaches
        <4>2. process' = [process EXCEPT !.stage = "checked", !.checked = process.checked]
          BY <1>1, <4>1 DEF ProcessType
        <4> QED  BY <3>1, <4>2
      <3>2. CASE Gate!IsProduction /\ config.requireDb
        BY <1>10, <3>2 DEF Gate!CheckDatabase
      <3> QED  BY <3>1, <3>2
    <2> DEFINE p == [process EXCEPT !.stage = "checked", !.checked = checked]
    <2>2. /\ p \in ProcessType /\ p.stage = "checked" /\ p.demoData = process.demoData
          /\ p.engine = process.engine /\ p.origins = process.origins
          /\ p.demoRoutes = process.demoRoutes /\ p.checked = checked
      BY <1>1 DEF ProcessType
    <2>3. process' = p /\ UNCHANGED <<config, database, deaths, outages, deploys>>
      BY <1>10, <2>1 DEF Gate!CheckDatabase
    <2> HIDE DEF p
    <2>4. SetUpAsGiven'
      BY <1>1, <1>10, <2>1, <2>2, <2>3
         DEF SetUpAsGiven, Past, Gate!CheckDatabase, Gate!NamedProduction, Gate!CorsOrigins,
             Gate!DemoModeActive, Gate!Unsafe, Gate!IsProduction
    <2> QED  BY <1>1, <1>10, <2>2, <2>3, <2>4, StartGateInv DEF Gate!CheckDatabase, Past
  <1>11. CASE Gate!Serve
    <2> DEFINE p == [process EXCEPT !.stage = "serving", !.demoData = Gate!DemoModeActive]
    <2>1. process' = p /\ UNCHANGED <<config, database, deaths, outages, deploys>>
      BY <1>11 DEF Gate!Serve
    <2>2. Gate!DemoModeActive \in BOOLEAN
      BY <1>1, <1>11 DEF Gate!Serve, Past, Gate!DemoModeActive, Gate!IsProduction, Gate!Config
    <2>3. /\ p \in ProcessType /\ p.stage = "serving" /\ p.demoData = Gate!DemoModeActive
          /\ p.engine = process.engine /\ p.origins = process.origins
          /\ p.demoRoutes = process.demoRoutes /\ p.checked = process.checked
      BY <1>1, <2>2 DEF ProcessType
    <2> HIDE DEF p
    <2>4. SetUpAsGiven'
      BY <1>1, <1>11, <2>1, <2>3
         DEF SetUpAsGiven, Past, Gate!Serve, Gate!NamedProduction, Gate!CorsOrigins,
             Gate!DemoModeActive, Gate!Unsafe, Gate!IsProduction
    <2> QED  BY <1>1, <1>11, <2>1, <2>3, <2>4, StartGateInv DEF Gate!Serve, Past
  <1>12. CASE UNCHANGED Gate!vars
    BY <1>12 DEF Gate!vars, Gate!TypeOK, SetUpAsGiven, Past, Gate!NamedProduction,
       Gate!CorsOrigins, Gate!DemoModeActive, Gate!Unsafe, Gate!IsProduction
  <1>13. CASE Gate!Start
    <2>1. ~Past({"absent"}) /\ UNCHANGED <<config, database, deaths, outages, deploys>>
      BY <1>13 DEF Gate!Start, Gate!ImportDatabase, Gate!MountRoutes, Gate!Validate,
         Gate!CheckDatabase, Gate!Serve, Past
    <2> QED  BY <1>6, <1>7, <1>8, <1>9, <1>10, <1>11, <1>13, <2>1 DEF Gate!Start
  <1> QED  BY <1>2, <1>3, <1>4, <1>5, <1>12, <1>13 DEF Gate!Next

LEMMA GateSpecInv == Gate!Spec => []GateInv
  BY InitGateInv, NextGateInv, PTL DEF Gate!Spec

\* ProductionServesSafely: whatever a process in production was given, once it serves,
\* what was mounted before the settings were validated is safe.
THEOREM ProductionIsSafe == Gate!Spec => []ProductionServesSafely
  <1>1. GateInv => ProductionServesSafely
    BY DEF GateInv, SetUpAsGiven, Past, ProductionServesSafely, Gate!ProductionServesSafely,
       Gate!Serving, Gate!Unsafe, Gate!DemoModeActive, Gate!IsProduction, Gate!NamedProduction,
       Gate!TypeOK, Gate!Config
  <1> QED  BY <1>1, GateSpecInv, PTL

-----------------------------------------------------------------------------

\* Side by side each of the three runs as it is specified: what is proved of each holds of
\* the instance that is checked.
THEOREM PartsRun == InboundSpec => Spec /\ Cache!Spec /\ Gate!Spec
  <1>1. InboundInit => Init /\ Cache!Init /\ Gate!Init
    BY DEF InboundInit
  <1>2. [InboundNext]_<<vars, cacheVars, gateVars>>
          => [Next]_vars /\ [Cache!Next]_(Cache!vars) /\ [Gate!Next]_(Gate!vars)
    BY DEF InboundNext, vars, cacheVars, gateVars, Cache!vars, Gate!vars
  <1> QED  BY <1>1, <1>2, PTL DEF InboundSpec, Spec, Cache!Spec, Gate!Spec

\* TypesOK: every variable of the three keeps its type.
THEOREM TypesCorrect == InboundSpec => []TypesOK
  <1>1. IndInv /\ CacheInv /\ GateInv => TypesOK
    BY DEF IndInv, CacheInv, GateInv, TypesOK
  <1> QED  BY <1>1, PartsRun, SpecIndInv, CacheSpecInv, GateSpecInv, PTL

=============================================================================
