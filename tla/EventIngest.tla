---------------------------- MODULE EventIngest ----------------------------
(***************************************************************************)
(* Probe events and billable usage events: POST /ingest/probe-events and   *)
(* /ingest/usage-events of app/api/routers/vnp_ingest.py over the tables   *)
(* of app/db/models.py:185-213 and 266-301.                                *)
(*                                                                         *)
(* Both walk through a batch in one session and commit once.  Looking an   *)
(* event up flushes the one accepted before it, which takes its entry in   *)
(* the unique index until the request ends.  A node that got no answer     *)
(* sends its batch again, also when the answer was lost after the commit.  *)
(***************************************************************************)
EXTENDS Naturals, Sequences

CONSTANTS
    Event,   \* events as they are sent: kind, id, fault
    Batch,   \* the event lists a request may carry
    Request  \* POST /ingest/probe-events and /ingest/usage-events

\* What is wrong with an event: "implausible" is a latency below 2 or above 10000
\* ms, "future" a time more than ten minutes ahead, "unstorable" one the table
\* refuses: a missing column, an API or customer that does not exist.
Fault == [probe |-> {"none", "implausible", "future", "signature", "unstorable"},
          usage |-> {"none", "future", "unstorable"}]

ASSUME EventShape ==
    /\ \A e \in Event : e.kind \in {"probe", "usage"} /\ e.fault \in Fault[e.kind]
    /\ Batch \subseteq Seq(Event)
    /\ \A list \in Batch : \A i, j \in DOMAIN list : list[i].kind = list[j].kind

VARIABLES
    stored, \* ProbeEvent and UsageEvent rows, committed
    batch   \* the requests

vars == <<stored, batch>>

\* "accepted" are the events added to the session, "pending" those of them it has
\* not flushed yet; "rejected" and "deduplicated" are places in the list.
BatchLocal == [at : {"idle", "next", "committed", "answered",
                     "aborted", "failed", "died", "lost"},
               list : Batch \cup {<<>>}, item : Nat,
               accepted : SUBSET Event, pending : SUBSET Event,
               rejected : SUBSET Nat, deduplicated : SUBSET Nat]

\* Every event the loop has passed is counted once, as one of the three.
Tallied(b) ==
    /\ b.item \in 1..Len(b.list) + 1
    /\ b.rejected \cap b.deduplicated = {}
    /\ b.rejected \cup b.deduplicated \subseteq 1..b.item - 1
    /\ b.accepted = {b.list[i] : i \in 1..b.item - 1 \ (b.rejected \cup b.deduplicated)}
    /\ b.pending \subseteq b.accepted

TypeOK ==
    /\ stored \subseteq Event
    /\ batch \in [Request -> BatchLocal]
    /\ \A r \in Request : Tallied(batch[r])

Init ==
    /\ stored = {}
    /\ batch = [r \in Request |->
                  [at |-> "idle", list |-> <<>>, item |-> 1, accepted |-> {},
                   pending |-> {}, rejected |-> {}, deduplicated |-> {}]]

-----------------------------------------------------------------------------
(* Sessions *)

InFlight(r) == batch[r].at = "next"

\* The event_id of each table is unique.
SameRow(e, f) == e.kind = f.kind /\ e.id = f.id

\* Mutated form: get_db does not close the session, and a request that ends without a
\* commit keeps its transaction and the entries that it has flushed.
WaitsForLeaked(r, q) ==
    /\ q # r /\ batch[q].at \in {"next", "aborted", "failed", "died"}
    /\ \E e \in batch[r].pending, f \in batch[q].accepted \ batch[q].pending : SameRow(e, f)

\* r waits until q has committed or rolled back the row it wants to insert.
WaitsFor(r, q) ==
    /\ q # r /\ InFlight(q)
    /\ \E e \in batch[r].pending, f \in batch[q].accepted \ batch[q].pending : SameRow(e, f)

\* Mutated form: event_id carries no unique constraint.
FlushErrsOnFault(r) == \E e \in batch[r].pending : e.fault = "unstorable"

\* The table refuses the row, or another request has committed the same event.
FlushErrs(r) ==
    \E e \in batch[r].pending : e.fault = "unstorable" \/ \E f \in stored : SameRow(e, f)

Flushable(r) == ~FlushErrs(r) /\ \A q \in Request : ~WaitsFor(r, q)

-----------------------------------------------------------------------------
(* A batch *)

Begin(r, list) ==
    /\ batch[r].at = "idle"
    /\ batch' = [batch EXCEPT ![r].at = "next", ![r].list = list]
    /\ UNCHANGED stored

Exhausted(r) == batch[r].item > Len(batch[r].list)

Item(r) == batch[r].list[batch[r].item]

AtItem(r) == InFlight(r) /\ ~Exhausted(r)

\* Mutated form: what was accepted so far is committed before the 403.
AbortAfterCommit(r) ==
    /\ AtItem(r) /\ Item(r).fault = "implausible" /\ Flushable(r)
    /\ stored' = stored \cup batch[r].accepted
    /\ batch' = [batch EXCEPT ![r].at = "aborted"]

\* 403 for the whole batch, rolled back.
AbortImplausible(r) ==
    /\ AtItem(r) /\ Item(r).fault = "implausible"
    /\ batch' = [batch EXCEPT ![r].at = "aborted"]
    /\ UNCHANGED stored

RejectFuture(r) ==
    /\ AtItem(r) /\ Item(r).fault = "future"
    /\ batch' = [batch EXCEPT ![r].item = @ + 1, ![r].rejected = @ \cup {batch[r].item}]
    /\ UNCHANGED stored

\* The next event is looked up, which flushes the session first.
LookingUp(r) == AtItem(r) /\ Item(r).fault \notin {"implausible", "future"}

Known(r) == \E f \in stored \cup batch[r].accepted : SameRow(Item(r), f)

Deduplicate(r) ==
    /\ LookingUp(r) /\ Flushable(r) /\ Known(r)
    /\ batch' = [batch EXCEPT ![r].item = @ + 1, ![r].pending = {},
                              ![r].deduplicated = @ \cup {batch[r].item}]
    /\ UNCHANGED stored

\* Mutated form: the "continue" is missing, and the rejected event is stored.
RejectSignatureOnly(r) ==
    /\ LookingUp(r) /\ Flushable(r) /\ ~Known(r)
    /\ Item(r).fault = "signature"
    /\ batch' = [batch EXCEPT ![r].item = @ + 1, ![r].pending = {Item(r)},
                              ![r].accepted = @ \cup {Item(r)},
                              ![r].rejected = @ \cup {batch[r].item}]
    /\ UNCHANGED stored

\* Probe events only: the signature is verified after the lookup.
RejectSignature(r) ==
    /\ LookingUp(r) /\ Flushable(r) /\ ~Known(r)
    /\ Item(r).fault = "signature"
    /\ batch' = [batch EXCEPT ![r].item = @ + 1, ![r].pending = {},
                              ![r].rejected = @ \cup {batch[r].item}]
    /\ UNCHANGED stored

\* The row is added to the session; the table sees it at the next flush.
Accept(r) ==
    /\ LookingUp(r) /\ Flushable(r) /\ ~Known(r)
    /\ Item(r).fault # "signature"
    /\ batch' = [batch EXCEPT ![r].item = @ + 1, ![r].pending = {Item(r)},
                              ![r].accepted = @ \cup {Item(r)}]
    /\ UNCHANGED stored

\* Mutated form: the last event is left out of the commit.
CommitFlushed(r) ==
    /\ InFlight(r) /\ Exhausted(r) /\ Flushable(r)
    /\ stored' = stored \cup (batch[r].accepted \ batch[r].pending)
    /\ batch' = [batch EXCEPT ![r].at = "committed", ![r].pending = {}]

\* One commit for the whole batch; the entries are let go.
Commit(r) ==
    /\ InFlight(r) /\ Exhausted(r) /\ Flushable(r)
    /\ stored' = stored \cup batch[r].accepted
    /\ batch' = [batch EXCEPT ![r].at = "committed", ![r].pending = {}]

\* The counts are returned.
Answer(r) ==
    /\ batch[r].at = "committed"
    /\ batch' = [batch EXCEPT ![r].at = "answered"]
    /\ UNCHANGED stored

\* The flush happens at a later statement, outside of the try block around the
\* event it belongs to: 500 for the whole batch, rolled back.
FlushFails(r) ==
    /\ LookingUp(r) \/ (InFlight(r) /\ Exhausted(r))
    /\ FlushErrs(r)
    /\ batch' = [batch EXCEPT ![r].at = "failed"]
    /\ UNCHANGED stored

\* PostgreSQL ends a wait that can never end by failing one of its requests.
DeadlockVictim(r) ==
    /\ InFlight(r)
    /\ \E S \in SUBSET Request : r \in S /\ \A q \in S : \E p \in S : WaitsFor(q, p)
    /\ batch' = [batch EXCEPT ![r].at = "failed"]
    /\ UNCHANGED stored

BatchStep(r) ==
    \/ AbortImplausible(r) \/ RejectFuture(r) \/ Deduplicate(r) \/ RejectSignature(r)
    \/ Accept(r) \/ Commit(r) \/ Answer(r) \/ FlushFails(r) \/ DeadlockVictim(r)

\* A request that dies at an await is rolled back.
Die(r) ==
    /\ InFlight(r)
    /\ batch' = [batch EXCEPT ![r].at = "died"]
    /\ UNCHANGED stored

\* The service stops after the COMMIT, or PostgreSQL's reply to it is lost: the rows
\* are there, and the sender is not told.
LoseAnswer(r) ==
    /\ batch[r].at = "committed"
    /\ batch' = [batch EXCEPT ![r].at = "lost"]
    /\ UNCHANGED stored

Next ==
    \E r \in Request :
      (\E list \in Batch : Begin(r, list)) \/ BatchStep(r) \/ Die(r) \/ LoseAnswer(r)

Spec == Init /\ [][Next]_vars

\* The event loop resumes every request whose statement has been answered, and
\* PostgreSQL answers every statement that need not wait.
Fairness == \A r \in Request : WF_vars(BatchStep(r))

FairSpec == Spec /\ Fairness

-----------------------------------------------------------------------------
(* What a sender can rely on *)

\* Whatever a batch raced with, its answer is true: an event that was not rejected
\* is stored under its id, also one called a duplicate of an event of the same
\* batch or of another one.  The sender may forget it.
AnsweredIsStored ==
    \A r \in Request : batch[r].at = "answered" =>
      \A i \in DOMAIN batch[r].list \ batch[r].rejected :
        \E f \in stored : SameRow(batch[r].list[i], f)

\* The request has committed, whether or not its sender learns of it.
Committed(r) == batch[r].at \in {"committed", "answered", "lost"}

\* However often an event is sent, however the attempts overlap and whichever answers
\* are lost, at most one attempt that is committed counts it as accepted: usage is
\* billed once, and a batch repeated after a lost answer bills nothing again.
BilledOnce ==
    \A r, q \in Request :
      r # q /\ Committed(r) /\ Committed(q) =>
        \A e \in batch[r].accepted, f \in batch[q].accepted : ~SameRow(e, f)

\* A batch is stored whole or not at all: every row was accepted by a request that has
\* passed its whole list and has all that it accepted stored, whether its answer came
\* or was lost.  One that was aborted half-way, failed, or died before its commit,
\* leaves nothing behind.
WholeOrNothing ==
    \A f \in stored : \E r \in Request :
      /\ Committed(r) /\ Exhausted(r)
      /\ f \in batch[r].accepted /\ batch[r].accepted \subseteq stored

\* Every batch comes to an end, also those that name each other's events in
\* opposite orders.
EveryBatchEnds ==
    \A r \in Request :
      batch[r].at \in {"next", "committed"} ~> batch[r].at \notin {"next", "committed"}

=============================================================================
