---------------------------- MODULE NodeTelemetry ----------------------------
(***************************************************************************)
(* Signed telemetry of the physical nodes: the observation batches and the *)
(* heartbeats of app/api/routers/vnp_ingest.py over the tables of          *)
(* app/db/models.py:459-564.                                               *)
(*                                                                         *)
(* A batch request walks through its observations in one database session. *)
(* Each one costs several statements; the first of them flushes what the   *)
(* session has accepted so far, which takes the unique index entry of the  *)
(* new observation and the lock of its node's row until the request        *)
(* commits or rolls back.  What a statement reads is what is committed     *)
(* then, and what its own session has flushed.                             *)
(***************************************************************************)
EXTENDS Integers, Sequences

CONSTANTS
    Node, Target,
    Digest,           \* SHA-256 digests of observation payloads
    Observation,      \* signed observations a node may send
    Heartbeat,        \* signed heartbeats a node may send
    Version,          \* software versions
    Batch,            \* the observation lists a request may carry
    BatchRequest,     \* POST /ingest/observations/batches
    HeartbeatRequest, \* POST /ingest/heartbeats
    None              \* a column never written

\* What is wrong with an observation in itself: its schema, times or target; its
\* key, node or site; its digest or signature.
Fault == {"none", "envelope", "identity", "seal"}

\* Sequence numbers and links are the sender's to choose.  The digest is that of
\* the whole payload: it tells two observations apart also when they share an id.
ASSUME ObservationShape ==
    /\ \A o \in Observation :
         /\ o.node \in Node /\ o.target \in Target /\ o.sequence \in Int
         /\ o.digest \in Digest /\ o.previous \in Digest \cup {"bootstrap"}
         /\ o.fault \in Fault
    /\ \A o, p \in Observation : o.digest = p.digest => o = p
    /\ "bootstrap" \notin Digest

ASSUME HeartbeatShape ==
    \A h \in Heartbeat : h.node \in Node /\ h.sequence \in Int /\ h.version \in Version

ASSUME BatchShape == Batch \subseteq Seq(Observation)

ASSUME NamesDiffer ==
    /\ None \notin Heartbeat /\ None \notin BatchRequest /\ None \notin Version
    /\ Heartbeat \cap BatchRequest = {} /\ BatchRequest \cap HeartbeatRequest = {}

VARIABLES
    \* the committed database
    observations, \* Observation rows
    rejections,   \* ObservationRejection rows
    heartbeats,   \* NodeHeartbeat rows
    node,         \* Node rows: health_state, software_version, last_seen_at
    \* the requests in flight
    batch, beat

tables == <<observations, rejections, heartbeats, node>>
vars == <<observations, rejections, heartbeats, node, batch, beat>>

Reason == {"envelope", "duplicate_observation", "identity", "invalid_initial_chain",
           "non_monotonic_sequence", "previous_hash_mismatch", "seal"}

Rejection == [observation : Observation, reason : Reason]

Health == {"unknown", "standby", "live"}

\* last_seen_at is kept as what set it: a heartbeat's timestamp, or the start of
\* a batch request.
NodeRow == [health : Health, version : Version \cup {None},
            seen : {None} \cup Heartbeat \cup BatchRequest]

\* "item" is the place of the loop in the list.  "accepted" and "rejected" are the
\* rows the session has added, "pending" those of the accepted ones it has not
\* flushed yet, "loaded" the health_state of each node as the session loaded it.
BatchLocal == [at : {"idle", "next", "deciding", "answered", "failed"},
               list : Batch \cup {<<>>}, item : Nat,
               accepted : SUBSET Observation, pending : SUBSET Observation,
               rejected : SUBSET Rejection, loaded : [Node -> Health \cup {None}]]

BeatLocal == [at : {"idle", "checking", "committing", "answered", "failed"},
              heartbeat : Heartbeat \cup {None}, health : Health,
              version : Version \cup {None}]

TypeOK ==
    /\ observations \subseteq Observation
    /\ rejections \subseteq Rejection
    /\ heartbeats \subseteq Heartbeat
    /\ node \in [Node -> NodeRow]
    /\ batch \in [BatchRequest -> BatchLocal]
    /\ beat \in [HeartbeatRequest -> BeatLocal]

Init ==
    /\ observations = {}
    /\ rejections = {}
    /\ heartbeats = {}
    /\ node = [n \in Node |-> [health |-> "unknown", version |-> None, seen |-> None]]
    /\ batch = [r \in BatchRequest |->
                  [at |-> "idle", list |-> <<>>, item |-> 1, accepted |-> {}, pending |-> {},
                   rejected |-> {}, loaded |-> [n \in Node |-> None]]]
    /\ beat = [h \in HeartbeatRequest |->
                 [at |-> "idle", heartbeat |-> None, health |-> "unknown", version |-> None]]

-----------------------------------------------------------------------------
(* Sessions: what a flush writes, waits for and fails on *)

\* An attribute assigned the value it was loaded with is not part of the UPDATE.
Written(loaded, assigned, current) == IF assigned = loaded THEN current ELSE assigned

InFlight(local) == local.at \in {"next", "deciding", "checking", "committing"}

FlushedBy(r) == batch[r].accepted \ batch[r].pending

\* Rows a statement of r sees.
Visible(r) == observations \cup FlushedBy(r)

\* Mutated form: the session of a request that failed is not closed, and keeps its locks.
LocksNodeLeaked(r, n) ==
    (InFlight(batch[r]) \/ batch[r].at = "failed") /\ \E o \in FlushedBy(r) : o.node = n

LocksNode(r, n) == InFlight(batch[r]) /\ \E o \in FlushedBy(r) : o.node = n

LocksId(r, id) == InFlight(batch[r]) /\ \E o \in FlushedBy(r) : o.id = id

\* r has to wait for q to end before it can flush.
WaitsFor(r, q) ==
    /\ q # r
    /\ \E o \in batch[r].pending : LocksId(q, o.id) \/ LocksNode(q, o.node)

\* Mutated form: observation_id carries no unique constraint.
NeverConflicts(r) == FALSE /\ batch[r].pending # {}

\* Another request has committed an observation with the same id: the INSERT
\* violates the unique constraint and nothing catches it.
Conflicts(r) == \E o \in batch[r].pending, p \in observations : o.id = p.id

Flushable(r) == ~Conflicts(r) /\ \A q \in BatchRequest : ~WaitsFor(r, q)

-----------------------------------------------------------------------------
(* Observation batches *)

Begin(r, list) ==
    /\ batch[r].at = "idle"
    /\ batch' = [batch EXCEPT ![r].at = "next", ![r].list = list]
    /\ UNCHANGED <<tables, beat>>

Exhausted(r) == batch[r].item > Len(batch[r].list)

Item(r) == batch[r].list[batch[r].item]

\* The rejection rows of r once its item is turned down.
TurnedDown(r, reason) ==
    batch[r].rejected \cup {[observation |-> Item(r), reason |-> reason]}

\* Schema, times and target profile are checked without a statement.
RejectEnvelope(r) ==
    /\ batch[r].at = "next" /\ ~Exhausted(r)
    /\ Item(r).fault = "envelope"
    /\ batch' = [batch EXCEPT ![r].item = @ + 1, ![r].rejected = TurnedDown(r, "envelope")]
    /\ UNCHANGED <<tables, beat>>

\* The loop stands at a statement, which flushes the session before it reads.
LookingUp(r) ==
    /\ batch[r].at = "next" /\ ~Exhausted(r)
    /\ Item(r).fault # "envelope"

\* The observation id is among the committed ones or those of the batch itself.
Known(r) == \E p \in observations \cup batch[r].accepted : p.id = Item(r).id

\* Mutated form: a duplicate is counted but leaves no rejection row.
RejectDuplicateSilently(r) ==
    /\ LookingUp(r) /\ Flushable(r) /\ Known(r)
    /\ batch' = [batch EXCEPT ![r].pending = {}, ![r].item = @ + 1]
    /\ UNCHANGED <<tables, beat>>

RejectDuplicate(r) ==
    /\ LookingUp(r) /\ Flushable(r) /\ Known(r)
    /\ batch' = [batch EXCEPT ![r].pending = {}, ![r].item = @ + 1,
                              ![r].rejected = TurnedDown(r, "duplicate_observation")]
    /\ UNCHANGED <<tables, beat>>

\* The health_state a lookup of node n leaves in the session: a node it has
\* written to stays as it was loaded, one it has only looked at may have been
\* let go and is then loaded anew.
Loaded(r, n) ==
    IF \E o \in batch[r].accepted : o.node = n
    THEN {batch[r].loaded[n]}
    ELSE {node[n].health} \cup ({batch[r].loaded[n]} \ {None})

\* A new id: look up its key and node.
LookUp(r) ==
    /\ LookingUp(r) /\ Flushable(r) /\ ~Known(r)
    /\ \E health \in Loaded(r, Item(r).node) :
         batch' =
           IF Item(r).fault = "identity"
           THEN [batch EXCEPT ![r].pending = {}, ![r].item = @ + 1,
                              ![r].rejected = TurnedDown(r, "identity"),
                              ![r].loaded[Item(r).node] = health]
           ELSE [batch EXCEPT ![r].pending = {}, ![r].at = "deciding",
                              ![r].loaded[Item(r).node] = health]
    /\ UNCHANGED <<tables, beat>>

SameChain(o, rows) == {p \in rows : p.node = o.node /\ p.target = o.target}

\* Mutated form: the sort order is forgotten and the first row is taken.
First(o, rows) == {p \in SameChain(o, rows) :
                     \A q \in SameChain(o, rows) : p.sequence <= q.sequence}

\* The row with the highest sequence; any one of them when several share it.
Latest(o, rows) == {p \in SameChain(o, rows) :
                      \A q \in SameChain(o, rows) : q.sequence <= p.sequence}

StartsChain(o) == o.sequence = 1 /\ o.previous = "bootstrap"

\* The link has to match only when no sequence number is missing in between.
LinkFault(o, last) == o.sequence = last.sequence + 1 /\ o.previous # last.digest

\* Mutated form: the first observation of a chain is taken as it is.
VerdictUnrooted(o, rows) ==
    LET seal == IF o.fault = "seal" THEN "seal" ELSE "accepted"
    IN  IF SameChain(o, rows) = {}
        THEN {seal}
        ELSE {CASE o.sequence <= last.sequence -> "non_monotonic_sequence"
                [] LinkFault(o, last) -> "previous_hash_mismatch"
                [] OTHER -> seal : last \in Latest(o, rows)}

\* The verdicts the chain check and then the seal check can come to.
Verdict(o, rows) ==
    LET seal == IF o.fault = "seal" THEN "seal" ELSE "accepted"
    IN  IF SameChain(o, rows) = {}
        THEN {IF StartsChain(o) THEN seal ELSE "invalid_initial_chain"}
        ELSE {CASE o.sequence <= last.sequence -> "non_monotonic_sequence"
                [] LinkFault(o, last) -> "previous_hash_mismatch"
                [] OTHER -> seal : last \in Latest(o, rows)}

Decide(r) ==
    /\ batch[r].at = "deciding"
    /\ \E verdict \in Verdict(Item(r), Visible(r)) :
         batch' =
           IF verdict = "accepted"
           THEN [batch EXCEPT ![r].at = "next", ![r].item = @ + 1,
                              ![r].accepted = @ \cup {Item(r)}, ![r].pending = {Item(r)}]
           ELSE [batch EXCEPT ![r].at = "next", ![r].item = @ + 1,
                              ![r].rejected = TurnedDown(r, verdict)]
    /\ UNCHANGED <<tables, beat>>

\* Mutated form: the node is marked live before the observation is verified.
TouchedEarly(r) ==
    {o.node : o \in batch[r].accepted} \cup {j.observation.node : j \in batch[r].rejected}

\* The node rows the request writes.
Touched(r) == {o.node : o \in batch[r].accepted}

\* One commit for the whole batch, and only then the answer.
Finish(r) ==
    /\ batch[r].at = "next" /\ Exhausted(r)
    /\ Flushable(r)
    /\ observations' = observations \cup batch[r].accepted
    /\ rejections' = rejections \cup batch[r].rejected
    /\ node' = [n \in Node |->
                  IF n \in Touched(r)
                  THEN [node[n] EXCEPT !.health = Written(batch[r].loaded[n], "live", @),
                                       !.seen = r]
                  ELSE node[n]]
    /\ batch' = [batch EXCEPT ![r].at = "answered", ![r].pending = {}]
    /\ UNCHANGED <<heartbeats, beat>>

\* A flush that violates the unique constraint: 500, and all of it rolled back.
FlushFails(r) ==
    /\ LookingUp(r) \/ (batch[r].at = "next" /\ Exhausted(r))
    /\ Conflicts(r)
    /\ batch' = [batch EXCEPT ![r].at = "failed"]
    /\ UNCHANGED <<tables, beat>>

\* PostgreSQL ends a wait that can never end by failing one of its requests.
DeadlockVictim(r) ==
    /\ InFlight(batch[r])
    /\ \E S \in SUBSET BatchRequest : r \in S /\ \A q \in S : \E p \in S : WaitsFor(q, p)
    /\ batch' = [batch EXCEPT ![r].at = "failed"]
    /\ UNCHANGED <<tables, beat>>

BatchStep(r) ==
    \/ RejectEnvelope(r) \/ RejectDuplicate(r) \/ LookUp(r) \/ Decide(r)
    \/ Finish(r) \/ FlushFails(r) \/ DeadlockVictim(r)

-----------------------------------------------------------------------------
(* Heartbeats *)

\* Load the node.  A heartbeat whose time, key, site, digest or signature is
\* refused changes nothing and is not modelled.
LoadNode(h, heartbeat) ==
    /\ beat[h].at = "idle"
    /\ beat' = [beat EXCEPT ![h] =
                  [at |-> "checking", heartbeat |-> heartbeat,
                   health |-> node[heartbeat.node].health,
                   version |-> node[heartbeat.node].version]]
    /\ UNCHANGED <<tables, batch>>

\* Neither a duplicate nor behind the node's latest heartbeat.
Fresh(heartbeat) ==
    \A p \in heartbeats :
      p.id # heartbeat.id /\ (p.node = heartbeat.node => p.sequence < heartbeat.sequence)

Check(h) ==
    /\ beat[h].at = "checking"
    /\ beat' = [beat EXCEPT ![h].at = IF Fresh(beat[h].heartbeat) THEN "committing" ELSE "failed"]
    /\ UNCHANGED <<tables, batch>>

\* INSERT, UPDATE and commit follow each other; they wait for a batch that holds
\* the row of the node, and fail when the id has been taken meanwhile.
CommitBeat(h) ==
    LET b == beat[h].heartbeat
        n == b.node
    IN  /\ beat[h].at = "committing"
        /\ \A r \in BatchRequest : ~LocksNode(r, n)
        /\ IF \E p \in heartbeats : p.id = b.id
           THEN /\ beat' = [beat EXCEPT ![h].at = "failed"]
                /\ UNCHANGED <<heartbeats, node>>
           ELSE /\ heartbeats' = heartbeats \cup {b}
                /\ node' = [node EXCEPT
                              ![n].health = Written(beat[h].health, "standby", @),
                              ![n].version = Written(beat[h].version, b.version, @),
                              ![n].seen = b]
                /\ beat' = [beat EXCEPT ![h].at = "answered"]
        /\ UNCHANGED <<observations, rejections, batch>>

BeatStep(h) == Check(h) \/ CommitBeat(h)

-----------------------------------------------------------------------------

\* A request that dies at an await, for whatever reason, is rolled back.
Abandon ==
    \/ \E r \in BatchRequest :
         /\ InFlight(batch[r])
         /\ batch' = [batch EXCEPT ![r].at = "failed"]
         /\ UNCHANGED <<tables, beat>>
    \/ \E h \in HeartbeatRequest :
         /\ InFlight(beat[h])
         /\ beat' = [beat EXCEPT ![h].at = "failed"]
         /\ UNCHANGED <<tables, batch>>

Next ==
    \/ \E r \in BatchRequest : (\E list \in Batch : Begin(r, list)) \/ BatchStep(r)
    \/ \E h \in HeartbeatRequest :
         (\E heartbeat \in Heartbeat : LoadNode(h, heartbeat)) \/ BeatStep(h)
    \/ Abandon

Spec == Init /\ [][Next]_vars

\* The event loop resumes every request whose statement has been answered, and
\* PostgreSQL answers every statement that need not wait.
Fairness ==
    /\ \A r \in BatchRequest : WF_vars(BatchStep(r))
    /\ \A h \in HeartbeatRequest : WF_vars(BeatStep(h))

FairSpec == Spec /\ Fairness

-----------------------------------------------------------------------------
(* What ingestion guarantees, however the requests interleave *)

\* Whatever was accepted on a chain, its beginning is there: a first observation
\* that names no predecessor.  A second one links to such a first one.
ChainRooted ==
    \A o \in observations :
      /\ \E p \in SameChain(o, observations) : StartsChain(p)
      /\ o.sequence = 2 => \E p \in SameChain(o, observations) :
                             p.sequence = 1 /\ p.digest = o.previous

\* Of the answered requests that carry an observation id, at most one accepted
\* it, also when a node repeats a batch whose answer it did not get; and what an
\* answer calls accepted is in the database.
AcceptedOnce ==
    \A r \in BatchRequest : batch[r].at = "answered" =>
      /\ batch[r].accepted \subseteq observations
      /\ \A q \in BatchRequest \ {r} : batch[q].at = "answered" =>
           \A o \in batch[r].accepted, p \in batch[q].accepted : o.id # p.id

\* Nothing a node got an answer for is lost: each observation of an answered batch
\* is stored, or has a rejection on record.
NothingLost ==
    \A r \in BatchRequest : batch[r].at = "answered" =>
      \A i \in DOMAIN batch[r].list :
        \/ batch[r].list[i] \in observations
        \/ \E j \in rejections : j.observation = batch[r].list[i]

\* A node row says nothing the stored evidence does not carry: it is live on the
\* strength of an observation of that node, on standby on that of a heartbeat,
\* its version is a heartbeat's, and whatever was last seen of it is stored.
NodeRowHasEvidence ==
    \A n \in Node :
      LET row == node[n]
      IN  /\ row.health = "live" => \E o \in observations : o.node = n
          /\ row.health = "standby" => \E h \in heartbeats : h.node = n
          /\ row.version # None => \E h \in heartbeats : h.node = n /\ h.version = row.version
          /\ row.seen \in Heartbeat => row.seen \in heartbeats /\ row.seen.node = n
          /\ row.seen \in BatchRequest => \E o \in batch[row.seen].accepted :
                                            o.node = n /\ o \in observations

\* Every request comes to an end: requests waiting for each other's rows, in
\* whatever order their batches name nodes and ids, do not wait forever.
EveryRequestEnds ==
    /\ \A r \in BatchRequest : InFlight(batch[r]) ~> ~InFlight(batch[r])
    /\ \A h \in HeartbeatRequest : InFlight(beat[h]) ~> ~InFlight(beat[h])

-----------------------------------------------------------------------------
(* Requests that do not overlap: each ends before the next is accepted *)

OneInFlight ==
    LET batches == {r \in BatchRequest : InFlight(batch[r])}
        beats == {h \in HeartbeatRequest : InFlight(beat[h])}
    IN  \A r, q \in batches \cup beats : r = q

SerialNext == Next /\ OneInFlight'

SerialSpec == Init /\ [][SerialNext]_vars

\* Only they keep a chain a chain: no sequence number twice, and where none is missing
\* each observation carries the digest of the one before it.
ChainIntact ==
    \A o, p \in observations :
      o.node = p.node /\ o.target = p.target =>
        /\ o.sequence = p.sequence => o = p
        /\ o.sequence = p.sequence + 1 => o.previous = p.digest

=============================================================================
