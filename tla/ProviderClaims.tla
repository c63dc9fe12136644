--------------------------- MODULE ProviderClaims ---------------------------
(***************************************************************************)
(* Claiming an API by a DNS TXT record (app/api/routers/claims.py over the *)
(* tables of app/db/models.py:429-455).                                    *)
(*                                                                         *)
(* Creating a claim starts a polling task, and its owner may press "Verify *)
(* now" at any time: both load the claim, look at the DNS and write the    *)
(* result from the copy they loaded.  The DNS lookup blocks the event      *)
(* loop, the statements around it do not.                                  *)
(***************************************************************************)
EXTENDS Naturals

CONSTANTS
    Claim, Api,
    Verification,  \* POST /claims/{claim_id}/verify
    StatusRequest, \* GET /claims/{claim_id}/status
    MaxAttempts,   \* max_attempts of the polling task
    None           \* no row, no claim

ASSUME AttemptsAssumption == MaxAttempts \in Nat \ {0}

ASSUME NamesAssumption ==
    None \notin Claim /\ None \notin Api /\ Claim \cap Verification = {}

VARIABLES
    \* the committed database
    claims,    \* ClaimRequest rows
    owner,     \* ClaimedAPI rows: the claim whose company each API is registered to
    \* the world around the service
    published, \* claims whose TXT record is in the DNS
    expired,   \* claims whose expires_at has passed
    mailed,    \* claims whose company was told that it is verified
    \* polling tasks and requests
    task, report

tables == <<claims, owner>>
world == <<published, expired>>
vars == <<claims, owner, published, expired, mailed, task, report>>

\* The polling task of a claim is named by the claim.
Worker == Claim \cup Verification

\* "provisional" is the record of the first commit of create_claim, which no
\* answer shows.  verified_at is kept as whether it is set.
ClaimRow == [status : {"absent", "pending", "verified", "failed"}, api : Api \cup {None},
             record : {"provisional", "final"}, verified_at : BOOLEAN]

WorkerLocal == [at : {"off", "loading", "deciding", "expiring", "flushing", "claiming",
                      "committing", "mailing", "ended", "died"},
                claim : Claim \cup {None}, attempt : 1 .. MaxAttempts, found : Claim \cup {None}]

Report == [at : {"off", "verified", "answered"}, claim : Claim \cup {None},
           owner : Claim \cup {None}]

TypeOK ==
    /\ claims \in [Claim -> ClaimRow]
    /\ owner \in [Api -> Claim \cup {None}]
    /\ published \subseteq Claim /\ expired \subseteq Claim /\ mailed \subseteq Claim
    /\ task \in [Worker -> WorkerLocal]
    /\ report \in [StatusRequest -> Report]

Init ==
    /\ claims = [c \in Claim |-> [status |-> "absent", api |-> None,
                                  record |-> "provisional", verified_at |-> FALSE]]
    /\ owner = [a \in Api |-> None]
    /\ published = {} /\ expired = {} /\ mailed = {}
    /\ task = [w \in Worker |-> [at |-> "off", claim |-> None, attempt |-> 1, found |-> None]]
    /\ report = [s \in StatusRequest |-> [at |-> "off", claim |-> None, owner |-> None]]

-----------------------------------------------------------------------------
(* The DNS and the clock *)

\* Only the answer of create_claim tells a provider what to publish.
Publish(c) ==
    /\ claims[c].record = "final"
    /\ c \notin published
    /\ published' = published \cup {c}
    /\ UNCHANGED <<tables, expired, mailed, task, report>>

Expire(c) ==
    /\ claims[c].status # "absent"
    /\ c \notin expired
    /\ expired' = expired \cup {c}
    /\ UNCHANGED <<tables, published, mailed, task, report>>

-----------------------------------------------------------------------------
(* Creating a claim: two commits, then the answer and the polling task *)

CreateClaim(c, a) ==
    /\ claims[c].status = "absent"
    /\ claims' = [claims EXCEPT ![c].status = "pending", ![c].api = a]
    /\ UNCHANGED <<owner, world, mailed, task, report>>

\* A service that stops before this step leaves a claim nobody knows of.
NameRecord(c) ==
    /\ claims[c].status # "absent" /\ claims[c].record = "provisional"
    /\ claims' = [claims EXCEPT ![c].record = "final"]
    /\ task' = [task EXCEPT ![c].at = "loading", ![c].claim = c]
    /\ UNCHANGED <<owner, world, mailed, report>>

TriggerVerification(v, c) ==
    /\ task[v].at = "off"
    /\ claims[c].record = "final"
    /\ task' = [task EXCEPT ![v].at = "loading", ![v].claim = c]
    /\ UNCHANGED <<tables, world, mailed, report>>

-----------------------------------------------------------------------------
(* The polling task and a manual verification *)

Polls(w) == w \in Claim

Moved(w, place) == task' = [task EXCEPT ![w].at = place]

\* What each of them takes as settled when it loads the claim.
Settled(w, status) ==
    IF Polls(w) THEN status # "pending" ELSE status = "verified"

Load(w) ==
    /\ task[w].at = "loading"
    /\ Moved(w, IF Settled(w, claims[task[w].claim].status) THEN "ended" ELSE "deciding")
    /\ UNCHANGED <<tables, world, mailed, report>>

\* Only the polling task looks at expires_at.
OutOfTime(w) == Polls(w) /\ task[w].claim \in expired

NoticeExpiry(w) ==
    /\ task[w].at = "deciding" /\ OutOfTime(w)
    /\ Moved(w, "expiring")
    /\ UNCHANGED <<tables, world, mailed, report>>

Detect(w) ==
    /\ task[w].at = "deciding" /\ ~OutOfTime(w)
    /\ task[w].claim \in published
    /\ Moved(w, "flushing")
    /\ UNCHANGED <<tables, world, mailed, report>>

\* Mutated form: the attempts are not counted.
MissUncounted(w) ==
    /\ task[w].at = "deciding" /\ ~OutOfTime(w)
    /\ Moved(w, IF Polls(w) THEN "loading" ELSE "ended")
    /\ UNCHANGED <<tables, world, mailed, report>>

\* Mutated form: the claim fails with its last attempt.
MissGivesUp(w) ==
    /\ task[w].at = "deciding" /\ ~OutOfTime(w)
    /\ task' = IF ~Polls(w) THEN [task EXCEPT ![w].at = "ended"]
               ELSE IF task[w].attempt < MaxAttempts
               THEN [task EXCEPT ![w].at = "loading", ![w].attempt = @ + 1]
               ELSE [task EXCEPT ![w].at = "expiring"]
    /\ UNCHANGED <<tables, world, mailed, report>>

\* No record yet, or no answer: the task sleeps and tries again until its attempts
\* are used up, the request reports "pending".
Miss(w) ==
    /\ task[w].at = "deciding" /\ ~OutOfTime(w)
    /\ task' = IF Polls(w) /\ task[w].attempt < MaxAttempts
               THEN [task EXCEPT ![w].at = "loading", ![w].attempt = @ + 1]
               ELSE [task EXCEPT ![w].at = "ended"]
    /\ UNCHANGED <<tables, world, mailed, report>>

\* An UPDATE of the claim locks its row until the commit.
LocksRow(w, c) == task[w].claim = c /\ task[w].at \in {"claiming", "committing"}

Unlocked(c) == \A w \in Worker : ~LocksRow(w, c)

\* UPDATE and commit follow each other.
CommitFailed(w) ==
    /\ task[w].at = "expiring" /\ Unlocked(task[w].claim)
    /\ claims' = [claims EXCEPT ![task[w].claim].status = "failed"]
    /\ Moved(w, "ended")
    /\ UNCHANGED <<owner, world, mailed, report>>

\* The query for the ClaimedAPI flushes the changed claim first.
Flush(w) ==
    /\ task[w].at = "flushing" /\ Unlocked(task[w].claim)
    /\ Moved(w, "claiming")
    /\ UNCHANGED <<tables, world, mailed, report>>

ApiOf(w) == claims[task[w].claim].api

FindClaimedApi(w) ==
    /\ task[w].at = "claiming"
    /\ task' = [task EXCEPT ![w].at = "committing", ![w].found = owner[ApiOf(w)]]
    /\ UNCHANGED <<tables, world, mailed, report>>

\* Mutated form: api_id carries no unique constraint, the last company wins.
CommitVerifiedAnyway(w) ==
    /\ task[w].at = "committing"
    /\ claims' = [claims EXCEPT ![task[w].claim].status = "verified",
                                ![task[w].claim].verified_at = TRUE]
    /\ owner' = IF task[w].found # None THEN owner
                ELSE [owner EXCEPT ![ApiOf(w)] = task[w].claim]
    /\ Moved(w, "mailing")
    /\ UNCHANGED <<world, mailed, report>>

\* Mutated form: the ClaimedAPI is left for later when there is one already.
CommitVerifiedLate(w) ==
    /\ task[w].at = "committing"
    /\ claims' = [claims EXCEPT ![task[w].claim].status = "verified",
                                ![task[w].claim].verified_at = TRUE]
    /\ Moved(w, "mailing")
    /\ UNCHANGED <<owner, world, mailed, report>>

\* INSERT of the ClaimedAPI unless one was found, and commit.
CommitVerified(w) ==
    /\ task[w].at = "committing"
    /\ task[w].found # None \/ owner[ApiOf(w)] = None
    /\ claims' = [claims EXCEPT ![task[w].claim].status = "verified",
                                ![task[w].claim].verified_at = TRUE]
    /\ owner' = IF task[w].found # None THEN owner
                ELSE [owner EXCEPT ![ApiOf(w)] = task[w].claim]
    /\ Moved(w, "mailing")
    /\ UNCHANGED <<world, mailed, report>>

\* The API was registered in between: its unique api_id fails the INSERT, nothing
\* catches the error, and the claim stays as it was.
CommitConflicts(w) ==
    /\ task[w].at = "committing"
    /\ task[w].found = None /\ owner[ApiOf(w)] # None
    /\ Moved(w, "died")
    /\ UNCHANGED <<tables, world, mailed, report>>

Mail(w) ==
    /\ task[w].at = "mailing"
    /\ mailed' = mailed \cup {task[w].claim}
    /\ Moved(w, "ended")
    /\ UNCHANGED <<tables, world, report>>

Running(w) == task[w].at \notin {"off", "ended", "died"}

WorkerStep(w) ==
    \/ Load(w) \/ NoticeExpiry(w) \/ Detect(w) \/ Miss(w) \/ CommitFailed(w)
    \/ Flush(w) \/ FindClaimedApi(w) \/ CommitVerified(w) \/ CommitConflicts(w) \/ Mail(w)

\* An error, a cancelled request or a restart of the service: nothing starts a
\* polling task again.
Die(w) ==
    /\ Running(w)
    /\ Moved(w, "died")
    /\ UNCHANGED <<tables, world, mailed, report>>

-----------------------------------------------------------------------------
(* The status of a claim: two statements, each with a snapshot of its own *)

\* Any status but "verified" is answered at once.
ReadClaim(s, c) ==
    /\ report[s].at = "off"
    /\ claims[c].record = "final"
    /\ report' = [report EXCEPT ![s].claim = c,
                    ![s].at = IF claims[c].status = "verified" THEN "verified" ELSE "answered"]
    /\ UNCHANGED <<tables, world, mailed, task>>

ReadOwner(s) ==
    /\ report[s].at = "verified"
    /\ report' = [report EXCEPT ![s].at = "answered",
                    ![s].owner = owner[claims[report[s].claim].api]]
    /\ UNCHANGED <<tables, world, mailed, task>>

-----------------------------------------------------------------------------

Next ==
    \/ \E c \in Claim : (\E a \in Api : CreateClaim(c, a)) \/ NameRecord(c)
    \/ \E c \in Claim : Publish(c) \/ Expire(c)
    \/ \E v \in Verification, c \in Claim : TriggerVerification(v, c)
    \/ \E w \in Worker : WorkerStep(w) \/ Die(w)
    \/ \E s \in StatusRequest : (\E c \in Claim : ReadClaim(s, c)) \/ ReadOwner(s)

Spec == Init /\ [][Next]_vars

\* The event loop resumes every task whose statement, lookup or sleep is over.
Fairness == \A w \in Worker : WF_vars(WorkerStep(w))

FairSpec == Spec /\ Fairness

-----------------------------------------------------------------------------
(* What claiming an API guarantees, whatever races *)

\* An API belongs to a company only if that company claimed this very API,
\* published the record of that claim and was verified: no other claim's record,
\* no failed or stale check ever hands an API out.
OwnerProved ==
    \A a \in Api : owner[a] # None =>
      /\ claims[owner[a]].api = a
      /\ claims[owner[a]].verified_at
      /\ owner[a] \in published

\* A claim that was ever verified, also one whose company was told so and one that
\* a status request has read as verified and which changed since, has its API
\* registered: no mail runs ahead of the commit, and the status endpoint need not
\* make an owner up (claims.py:171).
VerifiedApiRegistered ==
    /\ \A c \in Claim :
         claims[c].verified_at \/ claims[c].status = "verified" \/ c \in mailed =>
           claims[c].verified_at /\ owner[claims[c].api] # None
    /\ \A s \in StatusRequest :
         report[s].at = "verified" => owner[claims[report[s].claim].api] # None

\* A company that was told that it is verified stays so while its claim is valid:
\* of all that goes on beside it, from copies loaded before, only polling past
\* expires_at turns a verified claim back.
VerifiedUntilExpiry ==
    [][\A c \in Claim : claims[c].status = "verified" /\ c \notin expired =>
                         claims'[c].status = "verified"]_vars

\* Polling and every verification come to an end, whoever waits for whose row.
WorkersEnd == \A w \in Worker : Running(w) ~> ~Running(w)

-----------------------------------------------------------------------------
(* The promise in its own terms *)

Registry == INSTANCE ClaimRegistry WITH
              asked <- [c \in Claim |-> claims[c].api],
              published <- published,
              verified <- {c \in Claim : claims[c].verified_at},
              owner <- owner

\* Polling, manual checks, expiry, deaths and conflicts, in whatever order, are
\* the indivisible verifications of ClaimRegistry.
ImplementsClaimRegistry == Registry!Spec

-----------------------------------------------------------------------------
(* What the texts say of it *)

\* "Then we'll automatically verify." (claims.py:150): a record that is published while its
\* claim is valid, however long it takes to propagate, is noticed without anybody pressing
\* "Verify now" before the claim expires, unless an error or a restart ended the task.
PublishedIsVerified ==
    \A c \in Claim :
      c \in published /\ c \notin expired
        ~> claims[c].verified_at \/ c \in expired \/ task[c].at = "died"

=============================================================================
