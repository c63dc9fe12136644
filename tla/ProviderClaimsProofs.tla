------------------------ MODULE ProviderClaimsProofs ------------------------
(***************************************************************************)
(* Proofs about ProviderClaims for any number of claims, APIs, requests    *)
(* and attempts: the invariants, and that every step is a step of          *)
(* ClaimRegistry or invisible there.                                       *)
(***************************************************************************)
EXTENDS ProviderClaims, TLAPS

-----------------------------------------------------------------------------
(* The inductive invariant *)

\* A claim has its API from its first commit on, and its record from the second.
RowsWellFormed ==
    \A c \in Claim :
      /\ claims[c].status = "absent" <=> claims[c].api = None
      /\ claims[c].record = "final" => claims[c].status # "absent"
      /\ c \in published => claims[c].record = "final"
      /\ claims[c].status = "verified" => claims[c].verified_at
      /\ claims[c].verified_at => c \in published /\ claims[c].api \in Api

\* What a worker has behind it holds for good: the record it saw was published, the
\* API it found registered stays so.
WorkersWellFounded ==
    \A w \in Worker : LET t == task[w]
                      IN  /\ t.at # "off" => t.claim \in Claim /\ claims[t.claim].record = "final"
                          /\ t.at \in {"flushing", "claiming", "committing", "mailing"} =>
                               t.claim \in published
                          /\ t.at = "expiring" => t.claim \in expired
                          /\ t.at = "committing" /\ t.found # None =>
                               owner[claims[t.claim].api] # None
                          /\ t.at = "mailing" => claims[t.claim].verified_at

\* Whoever relies on a verification relies on one that was committed.
VerifiedRecorded ==
    /\ \A c \in Claim : claims[c].verified_at => owner[claims[c].api] # None
    /\ \A c \in mailed : claims[c].verified_at
    /\ \A s \in StatusRequest :
         report[s].at = "verified" => /\ report[s].claim \in Claim
                                      /\ claims[report[s].claim].verified_at

IndInv ==
    /\ TypeOK
    /\ RowsWellFormed
    /\ WorkersWellFounded
    /\ VerifiedRecorded
    /\ OwnerProved

LEMMA InitIndInv == Init => IndInv
BY AttemptsAssumption, NamesAssumption
DEF Init, IndInv, TypeOK, ClaimRow, WorkerLocal, Report, RowsWellFormed,
    WorkersWellFounded, VerifiedRecorded, OwnerProved, Worker

-----------------------------------------------------------------------------
(* Steps that leave the tables and the world alone *)

\* Moving a worker to a place that relies on nothing new keeps the invariant.
LEMMA MoveIndInv ==
    ASSUME IndInv, UNCHANGED <<tables, world, mailed, report>>,
           NEW w \in Worker, NEW place, Moved(w, place),
           place \in {"loading", "deciding", "expiring", "flushing", "claiming", "ended", "died"},
           place \in {"flushing", "claiming"} => task[w].claim \in published,
           place = "expiring" => task[w].claim \in expired,
           task[w].at # "off"
    PROVE  IndInv'
<1>1. TypeOK'
  BY DEF IndInv, TypeOK, tables, world, Moved, WorkerLocal
<1>2. RowsWellFormed'
  BY DEF IndInv, RowsWellFormed, tables, world
<1>3. WorkersWellFounded'
  BY DEF IndInv, TypeOK, WorkersWellFounded, tables, world, Moved
<1>4. VerifiedRecorded' /\ OwnerProved'
  BY DEF IndInv, VerifiedRecorded, OwnerProved, tables, world
<1> QED  BY <1>1, <1>2, <1>3, <1>4 DEF IndInv

LEMMA LoadIndInv ==
    ASSUME IndInv, NEW w \in Worker, Load(w) PROVE IndInv'
BY MoveIndInv DEF Load

LEMMA DecideIndInv ==
    ASSUME IndInv, NEW w \in Worker, NoticeExpiry(w) \/ Detect(w) PROVE IndInv'
BY MoveIndInv DEF NoticeExpiry, OutOfTime, Detect

LEMMA MissIndInv ==
    ASSUME IndInv, NEW w \in Worker, Miss(w) PROVE IndInv'
<1>1. TypeOK'
  BY AttemptsAssumption DEF IndInv, TypeOK, Miss, tables, world, WorkerLocal
<1>2. RowsWellFormed' /\ VerifiedRecorded' /\ OwnerProved'
  BY DEF IndInv, Miss, RowsWellFormed, VerifiedRecorded, OwnerProved, tables, world
<1>3. WorkersWellFounded'
  BY DEF IndInv, TypeOK, WorkersWellFounded, Miss, tables, world
<1> QED  BY <1>1, <1>2, <1>3 DEF IndInv

LEMMA FlushIndInv ==
    ASSUME IndInv, NEW w \in Worker, Flush(w) PROVE IndInv'
BY MoveIndInv DEF Flush, IndInv, WorkersWellFounded

LEMMA FindIndInv ==
    ASSUME IndInv, NEW w \in Worker, FindClaimedApi(w) PROVE IndInv'
<1>0. ApiOf(w) \in Api
  BY DEF IndInv, TypeOK, RowsWellFormed, WorkersWellFounded, FindClaimedApi, ApiOf, ClaimRow
<1>1. TypeOK'
  BY <1>0 DEF IndInv, TypeOK, FindClaimedApi, tables, world, WorkerLocal
<1>2. RowsWellFormed' /\ VerifiedRecorded' /\ OwnerProved'
  BY DEF IndInv, FindClaimedApi, RowsWellFormed, VerifiedRecorded, OwnerProved, tables, world
<1>3. WorkersWellFounded'
  BY DEF IndInv, TypeOK, WorkersWellFounded, FindClaimedApi, ApiOf, tables, world
<1> QED  BY <1>1, <1>2, <1>3 DEF IndInv

LEMMA EndIndInv ==
    ASSUME IndInv, NEW w \in Worker, CommitConflicts(w) \/ Die(w) PROVE IndInv'
BY MoveIndInv DEF CommitConflicts, Die, Running

LEMMA MailIndInv ==
    ASSUME IndInv, NEW w \in Worker, Mail(w) PROVE IndInv'
<1>1. TypeOK'
  BY DEF IndInv, TypeOK, WorkersWellFounded, Mail, tables, world, Moved, WorkerLocal
<1>2. RowsWellFormed' /\ OwnerProved'
  BY DEF IndInv, Mail, RowsWellFormed, OwnerProved, tables, world
<1>3. WorkersWellFounded'
  BY DEF IndInv, TypeOK, WorkersWellFounded, Mail, Moved, tables, world
<1>4. VerifiedRecorded'
  BY DEF IndInv, WorkersWellFounded, VerifiedRecorded, Mail, tables, world
<1> QED  BY <1>1, <1>2, <1>3, <1>4 DEF IndInv

-----------------------------------------------------------------------------
(* Steps that write the tables *)

LEMMA CreateIndInv ==
    ASSUME IndInv, NEW c \in Claim, NEW a \in Api, CreateClaim(c, a) PROVE IndInv'
<1>1. TypeOK'
  BY DEF IndInv, TypeOK, CreateClaim, world, ClaimRow
<1>2. RowsWellFormed'
  BY NamesAssumption DEF IndInv, TypeOK, RowsWellFormed, CreateClaim, world, ClaimRow
<1>3. WorkersWellFounded'
  BY DEF IndInv, TypeOK, RowsWellFormed, WorkersWellFounded, CreateClaim, world, ClaimRow
<1>4. VerifiedRecorded' /\ OwnerProved'
  BY NamesAssumption
  DEF IndInv, TypeOK, RowsWellFormed, VerifiedRecorded, OwnerProved, CreateClaim, world, ClaimRow
<1> QED  BY <1>1, <1>2, <1>3, <1>4 DEF IndInv

LEMMA NameIndInv ==
    ASSUME IndInv, NEW c \in Claim, NameRecord(c) PROVE IndInv'
<1>1. TypeOK'
  <2>1. claims' \in [Claim -> ClaimRow]
    BY DEF IndInv, TypeOK, NameRecord, ClaimRow
  <2>2. task' \in [Worker -> WorkerLocal]
    BY DEF IndInv, TypeOK, NameRecord, WorkerLocal, Worker
  <2> QED  BY <2>1, <2>2 DEF IndInv, TypeOK, NameRecord, world
<1>2. RowsWellFormed'
  BY DEF IndInv, TypeOK, RowsWellFormed, NameRecord, world, ClaimRow
<1>3. WorkersWellFounded'
  BY DEF IndInv, TypeOK, RowsWellFormed, WorkersWellFounded, NameRecord, world, ClaimRow, Worker
<1>4. VerifiedRecorded' /\ OwnerProved'
  BY DEF IndInv, TypeOK, RowsWellFormed, VerifiedRecorded, OwnerProved, NameRecord, world, ClaimRow
<1> QED  BY <1>1, <1>2, <1>3, <1>4 DEF IndInv

LEMMA FailedIndInv ==
    ASSUME IndInv, NEW w \in Worker, CommitFailed(w) PROVE IndInv'
<1>0. task[w].claim \in Claim /\ claims[task[w].claim].status # "absent"
  BY DEF IndInv, RowsWellFormed, WorkersWellFounded, CommitFailed
<1>1. TypeOK'
  BY <1>0 DEF IndInv, TypeOK, CommitFailed, Moved, world, ClaimRow, WorkerLocal
<1>2. RowsWellFormed'
  BY <1>0 DEF IndInv, TypeOK, RowsWellFormed, CommitFailed, world, ClaimRow
<1>3. WorkersWellFounded'
  BY <1>0 DEF IndInv, TypeOK, WorkersWellFounded, CommitFailed, Moved, world, ClaimRow
<1>4. VerifiedRecorded' /\ OwnerProved'
  BY <1>0 DEF IndInv, TypeOK, VerifiedRecorded, OwnerProved, CommitFailed, world, ClaimRow
<1> QED  BY <1>1, <1>2, <1>3, <1>4 DEF IndInv

LEMMA VerifiedIndInv ==
    ASSUME IndInv, NEW w \in Worker, CommitVerified(w) PROVE IndInv'
<1> DEFINE c == task[w].claim
<1>0. c \in Claim /\ c \in published /\ claims[c].status # "absent" /\ claims[c].api \in Api
  BY NamesAssumption
  DEF IndInv, TypeOK, RowsWellFormed, WorkersWellFounded, CommitVerified, ClaimRow
<1>1. TypeOK'
  BY <1>0 DEF IndInv, TypeOK, CommitVerified, Moved, ApiOf, world, ClaimRow, WorkerLocal
<1>2. RowsWellFormed'
  BY <1>0 DEF IndInv, TypeOK, RowsWellFormed, CommitVerified, world, ClaimRow
<1>3. \A a \in Api : owner[a] # None => owner'[a] = owner[a]
  BY <1>0 DEF IndInv, TypeOK, CommitVerified, ApiOf
<1>4. owner'[claims[c].api] # None
  BY <1>0, NamesAssumption
  DEF IndInv, TypeOK, WorkersWellFounded, CommitVerified, ApiOf
<1>5. \A d \in Claim : /\ claims'[d].api = claims[d].api
                       /\ claims'[d].record = claims[d].record
                       /\ claims[d].verified_at => claims'[d].verified_at
  BY <1>0 DEF IndInv, TypeOK, CommitVerified, ClaimRow
<1>6. claims'[c].verified_at /\ \A d \in Claim \ {c} : claims'[d] = claims[d]
  BY <1>0 DEF IndInv, TypeOK, CommitVerified, ClaimRow
<1>7. WorkersWellFounded'
  BY <1>0, <1>3, <1>5, <1>6
  DEF IndInv, TypeOK, RowsWellFormed, WorkersWellFounded, CommitVerified, Moved, world, ClaimRow
<1>8. VerifiedRecorded'
  <2>1. ASSUME NEW d \in Claim, claims'[d].verified_at
        PROVE  owner'[claims'[d].api] # None
    BY <1>3, <1>4, <1>5, <1>6, <2>1 DEF IndInv, RowsWellFormed, VerifiedRecorded
  <2> QED  BY <2>1, <1>5 DEF IndInv, TypeOK, VerifiedRecorded, CommitVerified
<1>9. published' = published
  BY DEF CommitVerified, world
<1>10. OwnerProved'
  <2> SUFFICES ASSUME NEW a \in Api, owner'[a] # None
               PROVE  /\ claims'[owner'[a]].api = a
                      /\ claims'[owner'[a]].verified_at
                      /\ owner'[a] \in published'
    BY DEF OwnerProved
  <2>1. CASE owner[a] # None
    BY <2>1, <1>3, <1>5 DEF IndInv, TypeOK, OwnerProved, CommitVerified, world
  <2>2. CASE owner[a] = None
    <3>1. owner'[a] = c /\ claims[c].api = a
      BY <2>2, <1>0 DEF IndInv, TypeOK, CommitVerified, ApiOf
    <3> QED  BY <3>1, <1>0, <1>5, <1>6, <1>9
  <2> QED  BY <2>1, <2>2
<1> QED  BY <1>1, <1>2, <1>7, <1>8, <1>10 DEF IndInv

-----------------------------------------------------------------------------
(* The world, requests and the theorems *)

LEMMA WorldIndInv ==
    ASSUME IndInv, NEW c \in Claim, Publish(c) \/ Expire(c) PROVE IndInv'
<1>1. TypeOK'
  BY DEF IndInv, TypeOK, Publish, Expire, tables
<1>2. RowsWellFormed' /\ VerifiedRecorded' /\ OwnerProved'
  BY DEF IndInv, RowsWellFormed, VerifiedRecorded, OwnerProved, Publish, Expire, tables
<1>3. WorkersWellFounded'
  BY DEF IndInv, WorkersWellFounded, Publish, Expire, tables
<1> QED  BY <1>1, <1>2, <1>3 DEF IndInv

LEMMA TriggerIndInv ==
    ASSUME IndInv, NEW v \in Verification, NEW c \in Claim, TriggerVerification(v, c)
    PROVE  IndInv'
<1>1. TypeOK'
  BY DEF IndInv, TypeOK, TriggerVerification, tables, world, WorkerLocal, Worker
<1>2. RowsWellFormed' /\ VerifiedRecorded' /\ OwnerProved'
  BY DEF IndInv, RowsWellFormed, VerifiedRecorded, OwnerProved, TriggerVerification, tables, world
<1>3. WorkersWellFounded'
  BY DEF IndInv, TypeOK, WorkersWellFounded, TriggerVerification, tables, world, Worker
<1> QED  BY <1>1, <1>2, <1>3 DEF IndInv

LEMMA StatusIndInv ==
    ASSUME IndInv, NEW s \in StatusRequest,
           (\E c \in Claim : ReadClaim(s, c)) \/ ReadOwner(s)
    PROVE  IndInv'
<1>1. TypeOK'
  <2>1. ASSUME NEW c \in Claim, ReadClaim(s, c) PROVE TypeOK'
    BY <2>1 DEF IndInv, TypeOK, ReadClaim, tables, world, Report
  <2>2. ASSUME ReadOwner(s) PROVE TypeOK'
    <3>1. claims[report[s].claim].api \in Api
      BY <2>2 DEF IndInv, VerifiedRecorded, RowsWellFormed, ReadOwner
    <3> QED  BY <2>2, <3>1 DEF IndInv, TypeOK, ReadOwner, tables, world, Report
  <2> QED  BY <2>1, <2>2
<1>2. UNCHANGED <<claims, owner, published, expired, mailed, task>>
  BY DEF ReadClaim, ReadOwner, tables, world
<1>3. RowsWellFormed' /\ WorkersWellFounded' /\ OwnerProved'
  BY <1>2 DEF IndInv, RowsWellFormed, WorkersWellFounded, OwnerProved
<1>4. ASSUME NEW t \in StatusRequest, report'[t].at = "verified"
      PROVE  report'[t].claim \in Claim /\ claims[report'[t].claim].verified_at
  <2>1. CASE t # s
    BY <1>4, <2>1 DEF IndInv, TypeOK, VerifiedRecorded, ReadClaim, ReadOwner
  <2>2. CASE t = s
    BY <1>4, <2>2 DEF IndInv, TypeOK, RowsWellFormed, ReadClaim, ReadOwner, Report
  <2> QED  BY <2>1, <2>2
<1>5. VerifiedRecorded'
  BY <1>2, <1>4 DEF IndInv, VerifiedRecorded
<1> QED  BY <1>1, <1>3, <1>5 DEF IndInv

LEMMA StutterIndInv == IndInv /\ UNCHANGED vars => IndInv'
BY DEF IndInv, TypeOK, RowsWellFormed, WorkersWellFounded, VerifiedRecorded, OwnerProved, vars

LEMMA NextIndInv == IndInv /\ [Next]_vars => IndInv'
<1> SUFFICES ASSUME IndInv, Next PROVE IndInv'
  BY StutterIndInv
<1>1. ASSUME NEW c \in Claim, (\E a \in Api : CreateClaim(c, a)) \/ NameRecord(c) PROVE IndInv'
  BY <1>1, CreateIndInv, NameIndInv
<1>2. ASSUME NEW w \in Worker, WorkerStep(w) \/ Die(w) PROVE IndInv'
  BY <1>2, LoadIndInv, DecideIndInv, MissIndInv, FailedIndInv, FlushIndInv, FindIndInv,
     VerifiedIndInv, EndIndInv, MailIndInv
  DEF WorkerStep
<1> QED  BY <1>1, <1>2, WorldIndInv, TriggerIndInv, StatusIndInv DEF Next

\* In every reachable state all parts of the invariant hold.
LEMMA SpecIndInv == Spec => []IndInv
BY InitIndInv, NextIndInv, PTL DEF Spec

\* Every variable keeps its type.
THEOREM TypeCorrect == Spec => []TypeOK
<1>1. IndInv => TypeOK
  BY DEF IndInv
<1> QED  BY <1>1, SpecIndInv, PTL

\* However many claims, checks and companies race: an API belongs to the company
\* that claimed it, published its record and was verified.
THEOREM OwnerIsProved == Spec => []OwnerProved
<1>1. IndInv => OwnerProved
  BY DEF IndInv
<1> QED  BY <1>1, SpecIndInv, PTL

\* However they race: what was verified, mailed or read as verified has its API
\* registered.
THEOREM VerifiedHasApi == Spec => []VerifiedApiRegistered
<1>1. IndInv => VerifiedApiRegistered
  BY DEF IndInv, VerifiedApiRegistered, VerifiedRecorded, RowsWellFormed
<1> QED  BY <1>1, SpecIndInv, PTL

\* However they race: while a claim is valid, what was verified stays verified.
THEOREM VerifiedIsKept == Spec => VerifiedUntilExpiry
<1> DEFINE Kept == \A c \in Claim : claims[c].status = "verified" /\ c \notin expired =>
                                    claims'[c].status = "verified"
<1>1. ASSUME IndInv, NEW c \in Claim, NEW a \in Api, CreateClaim(c, a) PROVE Kept
  BY <1>1 DEF IndInv, TypeOK, CreateClaim, ClaimRow
<1>2. ASSUME IndInv, NEW c \in Claim, NameRecord(c) PROVE Kept
  BY <1>2 DEF IndInv, TypeOK, NameRecord, ClaimRow
<1>3. ASSUME IndInv, NEW w \in Worker, CommitFailed(w) PROVE Kept
  BY <1>3 DEF IndInv, TypeOK, WorkersWellFounded, CommitFailed, ClaimRow
<1>4. ASSUME IndInv, NEW w \in Worker, CommitVerified(w) PROVE Kept
  BY <1>4 DEF IndInv, TypeOK, WorkersWellFounded, CommitVerified, ClaimRow
<1>5. ASSUME claims' = claims PROVE Kept
  BY <1>5
<1>6. IndInv /\ [Next]_vars => Kept
  BY <1>1, <1>2, <1>3, <1>4, <1>5
  DEF Next, WorkerStep, Load, NoticeExpiry, Detect, Miss, Flush, FindClaimedApi,
      CommitConflicts, Mail, Die, Publish, Expire, TriggerVerification, ReadClaim, ReadOwner,
      vars, tables, world
<1> QED  BY <1>6, SpecIndInv, PTL DEF Spec, VerifiedUntilExpiry

-----------------------------------------------------------------------------
(* Refinement: every step maps to a step of the registry or to none *)

LEMMA InitRefines == Init => Registry!Init
BY DEF Init, Registry!Init

\* Nothing the registry knows of changes.
LEMMA SameRegistry ==
    ASSUME claims' = claims, UNCHANGED <<owner, published>>
    PROVE  UNCHANGED Registry!vars
BY DEF Registry!vars

LEMMA CreateRefines ==
    ASSUME IndInv, NEW c \in Claim, NEW a \in Api, CreateClaim(c, a) PROVE Registry!Next
<1>1. \A d \in Claim : claims'[d].api = IF d = c THEN a ELSE claims[d].api
  BY DEF IndInv, TypeOK, CreateClaim, ClaimRow
<1>2. {d \in Claim : claims'[d].verified_at} = {d \in Claim : claims[d].verified_at}
  BY DEF IndInv, TypeOK, CreateClaim, ClaimRow
<1>3. claims[c].api = None
  BY DEF IndInv, RowsWellFormed, CreateClaim
<1>4. Registry!Ask(c, a)
  BY <1>1, <1>2, <1>3 DEF Registry!Ask, CreateClaim, world
<1> QED  BY <1>4 DEF Registry!Next

LEMMA NameRefines ==
    ASSUME IndInv, NEW c \in Claim, NameRecord(c) PROVE UNCHANGED Registry!vars
<1>1. \A d \in Claim : /\ claims'[d].api = claims[d].api
                       /\ claims'[d].verified_at = claims[d].verified_at
  BY DEF IndInv, TypeOK, NameRecord, ClaimRow
<1> QED  BY <1>1 DEF Registry!vars, NameRecord, world

LEMMA PublishRefines ==
    ASSUME IndInv, NEW c \in Claim, Publish(c) PROVE Registry!Next
<1>1. Registry!Publish(c)
  BY DEF Registry!Publish, IndInv, RowsWellFormed, Publish, tables
<1> QED  BY <1>1 DEF Registry!Next

LEMMA FailedRefines ==
    ASSUME IndInv, NEW w \in Worker, CommitFailed(w) PROVE UNCHANGED Registry!vars
<1>1. \A d \in Claim : /\ claims'[d].api = claims[d].api
                       /\ claims'[d].verified_at = claims[d].verified_at
  BY DEF IndInv, TypeOK, WorkersWellFounded, CommitFailed, ClaimRow
<1> QED  BY <1>1 DEF Registry!vars, CommitFailed, world

LEMMA VerifiedRefines ==
    ASSUME IndInv, NEW w \in Worker, CommitVerified(w) PROVE Registry!Next
<1>1. PICK k \in Claim : k = task[w].claim /\ k \in published /\ claims[k].api \in Api
  BY NamesAssumption
  DEF IndInv, TypeOK, RowsWellFormed, WorkersWellFounded, CommitVerified, ClaimRow
<1>2. \A d \in Claim : claims'[d].api = claims[d].api
  BY <1>1 DEF IndInv, TypeOK, CommitVerified, ClaimRow
<1>3. {d \in Claim : claims'[d].verified_at} = {d \in Claim : claims[d].verified_at} \cup {k}
  BY <1>1 DEF IndInv, TypeOK, CommitVerified, ClaimRow
<1>4. owner' = [owner EXCEPT ![claims[k].api] = IF @ = None THEN k ELSE @]
  BY <1>1, NamesAssumption
  DEF IndInv, TypeOK, WorkersWellFounded, CommitVerified, ApiOf
<1>5. Registry!Verify(k)
  <2>1. [c \in Claim |-> claims[c].api][k] = claims[k].api
    OBVIOUS
  <2>2. [c \in Claim |-> claims'[c].api] = [c \in Claim |-> claims[c].api]
    BY <1>2
  <2>3. published' = published
    BY DEF CommitVerified, world
  <2> QED  BY <1>1, <1>3, <1>4, <2>1, <2>2, <2>3 DEF Registry!Verify
<1> QED  BY <1>5 DEF Registry!Next

LEMMA StepRefines == IndInv /\ [Next]_vars => [Registry!Next]_(Registry!vars)
<1> SUFFICES ASSUME IndInv, [Next]_vars PROVE Registry!Next \/ UNCHANGED Registry!vars
  OBVIOUS
<1>1. ASSUME NEW c \in Claim, (\E a \in Api : CreateClaim(c, a)) \/ NameRecord(c)
      PROVE  Registry!Next \/ UNCHANGED Registry!vars
  BY <1>1, CreateRefines, NameRefines
<1>2. ASSUME NEW c \in Claim, Publish(c) \/ Expire(c)
      PROVE  Registry!Next \/ UNCHANGED Registry!vars
  BY <1>2, PublishRefines, SameRegistry DEF Expire, tables
<1>3. ASSUME NEW w \in Worker, WorkerStep(w) \/ Die(w)
      PROVE  Registry!Next \/ UNCHANGED Registry!vars
  <2>1. CASE Load(w) \/ NoticeExpiry(w) \/ Detect(w) \/ Miss(w) \/ Flush(w)
             \/ FindClaimedApi(w) \/ CommitConflicts(w) \/ Mail(w) \/ Die(w)
    BY <2>1, SameRegistry
    DEF Load, NoticeExpiry, Detect, Miss, Flush, FindClaimedApi, CommitConflicts, Mail, Die,
        tables, world
  <2> QED  BY <1>3, <2>1, FailedRefines, VerifiedRefines DEF WorkerStep
<1>4. ASSUME NEW v \in Verification, NEW c \in Claim, TriggerVerification(v, c)
      PROVE  UNCHANGED Registry!vars
  BY <1>4, SameRegistry DEF TriggerVerification, tables, world
<1>5. ASSUME NEW s \in StatusRequest, (\E c \in Claim : ReadClaim(s, c)) \/ ReadOwner(s)
      PROVE  UNCHANGED Registry!vars
  BY <1>5, SameRegistry DEF ReadClaim, ReadOwner, tables, world
<1>6. CASE UNCHANGED vars
  BY <1>6, SameRegistry DEF vars
<1> QED  BY <1>1, <1>2, <1>3, <1>4, <1>5, <1>6 DEF Next

\* Polling, manual checks, expiry and conflicts implement the indivisible
\* verifications of ClaimRegistry, whatever their number and order.
THEOREM Implements == Spec => ImplementsClaimRegistry
<1>1. IndInv /\ [Next]_vars => [Registry!Next]_(Registry!vars)
  BY StepRefines
<1> QED  BY <1>1, InitRefines, SpecIndInv, PTL DEF Spec, ImplementsClaimRegistry, Registry!Spec

=============================================================================
