----------------------------- MODULE BondLedger -----------------------------
(***************************************************************************)
(* Performance bonds: the staking router (app/api/routers/staking.py), the *)
(* slashing engine (app/services/slashing_engine.py) and the PGL client    *)
(* (app/pgl/client.py), over the tables of app/db/models.py:655-724.       *)
(*                                                                         *)
(* Every request owns a database session.  It reads rows in one statement, *)
(* awaits other work (statements, the PGL call, the CAPPO call) and writes *)
(* what it computed from the loaded objects in one commit.  PostgreSQL     *)
(* runs READ COMMITTED and no row carries a version, so what other         *)
(* requests commit in between is neither seen nor protected.  A request is *)
(* a process whose field "at" names the await it stands at; a request its  *)
(* own checks refuse (4xx) changes nothing and is not a step.              *)
(***************************************************************************)

CONSTANTS
    Bond,             \* bond identifiers
    Challenge,        \* challenge identifiers
    FundRequest,      \* POST /bonds/{id}/fund
    ChallengeRequest, \* POST /bonds/{id}/challenges
    ResolveRequest,   \* POST /bonds/{id}/resolutions
    Evaluation,       \* runs of SlashingEngine.evaluate_bond_for_slash
    None              \* a column or a local that holds no identifier

ASSUME NoneIsFresh == None \notin Bond \cup Challenge
ASSUME WritersDiffer == ResolveRequest \cap Evaluation = {}
ASSUME RequestsDiffer ==
    /\ FundRequest \cap ChallengeRequest = {}
    /\ (FundRequest \cup ChallengeRequest) \cap (ResolveRequest \cup Evaluation) = {}

VARIABLES
    \* the committed database
    bond,        \* ProviderBond.state, or "absent" before the row exists
    challenge,   \* BondChallenge rows
    resolutions, \* BondResolution rows
    \* what the two external services have recorded
    receipts,    \* events PGL accepted and minted a receipt for
    authorized,  \* challenges whose slash CAPPO authorized
    \* the requests in flight
    fund, contest, resolve, evaluation

database == <<bond, challenge, resolutions>>
services == <<receipts, authorized>>
requests == <<fund, contest, resolve, evaluation>>
vars == <<bond, challenge, resolutions, receipts, authorized,
          fund, contest, resolve, evaluation>>

-----------------------------------------------------------------------------
(* The tables *)

BondState == {"draft", "funded", "active", "breach_pending", "slashed", "released"}
ChallengeState == {"pending", "verifying", "upheld", "rejected"}

ChallengeRow == [bond : Bond \cup {None},
                 state : ChallengeState \cup {"absent"},
                 resolved_at : {"null", "set"}]

UserAction == {"release", "dismiss"}

\* pgl_receipt_id: issued by PGL, a local uuid when the reply carried none, or
\* the engine's "pending_pgl_..." when it could not reach PGL.
ReceiptId == {"pgl", "local_uuid", "pending_pgl"}

ResolutionRow == [by : ResolveRequest \cup Evaluation, challenge : Challenge,
                  action : UserAction \cup {"slash"}, receipt : ReceiptId]

(* The events sent to PGL *)

BondFunded(b) == [type |-> "bond_funded", bond |-> b]
ChallengeResolved(c, action) ==
    [type |-> "challenge_resolved", challenge |-> c, action |-> action]
SlashEvidence(c) == [type |-> "slash_attempt_evidence", challenge |-> c]

Event == [type : {"bond_funded"}, bond : Bond]
         \cup [type : {"challenge_resolved"}, challenge : Challenge, action : UserAction]
         \cup [type : {"slash_attempt_evidence"}, challenge : Challenge]

(* The requests: what each has loaded, and the await it stands at *)

FundLocal == [at : {"idle", "minting", "committing", "done"}, bond : Bond \cup {None}]

ContestLocal == [at : {"idle", "committing", "done"}, bond : Bond \cup {None},
                 sawBond : BondState \cup {"absent"}]

ResolveLocal == [at : {"idle", "reading", "minting", "committing", "done"},
                 challenge : Challenge \cup {None}, action : UserAction,
                 sawChallenge : ChallengeState \cup {"absent"},
                 sawBond : BondState \cup {"absent"}, receipt : ReceiptId]

EvaluationLocal == [at : {"idle", "opening", "minting", "authorizing", "committing", "done"},
                    bond : Bond \cup {None}, challenge : Challenge \cup {None},
                    receipt : ReceiptId]

TypeOK ==
    /\ bond \in [Bond -> BondState \cup {"absent"}]
    /\ challenge \in [Challenge -> ChallengeRow]
    /\ resolutions \subseteq ResolutionRow
    /\ receipts \subseteq Event
    /\ authorized \subseteq Challenge
    /\ fund \in [FundRequest -> FundLocal]
    /\ contest \in [ChallengeRequest -> ContestLocal]
    /\ resolve \in [ResolveRequest -> ResolveLocal]
    /\ evaluation \in [Evaluation -> EvaluationLocal]

Init ==
    /\ bond = [b \in Bond |-> "absent"]
    /\ challenge = [c \in Challenge |->
                      [bond |-> None, state |-> "absent", resolved_at |-> "null"]]
    /\ resolutions = {}
    /\ receipts = {}
    /\ authorized = {}
    /\ fund = [f \in FundRequest |-> [at |-> "idle", bond |-> None]]
    /\ contest = [q \in ChallengeRequest |->
                    [at |-> "idle", bond |-> None, sawBond |-> "absent"]]
    /\ resolve = [s \in ResolveRequest |->
                    [at |-> "idle", challenge |-> None, action |-> "dismiss",
                     sawChallenge |-> "absent", sawBond |-> "absent", receipt |-> "pgl"]]
    /\ evaluation = [e \in Evaluation |->
                       [at |-> "idle", bond |-> None, challenge |-> None, receipt |-> "pgl"]]

-----------------------------------------------------------------------------
(* The ORM and the external services *)

\* What a flush leaves in a column: SQLAlchemy emits no UPDATE for an attribute
\* assigned the value it was loaded with, so a concurrent change survives.
Flushed(loaded, assigned, current) == IF assigned = loaded THEN current ELSE assigned

\* PGLClient.mint_receipt.  "receipt": 2xx with an id; "no_id": 2xx without one,
\* replaced by a local uuid; "garbled": 2xx whose body is not JSON, an exception
\* no caller catches; "unreachable": PGLConnectionError, raised before PGL
\* recorded the event or after (a timeout, a lost answer).
MintReply == {"receipt", "no_id", "garbled", "unreachable"}

Minted(reply) == reply \in {"receipt", "no_id"}

ReceiptOf(reply) ==
    CASE reply = "receipt" -> "pgl"
      [] reply = "no_id" -> "local_uuid"
      [] OTHER -> "pending_pgl"

Mint(event, reply) ==
    /\ receipts' \in {receipts, receipts \cup {event}}
    /\ reply # "unreachable" => receipts' = receipts \cup {event}

-----------------------------------------------------------------------------
(* Creating and funding a bond *)

\* create_bond: the row and its conditions appear in one commit, in draft.
CreateBond(b) ==
    /\ bond[b] = "absent"
    /\ bond' = [bond EXCEPT ![b] = "draft"]
    /\ UNCHANGED <<challenge, resolutions, services, requests>>

\* Mutated form: the state test is dropped.
FundReadAny(f, b) ==
    /\ fund[f].at = "idle"
    /\ bond[b] # "absent"
    /\ fund' = [fund EXCEPT ![f] = [at |-> "minting", bond |-> b]]
    /\ UNCHANGED <<database, services, contest, resolve, evaluation>>

\* fund_bond: load the bond and require it to be a draft.
FundRead(f, b) ==
    /\ fund[f].at = "idle"
    /\ bond[b] = "draft"
    /\ fund' = [fund EXCEPT ![f] = [at |-> "minting", bond |-> b]]
    /\ UNCHANGED <<database, services, contest, resolve, evaluation>>

\* Mutated form: an unreachable PGL is logged and funding goes on, as the
\* slashing engine does.
FundMintLenient(f) ==
    /\ fund[f].at = "minting"
    /\ \E reply \in MintReply :
         /\ Mint(BondFunded(fund[f].bond), reply)
         /\ fund' = [fund EXCEPT ![f].at = "committing"]
    /\ UNCHANGED <<database, authorized, contest, resolve, evaluation>>

\* The receipt is minted before the commit; without one the request is a 503
\* and its session is rolled back.
FundMint(f) ==
    /\ fund[f].at = "minting"
    /\ \E reply \in MintReply :
         /\ Mint(BondFunded(fund[f].bond), reply)
         /\ fund' = [fund EXCEPT ![f].at = IF Minted(reply) THEN "committing" ELSE "done"]
    /\ UNCHANGED <<database, authorized, contest, resolve, evaluation>>

\* The loaded object was a draft, so the UPDATE to active is always emitted,
\* whatever the row holds by now.
FundCommit(f) ==
    /\ fund[f].at = "committing"
    /\ bond' = [bond EXCEPT ![fund[f].bond] = Flushed("draft", "active", @)]
    /\ fund' = [fund EXCEPT ![f].at = "done"]
    /\ UNCHANGED <<challenge, resolutions, services, contest, resolve, evaluation>>

-----------------------------------------------------------------------------
(* Challenging a bond *)

\* challenge_bond: load the bond; the evidence lookups follow.
ChallengeRead(q, b) ==
    /\ contest[q].at = "idle"
    /\ bond[b] \in {"active", "breach_pending"}
    /\ contest' = [contest EXCEPT ![q] =
                     [at |-> "committing", bond |-> b, sawBond |-> bond[b]]]
    /\ UNCHANGED <<database, services, fund, resolve, evaluation>>

\* The challenge, its evidence and the bond's new state commit together.
ChallengeCommit(q, c) ==
    /\ contest[q].at = "committing"
    /\ challenge[c].state = "absent"
    /\ challenge' = [challenge EXCEPT ![c] =
                       [bond |-> contest[q].bond, state |-> "verifying", resolved_at |-> "null"]]
    /\ bond' = [bond EXCEPT ![contest[q].bond] =
                  Flushed(contest[q].sawBond, "breach_pending", @)]
    /\ contest' = [contest EXCEPT ![q].at = "done"]
    /\ UNCHANGED <<resolutions, services, fund, resolve, evaluation>>

-----------------------------------------------------------------------------
(* Resolving a challenge *)

\* resolve_challenge loads the challenge first.  Neither its state nor the
\* bond's is tested.
ResolveReadChallenge(s, c, action) ==
    /\ resolve[s].at = "idle"
    /\ challenge[c].state # "absent"
    /\ resolve' = [resolve EXCEPT ![s] =
                     [at |-> "reading", challenge |-> c, action |-> action,
                      sawChallenge |-> challenge[c].state, sawBond |-> "absent",
                      receipt |-> "pgl"]]
    /\ UNCHANGED <<database, services, fund, contest, evaluation>>

\* Mutated form: the bond is loaded before the challenge, so that it may be seen
\* as it was before the challenge put it in breach.
ResolveReadBondFirst(s) ==
    /\ resolve[s].at = "reading"
    /\ \E seen \in {"active", bond[challenge[resolve[s].challenge].bond]} :
         resolve' = [resolve EXCEPT ![s].at = "minting", ![s].sawBond = seen]
    /\ UNCHANGED <<database, services, fund, contest, evaluation>>

\* ... and the bond in a second statement, which sees a later snapshot.
ResolveReadBond(s) ==
    /\ resolve[s].at = "reading"
    /\ resolve' = [resolve EXCEPT ![s].at = "minting",
                                  ![s].sawBond = bond[challenge[resolve[s].challenge].bond]]
    /\ UNCHANGED <<database, services, fund, contest, evaluation>>

\* Mutated form: the resolution is committed without waiting for its receipt.
ResolveMintLenient(s) ==
    /\ resolve[s].at = "minting"
    /\ \E reply \in MintReply :
         /\ Mint(ChallengeResolved(resolve[s].challenge, resolve[s].action), reply)
         /\ resolve' = [resolve EXCEPT ![s].at = "committing", ![s].receipt = ReceiptOf(reply)]
    /\ UNCHANGED <<database, authorized, fund, contest, evaluation>>

\* Mutated form: the bond's new state is committed before the receipt is asked
\* for, so that a failed mint leaves it behind.
ResolveMintAfterCommit(s) ==
    /\ resolve[s].at = "minting"
    /\ bond' = [bond EXCEPT ![challenge[resolve[s].challenge].bond] =
                  IF resolve[s].action = "release" THEN "released" ELSE "active"]
    /\ \E reply \in MintReply :
         /\ Mint(ChallengeResolved(resolve[s].challenge, resolve[s].action), reply)
         /\ resolve' = [resolve EXCEPT ![s].at = IF Minted(reply) THEN "committing" ELSE "done",
                                       ![s].receipt = ReceiptOf(reply)]
    /\ UNCHANGED <<challenge, resolutions, authorized, fund, contest, evaluation>>

ResolveMint(s) ==
    /\ resolve[s].at = "minting"
    /\ \E reply \in MintReply :
         /\ Mint(ChallengeResolved(resolve[s].challenge, resolve[s].action), reply)
         /\ resolve' = [resolve EXCEPT ![s].at = IF Minted(reply) THEN "committing" ELSE "done",
                                       ![s].receipt = ReceiptOf(reply)]
    /\ UNCHANGED <<database, authorized, fund, contest, evaluation>>

\* The state a user resolution assigns to the bond; the challenge is rejected
\* by either action.
Outcome(action) == IF action = "release" THEN "released" ELSE "active"

ResolveCommit(s) ==
    LET r == resolve[s]
        c == r.challenge
    IN  /\ r.at = "committing"
        /\ bond' = [bond EXCEPT ![challenge[c].bond] = Flushed(r.sawBond, Outcome(r.action), @)]
        /\ challenge' = [challenge EXCEPT ![c].state = Flushed(r.sawChallenge, "rejected", @),
                                          ![c].resolved_at = "set"]
        /\ resolutions' = resolutions \cup
             {[by |-> s, challenge |-> c, action |-> r.action, receipt |-> r.receipt]}
        /\ resolve' = [resolve EXCEPT ![s].at = "done"]
        /\ UNCHANGED <<services, fund, contest, evaluation>>

-----------------------------------------------------------------------------
(* The slashing engine *)

\* evaluate_bond_for_slash: load the bond.
EvaluateRead(e, b) ==
    /\ evaluation[e].at = "idle"
    /\ bond[b] \in {"active", "funded"}
    /\ evaluation' = [evaluation EXCEPT ![e].at = "opening", ![e].bond = b]
    /\ UNCHANGED <<database, services, fund, contest, resolve>>

\* Its own challenge is committed before anything else happens; the bond's
\* state is left alone.
EvaluateOpen(e, c) ==
    /\ evaluation[e].at = "opening"
    /\ challenge[c].state = "absent"
    /\ challenge' = [challenge EXCEPT ![c] =
                       [bond |-> evaluation[e].bond, state |-> "pending",
                        resolved_at |-> "null"]]
    /\ evaluation' = [evaluation EXCEPT ![e].at = "minting", ![e].challenge = c]
    /\ UNCHANGED <<bond, resolutions, services, fund, contest, resolve>>

\* execute_slash: an unreachable PGL does not stop the slash.
EvaluateMint(e) ==
    /\ evaluation[e].at = "minting"
    /\ \E reply \in MintReply :
         /\ Mint(SlashEvidence(evaluation[e].challenge), reply)
         /\ evaluation' = [evaluation EXCEPT
                             ![e].at = IF reply = "garbled" THEN "done" ELSE "authorizing",
                             ![e].receipt = ReceiptOf(reply)]
    /\ UNCHANGED <<database, authorized, fund, contest, resolve>>

\* Mutated form: any answer of CAPPO counts as an authorization.
EvaluateAuthorizeAny(e) ==
    LET c == evaluation[e].challenge
    IN  /\ evaluation[e].at = "authorizing"
        /\ authorized' \in {authorized, authorized \cup {c}}
        /\ evaluation' = [evaluation EXCEPT ![e].at = "committing"]
        /\ UNCHANGED <<database, receipts, fund, contest, resolve>>

\* CAPPO authorizes and the answer arrives; it authorizes and the answer is
\* lost; or it refuses, fails or is never reached.
EvaluateAuthorize(e) ==
    LET c == evaluation[e].challenge
    IN  /\ evaluation[e].at = "authorizing"
        /\ \E next \in {"committing", "done"} :
             /\ authorized' \in {authorized, authorized \cup {c}}
             /\ next = "committing" => authorized' = authorized \cup {c}
             /\ evaluation' = [evaluation EXCEPT ![e].at = next]
        /\ UNCHANGED <<database, receipts, fund, contest, resolve>>

\* Mutated form: resolved_at is not set.
SlashCommitUndated(e) ==
    LET v == evaluation[e]
        c == v.challenge
    IN  /\ v.at = "committing"
        /\ bond' = [bond EXCEPT ![v.bond] = "slashed"]
        /\ challenge' = [challenge EXCEPT ![c].state = "upheld"]
        /\ resolutions' = resolutions \cup
             {[by |-> e, challenge |-> c, action |-> "slash", receipt |-> v.receipt]}
        /\ evaluation' = [evaluation EXCEPT ![e].at = "done"]
        /\ UNCHANGED <<services, fund, contest, resolve>>

\* _commit_slash writes from the objects loaded before the two calls.
SlashCommit(e) ==
    LET v == evaluation[e]
        c == v.challenge
    IN  /\ v.at = "committing"
        /\ bond' = [bond EXCEPT ![v.bond] = "slashed"]
        /\ challenge' = [challenge EXCEPT ![c].state = "upheld", ![c].resolved_at = "set"]
        /\ resolutions' = resolutions \cup
             {[by |-> e, challenge |-> c, action |-> "slash", receipt |-> v.receipt]}
        /\ evaluation' = [evaluation EXCEPT ![e].at = "done"]
        /\ UNCHANGED <<services, fund, contest, resolve>>

-----------------------------------------------------------------------------
(* A request that dies at an await (an exception, a lost database            *)
(* connection, a stop of the process) keeps what it committed and nothing    *)
(* else.  A stop of the process is this step for every request in flight.    *)

InFlight(local) == local.at \notin {"idle", "done"}

Abandon ==
    \/ \E f \in FundRequest :
         /\ InFlight(fund[f])
         /\ fund' = [fund EXCEPT ![f].at = "done"]
         /\ UNCHANGED <<database, services, contest, resolve, evaluation>>
    \/ \E q \in ChallengeRequest :
         /\ InFlight(contest[q])
         /\ contest' = [contest EXCEPT ![q].at = "done"]
         /\ UNCHANGED <<database, services, fund, resolve, evaluation>>
    \/ \E s \in ResolveRequest :
         /\ InFlight(resolve[s])
         /\ resolve' = [resolve EXCEPT ![s].at = "done"]
         /\ UNCHANGED <<database, services, fund, contest, evaluation>>
    \/ \E e \in Evaluation :
         /\ InFlight(evaluation[e])
         /\ evaluation' = [evaluation EXCEPT ![e].at = "done"]
         /\ UNCHANGED <<database, services, fund, contest, resolve>>

Funding == \E f \in FundRequest :
    (\E b \in Bond : FundRead(f, b)) \/ FundMint(f) \/ FundCommit(f)

Contesting == \E q \in ChallengeRequest :
    (\E b \in Bond : ChallengeRead(q, b)) \/ (\E c \in Challenge : ChallengeCommit(q, c))

Resolving == \E s \in ResolveRequest :
    \/ \E c \in Challenge, action \in UserAction : ResolveReadChallenge(s, c, action)
    \/ ResolveReadBond(s)
    \/ ResolveMint(s)
    \/ ResolveCommit(s)

Slashing == \E e \in Evaluation :
    \/ \E b \in Bond : EvaluateRead(e, b)
    \/ \E c \in Challenge : EvaluateOpen(e, c)
    \/ EvaluateMint(e)
    \/ EvaluateAuthorize(e)
    \/ SlashCommit(e)

Next ==
    \/ \E b \in Bond : CreateBond(b)
    \/ Funding \/ Contesting \/ Resolving \/ Slashing
    \/ Abandon

Spec == Init /\ [][Next]_vars

-----------------------------------------------------------------------------
(* What the ledger guarantees *)

\* A bond that has left draft, and so can be challenged, slashed or released,
\* was reported to PGL and accepted there: the receipt is minted before the
\* commit and no failure in between can leave a funded bond unreceipted.
FundedBondHasReceipt ==
    \A b \in Bond : bond[b] \notin {"absent", "draft"} => BondFunded(b) \in receipts

\* Every release or dismissal on record was accepted by PGL with the same
\* challenge and the same action.
UserResolutionHasReceipt ==
    \A r \in resolutions :
      r.action \in UserAction => ChallengeResolved(r.challenge, r.action) \in receipts

\* No slash without the governed path: a bond is slashed, and a slash is on
\* record, only when CAPPO authorized it for that very challenge
\* (docs/adr/ADR-002-repository-authority-boundaries.md:33).
SlashOnlyThroughCappo ==
    /\ \A r \in resolutions : r.action = "slash" => r.challenge \in authorized
    /\ \A b \in Bond :
         bond[b] = "slashed" => \E c \in authorized : challenge[c].bond = b

\* A bond in a settled state has the resolution that settled it, on one of its
\* own challenges.
SettledBondHasResolution ==
    \A b \in Bond :
      /\ bond[b] = "slashed" =>
           \E r \in resolutions : r.action = "slash" /\ challenge[r.challenge].bond = b
      /\ bond[b] = "released" =>
           \E r \in resolutions : r.action = "release" /\ challenge[r.challenge].bond = b

\* A challenge is closed exactly when a resolution of it is on record, and
\* exactly then carries resolved_at, whichever of several racing resolvers and
\* evaluations wrote last.
ClosedIffResolved ==
    \A c \in Challenge :
      LET closed == challenge[c].state \in {"upheld", "rejected"}
      IN  /\ closed <=> \E r \in resolutions : r.challenge = c
          /\ closed <=> challenge[c].resolved_at = "set"

\* A bond is never stuck in breach: while it is breach_pending, a challenge of
\* its own is still under verification and can be resolved.  It rests on the
\* order of the two reads of resolve_challenge and on flushes that write only
\* changed columns.
BreachHasOpenChallenge ==
    \A b \in Bond : bond[b] = "breach_pending" =>
      \E c \in Challenge : challenge[c].bond = b /\ challenge[c].state = "verifying"

-----------------------------------------------------------------------------
(* The inductive invariant: what each request in flight may rely on, whatever  *)
(* commits while it waits.                                                     *)

Funded(b) == bond[b] \notin {"absent", "draft"}

Exists(c) == challenge[c].state # "absent"

Closed(c) == challenge[c].state \in {"upheld", "rejected"}

\* Only bonds that were funded have challenges, and no write takes a bond back.
ChallengesOnFundedBonds ==
    \A c \in Challenge :
      Exists(c) => challenge[c].bond \in Bond /\ Funded(challenge[c].bond)

FundsInv ==
    \A f \in FundRequest :
      /\ InFlight(fund[f]) => fund[f].bond \in Bond
      /\ fund[f].at = "committing" => BondFunded(fund[f].bond) \in receipts

ContestsInv ==
    \A q \in ChallengeRequest :
      InFlight(contest[q]) => contest[q].bond \in Bond /\ Funded(contest[q].bond)

\* A resolver that saw its challenge closed still finds it closed.
ResolvesInv ==
    \A s \in ResolveRequest :
      LET r == resolve[s]
      IN  /\ InFlight(r) => r.challenge \in Challenge /\ Exists(r.challenge)
          /\ InFlight(r) /\ r.sawChallenge = "rejected" => Closed(r.challenge)
          /\ r.at = "committing" => ChallengeResolved(r.challenge, r.action) \in receipts

EvaluationsInv ==
    \A e \in Evaluation :
      LET v == evaluation[e]
      IN  /\ InFlight(v) => v.bond \in Bond /\ Funded(v.bond)
          /\ v.at \in {"minting", "authorizing", "committing"} =>
               /\ v.challenge \in Challenge
               /\ Exists(v.challenge)
               /\ challenge[v.challenge].bond = v.bond
          /\ v.at = "committing" => v.challenge \in authorized

ResolutionsInv == \A r \in resolutions : Exists(r.challenge)

\* Of a bond in breach, the challenge that put it there last is open, and every
\* resolver of it that has loaded the bond saw the breach: it will write.
BreachWitness ==
    \A b \in Bond : bond[b] = "breach_pending" =>
      \E c \in Challenge :
        /\ challenge[c].bond = b
        /\ challenge[c].state = "verifying"
        /\ \A s \in ResolveRequest :
             resolve[s].challenge = c /\ resolve[s].at \in {"minting", "committing"} =>
               resolve[s].sawBond = "breach_pending"

IndInv ==
    /\ TypeOK
    /\ ChallengesOnFundedBonds
    /\ FundsInv /\ ContestsInv /\ ResolvesInv /\ EvaluationsInv /\ ResolutionsInv
    /\ FundedBondHasReceipt
    /\ UserResolutionHasReceipt
    /\ SlashOnlyThroughCappo
    /\ SettledBondHasResolution
    /\ ClosedIffResolved
    /\ BreachWitness

-----------------------------------------------------------------------------
(* What its docstring says, and racing requests break *)

\* "Transition a DRAFT bond to FUNDED and ACTIVE" (staking.py:86): the bond a
\* fund request commits is a draft at that moment.
FundsOnlyDraft ==
    [][\A f \in FundRequest : FundCommit(f) => bond[fund[f].bond] = "draft"]_vars

-----------------------------------------------------------------------------
(* Requests that do not overlap: each ends before the next is accepted *)

OneInFlight ==
    LET open == {f \in FundRequest : InFlight(fund[f])}
                \cup {q \in ChallengeRequest : InFlight(contest[q])}
                \cup {s \in ResolveRequest : InFlight(resolve[s])}
                \cup {e \in Evaluation : InFlight(evaluation[e])}
    IN  \A p, q \in open : p = q

SerialNext == Next /\ OneInFlight'

SerialSpec == Init /\ [][SerialNext]_vars

Atomic == INSTANCE AtomicBonds

\* Also when they fail or die half-way, they implement the atomic operations of
\* AtomicBonds: every check still holds when its request commits.
ImplementsAtomicBonds == Atomic!Spec

=============================================================================
