-------------------------- MODULE BondLedgerProofs --------------------------
(***************************************************************************)
(* Theorems about BondLedger, for every set of bonds, challenges and       *)
(* requests.  IndInv is the inductive invariant: InitInv and NextInv, one  *)
(* lemma per conjunct, make it an invariant of Spec, and each property of  *)
(* the ledger is a conjunct of it or follows from one.                     *)
(***************************************************************************)
EXTENDS BondLedger, TLAPS

-----------------------------------------------------------------------------
(* Types *)

\* Every answer to a mint yields an identifier the resolution row can hold.
LEMMA ReceiptOfType == \A reply \in MintReply : ReceiptOf(reply) \in ReceiptId
BY DEF MintReply, ReceiptOf, ReceiptId

\* A mint adds at most its event to what PGL recorded.
LEMMA MintEffect ==
    ASSUME NEW event, NEW reply \in MintReply, Mint(event, reply)
    PROVE  /\ receipts \subseteq receipts'
           /\ receipts' \subseteq receipts \cup {event}
           /\ Minted(reply) => event \in receipts'
BY DEF Mint, Minted, MintReply

LEMMA InitType == Init => TypeOK
BY DEF Init, TypeOK, BondState, ChallengeRow, ChallengeState, FundLocal, ContestLocal,
       ResolveLocal, EvaluationLocal, UserAction, ReceiptId

LEMMA FundingType == TypeOK /\ FundsInv /\ Funding => TypeOK'
<1> SUFFICES ASSUME TypeOK, FundsInv, NEW f \in FundRequest,
                    (\E b \in Bond : FundRead(f, b)) \/ FundMint(f) \/ FundCommit(f)
             PROVE  TypeOK'
  BY DEF Funding
<1>1. ASSUME NEW b \in Bond, FundRead(f, b) PROVE TypeOK'
  BY <1>1 DEF FundRead, TypeOK, FundLocal, database, services
<1>2. CASE FundMint(f)
  <2> USE <1>2
  <2>1. PICK reply \in MintReply :
          /\ Mint(BondFunded(fund[f].bond), reply)
          /\ fund' = [fund EXCEPT ![f].at = IF Minted(reply) THEN "committing" ELSE "done"]
    BY DEF FundMint
  <2>2. BondFunded(fund[f].bond) \in Event
    BY DEF FundMint, FundsInv, InFlight, BondFunded, Event
  <2>3. receipts' \subseteq Event
    BY <2>1, <2>2, MintEffect DEF TypeOK
  <2>4. fund' \in [FundRequest -> FundLocal]
    BY <2>1 DEF TypeOK, FundLocal
  <2> QED BY <2>3, <2>4 DEF FundMint, TypeOK, database
<1>3. CASE FundCommit(f)
  BY <1>3 DEF FundCommit, Flushed, TypeOK, FundLocal, BondState, services
<1> QED BY <1>1, <1>2, <1>3

LEMMA ContestingType == TypeOK /\ ContestsInv /\ Contesting => TypeOK'
<1> SUFFICES ASSUME TypeOK, ContestsInv, NEW q \in ChallengeRequest,
                    \/ \E b \in Bond : ChallengeRead(q, b)
                    \/ \E c \in Challenge : ChallengeCommit(q, c)
             PROVE  TypeOK'
  BY DEF Contesting
<1>1. ASSUME NEW b \in Bond, ChallengeRead(q, b) PROVE TypeOK'
  BY <1>1 DEF ChallengeRead, TypeOK, ContestLocal, BondState, database, services
<1>2. ASSUME NEW c \in Challenge, ChallengeCommit(q, c) PROVE TypeOK'
  <2> USE <1>2
  <2>1. bond' \in [Bond -> BondState \cup {"absent"}]
    BY DEF ChallengeCommit, TypeOK, Flushed, BondState
  <2>2. challenge' \in [Challenge -> ChallengeRow]
    BY DEF ChallengeCommit, TypeOK, ContestsInv, InFlight, ChallengeRow, ChallengeState
  <2>3. contest' \in [ChallengeRequest -> ContestLocal]
    BY DEF ChallengeCommit, TypeOK, ContestLocal
  <2> QED BY <2>1, <2>2, <2>3 DEF ChallengeCommit, TypeOK, services
<1> QED BY <1>1, <1>2

LEMMA ResolvingType == TypeOK /\ ChallengesOnFundedBonds /\ ResolvesInv /\ Resolving => TypeOK'
<1> SUFFICES ASSUME TypeOK, ChallengesOnFundedBonds, ResolvesInv, NEW s \in ResolveRequest,
                    \/ \E c \in Challenge, action \in UserAction :
                         ResolveReadChallenge(s, c, action)
                    \/ ResolveReadBond(s)
                    \/ ResolveMint(s)
                    \/ ResolveCommit(s)
             PROVE  TypeOK'
  BY DEF Resolving
<1>1. ASSUME NEW c \in Challenge, NEW action \in UserAction, ResolveReadChallenge(s, c, action)
      PROVE  TypeOK'
  BY <1>1 DEF ResolveReadChallenge, TypeOK, ResolveLocal, ReceiptId, ChallengeRow,
              database, services
<1>2. CASE ResolveReadBond(s)
  <2> USE <1>2
  <2>1. bond[challenge[resolve[s].challenge].bond] \in BondState \cup {"absent"}
    BY DEF ResolveReadBond, TypeOK, ResolvesInv, InFlight, Exists, ChallengesOnFundedBonds
  <2>2. resolve' \in [ResolveRequest -> ResolveLocal]
    <3> DEFINE r == [resolve[s] EXCEPT !.at = "minting",
                                       !.sawBond = bond[challenge[resolve[s].challenge].bond]]
    <3>1. resolve' = [resolve EXCEPT ![s] = r]
      BY DEF ResolveReadBond
    <3>2. resolve[s] \in ResolveLocal /\ resolve \in [ResolveRequest -> ResolveLocal]
      BY DEF TypeOK
    <3>3. r \in ResolveLocal
      BY <2>1, <3>2 DEF ResolveLocal
    <3> HIDE DEF r
    <3> QED BY <3>1, <3>2, <3>3
  <2>3. UNCHANGED <<bond, challenge, resolutions, receipts, authorized, fund, contest, evaluation>>
    BY DEF ResolveReadBond, database, services
  <2> QED BY <2>2, <2>3 DEF TypeOK
<1>3. CASE ResolveMint(s)
  <2> USE <1>3
  <2>1. PICK reply \in MintReply :
          /\ Mint(ChallengeResolved(resolve[s].challenge, resolve[s].action), reply)
          /\ resolve' = [resolve EXCEPT
                           ![s].at = IF Minted(reply) THEN "committing" ELSE "done",
                           ![s].receipt = ReceiptOf(reply)]
    BY DEF ResolveMint
  <2>2. ChallengeResolved(resolve[s].challenge, resolve[s].action) \in Event
    BY DEF ResolveMint, TypeOK, ResolveLocal, ResolvesInv, InFlight, ChallengeResolved, Event
  <2>3. receipts' \subseteq Event
    BY <2>1, <2>2, MintEffect DEF TypeOK
  <2>4. PICK next \in {"committing", "done"}, id \in ReceiptId :
          resolve' = [resolve EXCEPT ![s].at = next, ![s].receipt = id]
    BY <2>1, ReceiptOfType
  <2>5. [resolve[s] EXCEPT !.at = next, !.receipt = id] \in ResolveLocal
    BY DEF TypeOK, ResolveLocal
  <2>6. resolve' \in [ResolveRequest -> ResolveLocal]
    BY <2>4, <2>5 DEF TypeOK
  <2> QED BY <2>3, <2>6 DEF ResolveMint, TypeOK, database
<1>4. CASE ResolveCommit(s)
  <2> USE <1>4
  <2>1. resolve[s] \in ResolveLocal /\ resolve[s].challenge \in Challenge
    BY DEF ResolveCommit, TypeOK, ResolvesInv, InFlight
  <2>2. bond' \in [Bond -> BondState \cup {"absent"}]
    BY DEF ResolveCommit, TypeOK, Flushed, Outcome, BondState
  <2>3. challenge' \in [Challenge -> ChallengeRow]
    BY <2>1 DEF ResolveCommit, TypeOK, Flushed, ChallengeRow, ChallengeState
  <2>4. resolutions' \subseteq ResolutionRow
    BY <2>1 DEF ResolveCommit, TypeOK, ResolveLocal, ResolutionRow
  <2>5. resolve' \in [ResolveRequest -> ResolveLocal]
    BY DEF ResolveCommit, TypeOK, ResolveLocal
  <2> QED BY <2>2, <2>3, <2>4, <2>5 DEF ResolveCommit, TypeOK, services
<1> QED BY <1>1, <1>2, <1>3, <1>4

LEMMA SlashingType == TypeOK /\ EvaluationsInv /\ Slashing => TypeOK'
<1> SUFFICES ASSUME TypeOK, EvaluationsInv, NEW e \in Evaluation,
                    \/ \E b \in Bond : EvaluateRead(e, b)
                    \/ \E c \in Challenge : EvaluateOpen(e, c)
                    \/ EvaluateMint(e)
                    \/ EvaluateAuthorize(e)
                    \/ SlashCommit(e)
             PROVE  TypeOK'
  BY DEF Slashing
<1>1. ASSUME NEW b \in Bond, EvaluateRead(e, b) PROVE TypeOK'
  BY <1>1 DEF EvaluateRead, TypeOK, EvaluationLocal, database, services
<1>2. ASSUME NEW c \in Challenge, EvaluateOpen(e, c) PROVE TypeOK'
  <2> USE <1>2
  <2>1. challenge' \in [Challenge -> ChallengeRow]
    BY DEF EvaluateOpen, TypeOK, EvaluationsInv, InFlight, ChallengeRow, ChallengeState
  <2>2. evaluation' \in [Evaluation -> EvaluationLocal]
    BY DEF EvaluateOpen, TypeOK, EvaluationLocal
  <2> QED BY <2>1, <2>2 DEF EvaluateOpen, TypeOK, services
<1>3. CASE EvaluateMint(e)
  <2> USE <1>3
  <2>1. PICK reply \in MintReply :
          /\ Mint(SlashEvidence(evaluation[e].challenge), reply)
          /\ evaluation' = [evaluation EXCEPT
                              ![e].at = IF reply = "garbled" THEN "done" ELSE "authorizing",
                              ![e].receipt = ReceiptOf(reply)]
    BY DEF EvaluateMint
  <2>2. SlashEvidence(evaluation[e].challenge) \in Event
    BY DEF EvaluateMint, EvaluationsInv, SlashEvidence, Event
  <2>3. receipts' \subseteq Event
    BY <2>1, <2>2, MintEffect DEF TypeOK
  <2>4. evaluation' \in [Evaluation -> EvaluationLocal]
    BY <2>1, ReceiptOfType DEF TypeOK, EvaluationLocal
  <2> QED BY <2>3, <2>4 DEF EvaluateMint, TypeOK, database
<1>4. CASE EvaluateAuthorize(e)
  <2> USE <1>4
  <2>1. authorized' \subseteq Challenge
    BY DEF EvaluateAuthorize, TypeOK, EvaluationsInv
  <2>2. evaluation' \in [Evaluation -> EvaluationLocal]
    BY DEF EvaluateAuthorize, TypeOK, EvaluationLocal
  <2> QED BY <2>1, <2>2 DEF EvaluateAuthorize, TypeOK, database
<1>5. CASE SlashCommit(e)
  <2> USE <1>5
  <2>1. evaluation[e] \in EvaluationLocal /\ evaluation[e].challenge \in Challenge
    BY DEF SlashCommit, TypeOK, EvaluationsInv
  <2>2. bond' \in [Bond -> BondState \cup {"absent"}]
    BY DEF SlashCommit, TypeOK, BondState
  <2>3. challenge' \in [Challenge -> ChallengeRow]
    <3>1. /\ challenge \in [Challenge -> ChallengeRow]
          /\ challenge' = [challenge EXCEPT ![evaluation[e].challenge].state = "upheld",
                                            ![evaluation[e].challenge].resolved_at = "set"]
      BY DEF SlashCommit, TypeOK
    <3> QED  BY <2>1, <3>1 DEF ChallengeRow, ChallengeState
  <2>4. resolutions' \subseteq ResolutionRow
    BY <2>1 DEF SlashCommit, TypeOK, EvaluationLocal, ResolutionRow
  <2>5. evaluation' \in [Evaluation -> EvaluationLocal]
    BY DEF SlashCommit, TypeOK, EvaluationLocal
  <2> QED BY <2>2, <2>3, <2>4, <2>5 DEF SlashCommit, TypeOK, services
<1> QED BY <1>1, <1>2, <1>3, <1>4, <1>5

LEMMA AbandonType == TypeOK /\ Abandon => TypeOK'
<1> SUFFICES ASSUME TypeOK, Abandon PROVE TypeOK'
  OBVIOUS
<1>1. fund' \in [FundRequest -> FundLocal]
  BY DEF Abandon, TypeOK, FundLocal
<1>2. contest' \in [ChallengeRequest -> ContestLocal]
  BY DEF Abandon, TypeOK, ContestLocal
<1>3. resolve' \in [ResolveRequest -> ResolveLocal]
  BY DEF Abandon, TypeOK, ResolveLocal
<1>4. evaluation' \in [Evaluation -> EvaluationLocal]
  BY DEF Abandon, TypeOK, EvaluationLocal
<1> QED BY <1>1, <1>2, <1>3, <1>4 DEF Abandon, TypeOK, database, services

LEMMA NextType == IndInv /\ [Next]_vars => TypeOK'
<1> SUFFICES ASSUME IndInv, [Next]_vars PROVE TypeOK'
  OBVIOUS
<1> USE DEF IndInv
<1>1. ASSUME NEW b \in Bond, CreateBond(b) PROVE TypeOK'
  BY <1>1 DEF CreateBond, TypeOK, BondState, services, requests
<1>2. CASE UNCHANGED vars
  BY <1>2 DEF vars, TypeOK
<1> QED
  BY <1>1, <1>2, FundingType, ContestingType, ResolvingType, SlashingType, AbandonType DEF Next

-----------------------------------------------------------------------------
(* What no step takes back *)

\* Each kind of request is moved by its own actions and by Abandon alone.
LEMMA OwnSteps ==
    ASSUME [Next]_vars
    PROVE  /\ Funding \/ Abandon \/ fund' = fund
           /\ Contesting \/ Abandon \/ contest' = contest
           /\ Resolving \/ Abandon \/ resolve' = resolve
           /\ Slashing \/ Abandon \/ evaluation' = evaluation
<1>1. ASSUME NEW b \in Bond, CreateBond(b)
      PROVE  UNCHANGED <<fund, contest, resolve, evaluation>>
  BY <1>1 DEF CreateBond, requests
<1>2. Funding => UNCHANGED <<contest, resolve, evaluation>>
  BY DEF Funding, FundRead, FundMint, FundCommit
<1>3. Contesting => UNCHANGED <<fund, resolve, evaluation>>
  BY DEF Contesting, ChallengeRead, ChallengeCommit
<1>4. Resolving => UNCHANGED <<fund, contest, evaluation>>
  BY DEF Resolving, ResolveReadChallenge, ResolveReadBond, ResolveMint, ResolveCommit
<1>5. Slashing => UNCHANGED <<fund, contest, resolve>>
  BY DEF Slashing, EvaluateRead, EvaluateOpen, EvaluateMint, EvaluateAuthorize, SlashCommit
<1> QED BY <1>1, <1>2, <1>3, <1>4, <1>5 DEF Next, vars

\* An abandoned request changes no table and no service.
LEMMA AbandonEffect ==
    ASSUME Abandon
    PROVE  UNCHANGED <<bond, challenge, resolutions, receipts, authorized>>
BY DEF Abandon, database, services

LEMMA MintGrows ==
    ASSUME NEW event, NEW reply, Mint(event, reply)
    PROVE  receipts \subseteq receipts'
BY DEF Mint

\* PGL's receipts, CAPPO's authorizations and the resolutions are never removed.
LEMMA Growth ==
    ASSUME [Next]_vars
    PROVE  /\ receipts \subseteq receipts'
           /\ authorized \subseteq authorized'
           /\ resolutions \subseteq resolutions'
<1>1. ASSUME NEW b \in Bond, CreateBond(b)
      PROVE  UNCHANGED <<receipts, authorized, resolutions>>
  BY <1>1 DEF CreateBond, services
<1>2. Funding => receipts \subseteq receipts' /\ UNCHANGED <<authorized, resolutions>>
  BY MintGrows DEF Funding, FundRead, FundMint, FundCommit, database, services
<1>3. Contesting => UNCHANGED <<receipts, authorized, resolutions>>
  BY DEF Contesting, ChallengeRead, ChallengeCommit, database, services
<1>4. Resolving => /\ receipts \subseteq receipts'
                   /\ resolutions \subseteq resolutions'
                   /\ UNCHANGED authorized
  BY MintGrows DEF Resolving, ResolveReadChallenge, ResolveReadBond, ResolveMint,
                   ResolveCommit, database, services
<1>5. Slashing => /\ receipts \subseteq receipts'
                  /\ authorized \subseteq authorized'
                  /\ resolutions \subseteq resolutions'
  BY MintGrows DEF Slashing, EvaluateRead, EvaluateOpen, EvaluateMint, EvaluateAuthorize,
                   SlashCommit, database, services
<1> QED BY <1>1, <1>2, <1>3, <1>4, <1>5, AbandonEffect DEF Next, vars

\* A challenge keeps its row and its bond, and once closed it stays closed.
LEMMA RowsStay ==
    ASSUME IndInv, [Next]_vars, NEW c \in Challenge, Exists(c)
    PROVE  /\ challenge'[c].state # "absent"
           /\ challenge'[c].bond = challenge[c].bond
           /\ Closed(c) => challenge'[c].state \in {"upheld", "rejected"}
<1> USE DEF IndInv
<1>1. ASSUME NEW b \in Bond, CreateBond(b) PROVE UNCHANGED challenge
  BY <1>1 DEF CreateBond
<1>2. Funding => UNCHANGED challenge
  BY DEF Funding, FundRead, FundMint, FundCommit, database
<1>3. Contesting => challenge'[c] = challenge[c]
  BY DEF Contesting, ChallengeRead, ChallengeCommit, database, Exists, TypeOK
<1>4. ASSUME NEW s \in ResolveRequest, ResolveCommit(s)
      PROVE  /\ challenge'[c].bond = challenge[c].bond
             /\ challenge'[c].state \in {challenge[c].state, "rejected"}
  BY <1>4 DEF ResolveCommit, Flushed, TypeOK, ChallengeRow
<1>5. Resolving => \/ UNCHANGED challenge
                   \/ \E s \in ResolveRequest : ResolveCommit(s)
  BY DEF Resolving, ResolveReadChallenge, ResolveReadBond, ResolveMint, database
<1>6. ASSUME NEW e \in Evaluation, NEW d \in Challenge, EvaluateOpen(e, d)
      PROVE  challenge'[c] = challenge[c]
  BY <1>6 DEF EvaluateOpen, Exists, TypeOK
<1>7. ASSUME NEW e \in Evaluation, SlashCommit(e)
      PROVE  /\ challenge'[c].bond = challenge[c].bond
             /\ challenge'[c].state \in {challenge[c].state, "upheld"}
  BY <1>7 DEF SlashCommit, TypeOK, ChallengeRow
<1>8. Slashing => \/ UNCHANGED challenge
                  \/ \E e \in Evaluation, d \in Challenge : EvaluateOpen(e, d)
                  \/ \E e \in Evaluation : SlashCommit(e)
  BY DEF Slashing, EvaluateRead, EvaluateMint, EvaluateAuthorize, database
<1>9. /\ challenge'[c].bond = challenge[c].bond
      /\ challenge'[c].state \in {challenge[c].state, "upheld", "rejected"}
  BY <1>1, <1>2, <1>3, <1>4, <1>5, <1>6, <1>7, <1>8, AbandonEffect DEF Next, vars
<1> QED BY <1>9 DEF Exists, Closed

\* A bond once funded never returns to draft: every write assigns a later state.
LEMMA FundedStays ==
    ASSUME IndInv, [Next]_vars, NEW b \in Bond, Funded(b)
    PROVE  bond'[b] \notin {"absent", "draft"}
<1> USE DEF IndInv
<1>1. ASSUME NEW d \in Bond, CreateBond(d) PROVE bond'[b] = bond[b]
  BY <1>1 DEF CreateBond, TypeOK, Funded
<1>2. Funding => bond'[b] \in {bond[b], "active"}
  BY DEF Funding, FundRead, FundMint, FundCommit, Flushed, TypeOK, database
<1>3. Contesting => bond'[b] \in {bond[b], "breach_pending"}
  BY DEF Contesting, ChallengeRead, ChallengeCommit, Flushed, TypeOK, database
<1>4. Resolving => bond'[b] \in {bond[b], "active", "released"}
  BY DEF Resolving, ResolveReadChallenge, ResolveReadBond, ResolveMint, ResolveCommit,
         Flushed, Outcome, TypeOK, database
<1>5. Slashing => bond'[b] \in {bond[b], "slashed"}
  BY DEF Slashing, EvaluateRead, EvaluateOpen, EvaluateMint, EvaluateAuthorize, SlashCommit,
         TypeOK, database
<1>6. bond'[b] \in {bond[b], "active", "breach_pending", "released", "slashed"}
  BY <1>1, <1>2, <1>3, <1>4, <1>5, AbandonEffect DEF Next, vars
<1> QED BY <1>6 DEF Funded

-----------------------------------------------------------------------------
(* What a request in flight may rely on *)

LEMMA FundsStep == IndInv /\ [Next]_vars => FundsInv'
<1> SUFFICES ASSUME IndInv, [Next]_vars, NEW f \in FundRequest
             PROVE  /\ InFlight(fund'[f]) => fund'[f].bond \in Bond
                    /\ fund'[f].at = "committing" => BondFunded(fund'[f].bond) \in receipts'
  BY DEF FundsInv
<1> USE DEF IndInv
<1>1. CASE fund'[f] = fund[f]
  BY <1>1, Growth DEF FundsInv
<1>2. CASE fund'[f].at = "done"
  BY <1>2 DEF InFlight
<1>3. ASSUME NEW b \in Bond, FundRead(f, b) PROVE fund'[f].bond \in Bond /\ fund'[f].at = "minting"
  BY <1>3 DEF FundRead, TypeOK
<1>4. CASE FundMint(f)
  <2>1. PICK reply \in MintReply :
          /\ Mint(BondFunded(fund[f].bond), reply)
          /\ fund' = [fund EXCEPT ![f].at = IF Minted(reply) THEN "committing" ELSE "done"]
    BY <1>4 DEF FundMint
  <2>2. fund'[f].bond = fund[f].bond /\ fund[f].bond \in Bond
    BY <1>4, <2>1 DEF FundMint, FundsInv, InFlight, TypeOK, FundLocal
  <2>3. CASE Minted(reply)
    BY <2>1, <2>2, <2>3, MintEffect
  <2>4. CASE ~Minted(reply)
    BY <1>2, <2>1, <2>4 DEF TypeOK, FundLocal
  <2> QED BY <2>3, <2>4
<1>5. CASE FundCommit(f)
  BY <1>2, <1>5 DEF FundCommit, TypeOK, FundLocal
<1>6. Abandon => fund'[f] = fund[f] \/ fund'[f].at = "done"
  BY DEF Abandon, TypeOK, FundLocal
<1>7. Funding => \/ fund'[f] = fund[f]
                 \/ (\E b \in Bond : FundRead(f, b)) \/ FundMint(f) \/ FundCommit(f)
  BY DEF Funding, FundRead, FundMint, FundCommit, TypeOK
<1> QED BY <1>1, <1>2, <1>3, <1>4, <1>5, <1>6, <1>7, OwnSteps

LEMMA ContestsStep == IndInv /\ [Next]_vars => ContestsInv'
<1> SUFFICES ASSUME IndInv, [Next]_vars, NEW q \in ChallengeRequest, InFlight(contest'[q])
             PROVE  /\ contest'[q].bond \in Bond
                    /\ bond'[contest'[q].bond] \notin {"absent", "draft"}
  BY DEF ContestsInv, Funded, InFlight
<1> USE DEF IndInv
<1>1. CASE contest'[q] = contest[q]
  BY <1>1, FundedStays DEF ContestsInv, InFlight
<1>2. ASSUME NEW b \in Bond, ChallengeRead(q, b)
      PROVE  contest'[q].bond = b /\ bond'[b] \notin {"absent", "draft"}
  BY <1>2, FundedStays DEF ChallengeRead, Funded, TypeOK
<1>3. ASSUME NEW c \in Challenge, ChallengeCommit(q, c) PROVE contest'[q].at = "done"
  BY <1>3 DEF ChallengeCommit, TypeOK, ContestLocal
<1>4. Abandon => contest'[q] = contest[q] \/ contest'[q].at = "done"
  BY DEF Abandon, TypeOK, ContestLocal
<1>5. Contesting => \/ contest'[q] = contest[q]
                    \/ \E b \in Bond : ChallengeRead(q, b)
                    \/ \E c \in Challenge : ChallengeCommit(q, c)
  BY DEF Contesting, ChallengeRead, ChallengeCommit, TypeOK
<1> QED BY <1>1, <1>2, <1>3, <1>4, <1>5, OwnSteps DEF InFlight

LEMMA ResolvesStep == IndInv /\ [Next]_vars => ResolvesInv'
<1> SUFFICES ASSUME IndInv, [Next]_vars, NEW s \in ResolveRequest, InFlight(resolve'[s])
             PROVE  /\ resolve'[s].challenge \in Challenge
                    /\ challenge'[resolve'[s].challenge].state # "absent"
                    /\ resolve'[s].sawChallenge = "rejected" =>
                         challenge'[resolve'[s].challenge].state \in {"upheld", "rejected"}
                    /\ resolve'[s].at = "committing" =>
                         ChallengeResolved(resolve'[s].challenge, resolve'[s].action) \in receipts'
  BY DEF ResolvesInv, InFlight, Exists, Closed
<1> USE DEF IndInv
<1>1. CASE resolve'[s] = resolve[s]
  BY <1>1, Growth, RowsStay DEF ResolvesInv, InFlight
<1>2. ASSUME NEW c \in Challenge, NEW action \in UserAction, ResolveReadChallenge(s, c, action)
      PROVE  /\ resolve'[s].challenge = c /\ resolve'[s].at = "reading"
             /\ challenge'[c].state # "absent"
             /\ resolve'[s].sawChallenge = "rejected" =>
                  challenge'[c].state \in {"upheld", "rejected"}
  BY <1>2, RowsStay DEF ResolveReadChallenge, Exists, Closed, TypeOK
<1>3. CASE ResolveReadBond(s)
  <2>1. /\ resolve'[s].at = "minting"
        /\ resolve'[s].challenge = resolve[s].challenge
        /\ resolve'[s].sawChallenge = resolve[s].sawChallenge
        /\ InFlight(resolve[s])
    BY <1>3 DEF ResolveReadBond, TypeOK, ResolveLocal, InFlight
  <2> QED BY <2>1, RowsStay DEF ResolvesInv
<1>4. CASE ResolveMint(s)
  <2>1. PICK reply \in MintReply :
          /\ Mint(ChallengeResolved(resolve[s].challenge, resolve[s].action), reply)
          /\ resolve' = [resolve EXCEPT
                           ![s].at = IF Minted(reply) THEN "committing" ELSE "done",
                           ![s].receipt = ReceiptOf(reply)]
    BY <1>4 DEF ResolveMint
  <2>2. /\ resolve'[s].at = IF Minted(reply) THEN "committing" ELSE "done"
        /\ resolve'[s].challenge = resolve[s].challenge
        /\ resolve'[s].action = resolve[s].action
        /\ resolve'[s].sawChallenge = resolve[s].sawChallenge
    BY <2>1 DEF TypeOK, ResolveLocal
  <2>3. Minted(reply)
    BY <2>2 DEF InFlight
  <2>4. ChallengeResolved(resolve[s].challenge, resolve[s].action) \in receipts'
    BY <2>1, <2>3, MintEffect
  <2>5. InFlight(resolve[s])
    BY <1>4 DEF ResolveMint, InFlight
  <2> QED BY <2>2, <2>4, <2>5, RowsStay DEF ResolvesInv
<1>5. ResolveCommit(s) => resolve'[s].at = "done"
  BY DEF ResolveCommit, TypeOK, ResolveLocal
<1>6. Abandon => resolve'[s] = resolve[s] \/ resolve'[s].at = "done"
  BY DEF Abandon, TypeOK, ResolveLocal
<1>7. Resolving => \/ resolve'[s] = resolve[s]
                   \/ \E c \in Challenge, action \in UserAction :
                        ResolveReadChallenge(s, c, action)
                   \/ ResolveReadBond(s) \/ ResolveMint(s) \/ ResolveCommit(s)
  BY DEF Resolving, ResolveReadChallenge, ResolveReadBond, ResolveMint, ResolveCommit, TypeOK
<1> QED BY <1>1, <1>2, <1>3, <1>4, <1>5, <1>6, <1>7, OwnSteps DEF InFlight

LEMMA EvaluationsStep == IndInv /\ [Next]_vars => EvaluationsInv'
<1> DEFINE Opened(v) == v.at \in {"minting", "authorizing", "committing"}
           Good(v) == /\ v.bond \in Bond /\ bond'[v.bond] \notin {"absent", "draft"}
                      /\ Opened(v) => /\ v.challenge \in Challenge
                                      /\ challenge'[v.challenge].state # "absent"
                                      /\ challenge'[v.challenge].bond = v.bond
                      /\ v.at = "committing" => v.challenge \in authorized'
<1> SUFFICES ASSUME IndInv, [Next]_vars, NEW e \in Evaluation, InFlight(evaluation'[e])
             PROVE  Good(evaluation'[e])
  BY DEF EvaluationsInv, InFlight, Exists, Funded
<1> USE DEF IndInv
<1>1. ASSUME NEW v, v.bond = evaluation[e].bond, v.challenge = evaluation[e].challenge,
             InFlight(evaluation[e]), Opened(v) => Opened(evaluation[e]),
             v.at = "committing" => v.challenge \in authorized'
      PROVE  Good(v)
  BY <1>1, RowsStay, FundedStays DEF EvaluationsInv, Exists
<1>2. CASE evaluation'[e] = evaluation[e]
  BY <1>1, <1>2, Growth DEF EvaluationsInv
<1>3. ASSUME NEW b \in Bond, EvaluateRead(e, b) PROVE Good(evaluation'[e])
  <2>1. evaluation'[e].bond = b /\ evaluation'[e].at = "opening"
    BY <1>3 DEF EvaluateRead, TypeOK, EvaluationLocal
  <2> QED BY <1>3, <2>1, FundedStays DEF EvaluateRead, Funded
<1>4. ASSUME NEW c \in Challenge, EvaluateOpen(e, c) PROVE Good(evaluation'[e])
  <2>1. /\ evaluation'[e].bond = evaluation[e].bond
        /\ evaluation'[e].challenge = c
        /\ evaluation'[e].at = "minting"
        /\ InFlight(evaluation[e])
    BY <1>4 DEF EvaluateOpen, TypeOK, EvaluationLocal, InFlight
  <2>2. challenge'[c].bond = evaluation[e].bond /\ challenge'[c].state = "pending"
    BY <1>4 DEF EvaluateOpen, TypeOK
  <2> QED BY <2>1, <2>2, FundedStays DEF EvaluationsInv
<1>5. CASE EvaluateMint(e)
  <2>1. /\ evaluation'[e].bond = evaluation[e].bond
        /\ evaluation'[e].challenge = evaluation[e].challenge
        /\ evaluation'[e].at \in {"authorizing", "done"}
    BY <1>5 DEF EvaluateMint, TypeOK, EvaluationLocal
  <2> QED BY <1>1, <1>5, <2>1 DEF EvaluateMint, InFlight
<1>6. CASE EvaluateAuthorize(e)
  <2>1. /\ evaluation'[e].bond = evaluation[e].bond
        /\ evaluation'[e].challenge = evaluation[e].challenge
        /\ evaluation'[e].at = "committing" => evaluation[e].challenge \in authorized'
    BY <1>6 DEF EvaluateAuthorize, TypeOK, EvaluationLocal
  <2> QED BY <1>1, <1>6, <2>1 DEF EvaluateAuthorize, InFlight
<1>7. SlashCommit(e) => evaluation'[e].at = "done"
  BY DEF SlashCommit, TypeOK, EvaluationLocal
<1>8. Abandon => evaluation'[e] = evaluation[e] \/ evaluation'[e].at = "done"
  BY DEF Abandon, TypeOK, EvaluationLocal
<1>9. Slashing => \/ evaluation'[e] = evaluation[e]
                  \/ \E b \in Bond : EvaluateRead(e, b)
                  \/ \E c \in Challenge : EvaluateOpen(e, c)
                  \/ EvaluateMint(e) \/ EvaluateAuthorize(e) \/ SlashCommit(e)
  BY DEF Slashing, EvaluateRead, EvaluateOpen, EvaluateMint, EvaluateAuthorize, SlashCommit, TypeOK
<1> QED BY <1>2, <1>3, <1>4, <1>5, <1>6, <1>7, <1>8, <1>9, OwnSteps DEF InFlight

-----------------------------------------------------------------------------
(* Which steps write which table *)

\* A bond's state is written by five commits only.
LEMMA BondWriters ==
    ASSUME [Next]_vars
    PROVE  \/ bond' = bond
           \/ \E b \in Bond : CreateBond(b)
           \/ \E f \in FundRequest : FundCommit(f)
           \/ \E q \in ChallengeRequest, c \in Challenge : ChallengeCommit(q, c)
           \/ \E s \in ResolveRequest : ResolveCommit(s)
           \/ \E e \in Evaluation : SlashCommit(e)
<1>1. Funding => bond' = bond \/ \E f \in FundRequest : FundCommit(f)
  BY DEF Funding, FundRead, FundMint, database
<1>2. Contesting => \/ bond' = bond
                    \/ \E q \in ChallengeRequest, c \in Challenge : ChallengeCommit(q, c)
  BY DEF Contesting, ChallengeRead, database
<1>3. Resolving => bond' = bond \/ \E s \in ResolveRequest : ResolveCommit(s)
  BY DEF Resolving, ResolveReadChallenge, ResolveReadBond, ResolveMint, database
<1>4. Slashing => bond' = bond \/ \E e \in Evaluation : SlashCommit(e)
  BY DEF Slashing, EvaluateRead, EvaluateOpen, EvaluateMint, EvaluateAuthorize, database
<1> QED BY <1>1, <1>2, <1>3, <1>4, AbandonEffect DEF Next, vars

\* A challenge row is written by four commits only.
LEMMA ChallengeWriters ==
    ASSUME [Next]_vars
    PROVE  \/ challenge' = challenge
           \/ \E q \in ChallengeRequest, c \in Challenge : ChallengeCommit(q, c)
           \/ \E s \in ResolveRequest : ResolveCommit(s)
           \/ \E e \in Evaluation, c \in Challenge : EvaluateOpen(e, c)
           \/ \E e \in Evaluation : SlashCommit(e)
<1>1. ASSUME NEW b \in Bond, CreateBond(b) PROVE challenge' = challenge
  BY <1>1 DEF CreateBond
<1>2. Funding => challenge' = challenge
  BY DEF Funding, FundRead, FundMint, FundCommit, database
<1>3. Contesting => \/ challenge' = challenge
                    \/ \E q \in ChallengeRequest, c \in Challenge : ChallengeCommit(q, c)
  BY DEF Contesting, ChallengeRead, database
<1>4. Resolving => challenge' = challenge \/ \E s \in ResolveRequest : ResolveCommit(s)
  BY DEF Resolving, ResolveReadChallenge, ResolveReadBond, ResolveMint, database
<1>5. Slashing => \/ challenge' = challenge
                  \/ \E e \in Evaluation, c \in Challenge : EvaluateOpen(e, c)
                  \/ \E e \in Evaluation : SlashCommit(e)
  BY DEF Slashing, EvaluateRead, EvaluateMint, EvaluateAuthorize, database
<1> QED BY <1>1, <1>2, <1>3, <1>4, <1>5, AbandonEffect DEF Next, vars

\* A resolution row is written by two commits only.
LEMMA ResolutionWriters ==
    ASSUME [Next]_vars
    PROVE  \/ resolutions' = resolutions
           \/ \E s \in ResolveRequest : ResolveCommit(s)
           \/ \E e \in Evaluation : SlashCommit(e)
<1>1. ASSUME NEW b \in Bond, CreateBond(b) PROVE resolutions' = resolutions
  BY <1>1 DEF CreateBond
<1>2. Funding \/ Contesting => resolutions' = resolutions
  BY DEF Funding, FundRead, FundMint, FundCommit, Contesting, ChallengeRead, ChallengeCommit,
         database
<1>3. Resolving => resolutions' = resolutions \/ \E s \in ResolveRequest : ResolveCommit(s)
  BY DEF Resolving, ResolveReadChallenge, ResolveReadBond, ResolveMint, database
<1>4. Slashing => resolutions' = resolutions \/ \E e \in Evaluation : SlashCommit(e)
  BY DEF Slashing, EvaluateRead, EvaluateOpen, EvaluateMint, EvaluateAuthorize, database
<1> QED BY <1>1, <1>2, <1>3, <1>4, AbandonEffect DEF Next, vars

\* What the commit of a user resolution does, spelled out on the rows.
LEMMA ResolveCommitEffect ==
    ASSUME IndInv, NEW s \in ResolveRequest, ResolveCommit(s),
           NEW c, c = resolve[s].challenge, NEW b, b = challenge[c].bond
    PROVE  /\ c \in Challenge /\ Exists(c)
           /\ b \in Bond /\ Funded(b)
           /\ bond'[b] = Flushed(resolve[s].sawBond, Outcome(resolve[s].action), bond[b])
           /\ \A d \in Bond \ {b} : bond'[d] = bond[d]
           /\ challenge'[c].bond = b
           /\ challenge'[c].state = Flushed(resolve[s].sawChallenge, "rejected", challenge[c].state)
           /\ challenge'[c].resolved_at = "set"
           /\ \A d \in Challenge \ {c} : challenge'[d] = challenge[d]
           /\ resolutions' = resolutions \cup
                {[by |-> s, challenge |-> c, action |-> resolve[s].action,
                  receipt |-> resolve[s].receipt]}
           /\ resolve[s].action \in UserAction
           /\ ChallengeResolved(c, resolve[s].action) \in receipts
<1> USE DEF IndInv
<1>1. /\ c \in Challenge /\ Exists(c)
      /\ ChallengeResolved(c, resolve[s].action) \in receipts
  BY DEF ResolveCommit, ResolvesInv, InFlight
<1>2. b \in Bond /\ Funded(b)
  BY <1>1 DEF ChallengesOnFundedBonds
<1>3. resolve[s].action \in UserAction
  BY DEF TypeOK, ResolveLocal
<1>4. challenge[c] \in ChallengeRow
  BY <1>1 DEF TypeOK
<1> QED BY <1>1, <1>2, <1>3, <1>4 DEF ResolveCommit, TypeOK, ChallengeRow

\* What the commit of a slash does, spelled out on the rows.
LEMMA SlashCommitEffect ==
    ASSUME IndInv, NEW e \in Evaluation, SlashCommit(e),
           NEW c, c = evaluation[e].challenge, NEW b, b = evaluation[e].bond
    PROVE  /\ c \in Challenge /\ Exists(c) /\ c \in authorized
           /\ b \in Bond /\ Funded(b)
           /\ bond'[b] = "slashed"
           /\ \A d \in Bond \ {b} : bond'[d] = bond[d]
           /\ challenge[c].bond = b /\ challenge'[c].bond = b
           /\ challenge'[c].state = "upheld"
           /\ challenge'[c].resolved_at = "set"
           /\ \A d \in Challenge \ {c} : challenge'[d] = challenge[d]
           /\ resolutions' = resolutions \cup
                {[by |-> e, challenge |-> c, action |-> "slash",
                  receipt |-> evaluation[e].receipt]}
<1> USE DEF IndInv
<1>1. /\ c \in Challenge /\ Exists(c) /\ c \in authorized
      /\ b \in Bond /\ Funded(b) /\ challenge[c].bond = b
  BY DEF SlashCommit, EvaluationsInv, InFlight
<1>2. challenge[c] \in ChallengeRow
  BY <1>1 DEF TypeOK
<1> QED BY <1>1, <1>2 DEF SlashCommit, TypeOK, ChallengeRow

-----------------------------------------------------------------------------
(* The properties of the ledger *)

LEMMA ChallengesOnFundedBondsStep == IndInv /\ [Next]_vars => ChallengesOnFundedBonds'
<1> SUFFICES ASSUME IndInv, [Next]_vars, NEW c \in Challenge, challenge'[c].state # "absent"
             PROVE  /\ challenge'[c].bond \in Bond
                    /\ bond'[challenge'[c].bond] \notin {"absent", "draft"}
  BY DEF ChallengesOnFundedBonds, Exists, Funded
<1> USE DEF IndInv
<1>1. CASE Exists(c)
  BY <1>1, RowsStay, FundedStays DEF ChallengesOnFundedBonds
<1>2. CASE ~Exists(c)
  <2>1. challenge'[c] # challenge[c]
    BY <1>2 DEF Exists
  <2>2. ASSUME NEW q \in ChallengeRequest, NEW d \in Challenge, ChallengeCommit(q, d)
        PROVE  challenge'[c].bond = contest[q].bond /\ InFlight(contest[q])
    BY <2>1, <2>2 DEF ChallengeCommit, InFlight, TypeOK
  <2>3. ASSUME NEW e \in Evaluation, NEW d \in Challenge, EvaluateOpen(e, d)
        PROVE  challenge'[c].bond = evaluation[e].bond /\ InFlight(evaluation[e])
    BY <2>1, <2>3 DEF EvaluateOpen, InFlight, TypeOK
  <2>4. ASSUME NEW s \in ResolveRequest, ResolveCommit(s) PROVE FALSE
    BY <1>2, <2>1, <2>4, ResolveCommitEffect
  <2>5. ASSUME NEW e \in Evaluation, SlashCommit(e) PROVE FALSE
    BY <1>2, <2>1, <2>5, SlashCommitEffect
  <2> QED
    BY <2>1, <2>2, <2>3, <2>4, <2>5, ChallengeWriters, FundedStays DEF ContestsInv, EvaluationsInv
<1> QED BY <1>1, <1>2

LEMMA ResolutionsStep == IndInv /\ [Next]_vars => ResolutionsInv'
<1> SUFFICES ASSUME IndInv, [Next]_vars, NEW r \in resolutions'
             PROVE  challenge'[r.challenge].state # "absent"
  BY DEF ResolutionsInv, Exists
<1> USE DEF IndInv
<1>1. CASE r \in resolutions
  <2>1. r.challenge \in Challenge
    BY <1>1 DEF TypeOK, ResolutionRow
  <2> QED BY <1>1, <2>1, RowsStay DEF ResolutionsInv
<1>2. ASSUME NEW s \in ResolveRequest, ResolveCommit(s), r \notin resolutions
      PROVE  r.challenge \in Challenge /\ Exists(r.challenge)
  BY <1>2, ResolveCommitEffect
<1>3. ASSUME NEW e \in Evaluation, SlashCommit(e), r \notin resolutions
      PROVE  r.challenge \in Challenge /\ Exists(r.challenge)
  BY <1>3, SlashCommitEffect
<1> QED BY <1>1, <1>2, <1>3, ResolutionWriters, RowsStay

LEMMA FundedBondHasReceiptStep == IndInv /\ [Next]_vars => FundedBondHasReceipt'
<1> SUFFICES ASSUME IndInv, [Next]_vars, NEW b \in Bond, bond'[b] \notin {"absent", "draft"}
             PROVE  BondFunded(b) \in receipts'
  BY DEF FundedBondHasReceipt, BondFunded
<1> USE DEF IndInv
<1>1. CASE Funded(b)
  BY <1>1, Growth DEF FundedBondHasReceipt, Funded
<1>2. CASE ~Funded(b)
  <2>1. bond'[b] # bond[b]
    BY <1>2 DEF Funded
  <2>2. ASSUME NEW d \in Bond, CreateBond(d) PROVE FALSE
    BY <2>1, <2>2 DEF CreateBond, TypeOK
  <2>3. ASSUME NEW f \in FundRequest, FundCommit(f) PROVE BondFunded(b) \in receipts
    BY <2>1, <2>3 DEF FundCommit, FundsInv, TypeOK
  <2>4. ASSUME NEW q \in ChallengeRequest, NEW c \in Challenge, ChallengeCommit(q, c) PROVE FALSE
    BY <1>2, <2>1, <2>4 DEF ChallengeCommit, ContestsInv, InFlight, TypeOK
  <2>5. ASSUME NEW s \in ResolveRequest, ResolveCommit(s) PROVE FALSE
    BY <1>2, <2>1, <2>5, ResolveCommitEffect
  <2>6. ASSUME NEW e \in Evaluation, SlashCommit(e) PROVE FALSE
    BY <1>2, <2>1, <2>6, SlashCommitEffect
  <2> QED BY <2>1, <2>2, <2>3, <2>4, <2>5, <2>6, BondWriters, Growth
<1> QED BY <1>1, <1>2

LEMMA UserResolutionHasReceiptStep == IndInv /\ [Next]_vars => UserResolutionHasReceipt'
<1> SUFFICES ASSUME IndInv, [Next]_vars, NEW r \in resolutions', r.action \in UserAction
             PROVE  ChallengeResolved(r.challenge, r.action) \in receipts'
  BY DEF UserResolutionHasReceipt, ChallengeResolved
<1> USE DEF IndInv
<1>1. CASE r \in resolutions
  BY <1>1, Growth DEF UserResolutionHasReceipt
<1>2. ASSUME NEW s \in ResolveRequest, ResolveCommit(s), r \notin resolutions
      PROVE  ChallengeResolved(r.challenge, r.action) \in receipts
  BY <1>2, ResolveCommitEffect
<1>3. ASSUME NEW e \in Evaluation, SlashCommit(e), r \notin resolutions PROVE FALSE
  BY <1>3, SlashCommitEffect DEF UserAction
<1> QED BY <1>1, <1>2, <1>3, ResolutionWriters, Growth

LEMMA SettledBondHasResolutionStep == IndInv /\ [Next]_vars => SettledBondHasResolution'
<1> DEFINE Settles(r, action, b) == r.action = action /\ challenge'[r.challenge].bond = b
<1> SUFFICES ASSUME IndInv, [Next]_vars, NEW b \in Bond
             PROVE  /\ bond'[b] = "slashed" => \E r \in resolutions' : Settles(r, "slash", b)
                    /\ bond'[b] = "released" => \E r \in resolutions' : Settles(r, "release", b)
  BY DEF SettledBondHasResolution
<1> USE DEF IndInv
<1>1. ASSUME NEW r \in resolutions
      PROVE  r \in resolutions' /\ challenge'[r.challenge].bond = challenge[r.challenge].bond
  <2>1. r.challenge \in Challenge
    BY DEF TypeOK, ResolutionRow
  <2> QED BY <2>1, RowsStay, Growth DEF ResolutionsInv
<1>2. CASE bond'[b] = bond[b]
  BY <1>1, <1>2 DEF SettledBondHasResolution
<1>3. ASSUME NEW s \in ResolveRequest, ResolveCommit(s), bond'[b] # bond[b]
      PROVE  /\ bond'[b] # "slashed"
             /\ bond'[b] = "released" => \E r \in resolutions' : Settles(r, "release", b)
  <2> USE <1>3
  <2> DEFINE c == resolve[s].challenge
             row == [by |-> s, challenge |-> c, action |-> resolve[s].action,
                     receipt |-> resolve[s].receipt]
  <2>1. b = challenge[c].bond
    BY ResolveCommitEffect
  <2>2. /\ bond'[b] = Flushed(resolve[s].sawBond, Outcome(resolve[s].action), bond[b])
        /\ challenge'[c].bond = b
        /\ row \in resolutions'
    BY <2>1, ResolveCommitEffect
  <2>3. bond'[b] = Outcome(resolve[s].action)
    BY <2>2 DEF Flushed
  <2>4. bond'[b] = "released" => Settles(row, "release", b)
    BY <2>2, <2>3, ResolveCommitEffect DEF Outcome, UserAction
  <2> QED BY <2>2, <2>3, <2>4 DEF Outcome
<1>4. ASSUME NEW e \in Evaluation, SlashCommit(e), bond'[b] # bond[b]
      PROVE  bond'[b] = "slashed" /\ \E r \in resolutions' : Settles(r, "slash", b)
  <2> USE <1>4
  <2> DEFINE row == [by |-> e, challenge |-> evaluation[e].challenge, action |-> "slash",
                     receipt |-> evaluation[e].receipt]
  <2>1. b = evaluation[e].bond /\ bond'[b] = "slashed"
    BY SlashCommitEffect
  <2>2. row \in resolutions' /\ challenge'[row.challenge].bond = b
    BY <2>1, SlashCommitEffect
  <2> QED BY <2>1, <2>2
<1>5. ASSUME NEW d \in Bond, CreateBond(d), bond'[b] # bond[b] PROVE bond'[b] = "draft"
  BY <1>5 DEF CreateBond, TypeOK
<1>6. ASSUME NEW f \in FundRequest, FundCommit(f), bond'[b] # bond[b] PROVE bond'[b] = "active"
  BY <1>6 DEF FundCommit, Flushed, TypeOK
<1>7. ASSUME NEW q \in ChallengeRequest, NEW c \in Challenge, ChallengeCommit(q, c),
             bond'[b] # bond[b]
      PROVE  bond'[b] = "breach_pending"
  BY <1>7 DEF ChallengeCommit, Flushed, TypeOK
<1> QED BY <1>2, <1>3, <1>4, <1>5, <1>6, <1>7, BondWriters

\* The bonds' half of this property follows from the resolutions' half.
LEMMA SlashOnlyThroughCappoStep == IndInv /\ [Next]_vars => SlashOnlyThroughCappo'
<1> SUFFICES ASSUME IndInv, [Next]_vars PROVE SlashOnlyThroughCappo'
  OBVIOUS
<1> USE DEF IndInv
<1>1. ASSUME NEW r \in resolutions', r.action = "slash" PROVE r.challenge \in authorized'
  <2>1. CASE r \in resolutions
    BY <1>1, <2>1, Growth DEF SlashOnlyThroughCappo
  <2>2. ASSUME NEW s \in ResolveRequest, ResolveCommit(s), r \notin resolutions PROVE FALSE
    BY <1>1, <2>2, ResolveCommitEffect DEF UserAction
  <2>3. ASSUME NEW e \in Evaluation, SlashCommit(e), r \notin resolutions
        PROVE  r.challenge \in authorized
    BY <2>3, SlashCommitEffect
  <2> QED BY <2>1, <2>2, <2>3, ResolutionWriters, Growth
<1>2. SettledBondHasResolution'
  BY SettledBondHasResolutionStep
<1> QED BY <1>1, <1>2 DEF SlashOnlyThroughCappo, SettledBondHasResolution

LEMMA ClosedIffResolvedStep == IndInv /\ [Next]_vars => ClosedIffResolved'
<1> DEFINE closed(row) == row.state \in {"upheld", "rejected"}
<1> SUFFICES ASSUME IndInv, [Next]_vars, NEW c \in Challenge
             PROVE  /\ closed(challenge'[c]) <=> \E r \in resolutions' : r.challenge = c
                    /\ closed(challenge'[c]) <=> challenge'[c].resolved_at = "set"
  BY DEF ClosedIffResolved
<1> USE DEF IndInv
<1>1. ASSUME NEW s \in ResolveRequest, ResolveCommit(s), c = resolve[s].challenge
      PROVE  /\ closed(challenge'[c]) /\ challenge'[c].resolved_at = "set"
             /\ \E r \in resolutions' : r.challenge = c
  <2> USE <1>1
  <2>1. /\ challenge'[c].state = Flushed(resolve[s].sawChallenge, "rejected", challenge[c].state)
        /\ challenge'[c].resolved_at = "set"
        /\ [by |-> s, challenge |-> c, action |-> resolve[s].action,
            receipt |-> resolve[s].receipt] \in resolutions'
    BY ResolveCommitEffect
  <2>2. resolve[s].sawChallenge = "rejected" => closed(challenge[c])
    BY DEF ResolveCommit, ResolvesInv, InFlight, Closed
  <2>3. closed(challenge'[c])
    BY <2>1, <2>2 DEF Flushed
  <2> QED BY <2>1, <2>3
<1>2. ASSUME NEW e \in Evaluation, SlashCommit(e), c = evaluation[e].challenge
      PROVE  /\ closed(challenge'[c]) /\ challenge'[c].resolved_at = "set"
             /\ \E r \in resolutions' : r.challenge = c
  <2> USE <1>2
  <2>1. /\ challenge'[c].state = "upheld"
        /\ challenge'[c].resolved_at = "set"
        /\ [by |-> e, challenge |-> c, action |-> "slash",
            receipt |-> evaluation[e].receipt] \in resolutions'
    BY SlashCommitEffect
  <2> QED BY <2>1
<1>3. ASSUME NEW s \in ResolveRequest, ResolveCommit(s), c # resolve[s].challenge
      PROVE  /\ challenge'[c] = challenge[c]
             /\ \A r \in resolutions' : r.challenge = c => r \in resolutions
  BY <1>3, ResolveCommitEffect
<1>4. ASSUME NEW e \in Evaluation, SlashCommit(e), c # evaluation[e].challenge
      PROVE  /\ challenge'[c] = challenge[c]
             /\ \A r \in resolutions' : r.challenge = c => r \in resolutions
  BY <1>4, SlashCommitEffect
<1>5. ASSUME challenge'[c] = challenge[c],
             \A r \in resolutions' : r.challenge = c => r \in resolutions
      PROVE  /\ closed(challenge'[c]) <=> \E r \in resolutions' : r.challenge = c
             /\ closed(challenge'[c]) <=> challenge'[c].resolved_at = "set"
  BY <1>5, Growth DEF ClosedIffResolved
<1>6. ASSUME challenge'[c] # challenge[c],
             \/ \E q \in ChallengeRequest, d \in Challenge : ChallengeCommit(q, d)
             \/ \E e \in Evaluation, d \in Challenge : EvaluateOpen(e, d)
      PROVE  /\ ~closed(challenge'[c]) /\ challenge'[c].resolved_at = "null"
             /\ ~ \E r \in resolutions' : r.challenge = c
  <2>1. /\ challenge[c].state = "absent"
        /\ challenge'[c].state \in {"verifying", "pending"}
        /\ challenge'[c].resolved_at = "null"
        /\ resolutions' = resolutions
    <3>1. ASSUME NEW q \in ChallengeRequest, NEW d \in Challenge, ChallengeCommit(q, d)
          PROVE  <2>1!:
      <4>1. c = d
        BY <1>6, <3>1 DEF ChallengeCommit, TypeOK
      <4> QED BY <3>1, <4>1 DEF ChallengeCommit, TypeOK
    <3>2. ASSUME NEW e \in Evaluation, NEW d \in Challenge, EvaluateOpen(e, d)
          PROVE  <2>1!:
      <4>1. c = d
        BY <1>6, <3>2 DEF EvaluateOpen, TypeOK
      <4> QED BY <3>2, <4>1 DEF EvaluateOpen, TypeOK
    <3> QED BY <1>6, <3>1, <3>2
  <2> QED BY <2>1 DEF ResolutionsInv, Exists
<1>7. CASE /\ ~ \E s \in ResolveRequest : ResolveCommit(s)
           /\ ~ \E e \in Evaluation : SlashCommit(e)
  <2>1. resolutions' = resolutions
    BY <1>7, ResolutionWriters
  <2> QED BY <1>5, <1>6, <1>7, <2>1, ChallengeWriters
<1> QED BY <1>1, <1>2, <1>3, <1>4, <1>5, <1>7

LEMMA BreachWitnessStep == IndInv /\ [Next]_vars => BreachWitness'
<1> DEFINE Witness(b, c) ==
             /\ challenge[c].bond = b
             /\ challenge[c].state = "verifying"
             /\ \A s \in ResolveRequest :
                  resolve[s].challenge = c /\ resolve[s].at \in {"minting", "committing"} =>
                    resolve[s].sawBond = "breach_pending"
<1> SUFFICES ASSUME IndInv, [Next]_vars, NEW b \in Bond, bond'[b] = "breach_pending"
             PROVE  \E c \in Challenge : Witness(b, c)'
  BY DEF BreachWitness
<1> USE DEF IndInv
\* The challenge that puts the bond in breach is new: nobody resolves it yet.
<1>1. ASSUME NEW q \in ChallengeRequest, NEW c \in Challenge, ChallengeCommit(q, c),
             b = contest[q].bond
      PROVE  Witness(b, c)'
  <2>1. challenge'[c].bond = b /\ challenge'[c].state = "verifying" /\ resolve' = resolve
    BY <1>1 DEF ChallengeCommit, TypeOK
  <2>2. ~Exists(c)
    BY <1>1 DEF ChallengeCommit, Exists
  <2>3. \A s \in ResolveRequest :
          resolve[s].at \in {"minting", "committing"} => resolve[s].challenge # c
    BY <2>2 DEF ResolvesInv, InFlight
  <2> QED BY <2>1, <2>3
\* Otherwise the bond was in breach, and its witness is still one.
<1>2. CASE ~ \E q \in ChallengeRequest, c \in Challenge :
               ChallengeCommit(q, c) /\ b = contest[q].bond
  <2>1. bond[b] = "breach_pending"
    <3>1. ASSUME NEW s \in ResolveRequest, ResolveCommit(s) PROVE bond'[b] = bond[b]
      BY <3>1, ResolveCommitEffect DEF Flushed, Outcome
    <3>2. ASSUME NEW e \in Evaluation, SlashCommit(e) PROVE bond'[b] = bond[b]
      BY <3>2, SlashCommitEffect
    <3>3. ASSUME NEW d \in Bond, CreateBond(d) PROVE bond'[b] = bond[b]
      BY <3>3 DEF CreateBond, TypeOK
    <3>4. ASSUME NEW f \in FundRequest, FundCommit(f) PROVE bond'[b] = bond[b]
      BY <3>4 DEF FundCommit, Flushed, TypeOK
    <3>5. ASSUME NEW q \in ChallengeRequest, NEW c \in Challenge, ChallengeCommit(q, c)
          PROVE  bond'[b] = bond[b]
      BY <1>2, <3>5 DEF ChallengeCommit, TypeOK
    <3> QED BY <3>1, <3>2, <3>3, <3>4, <3>5, BondWriters
  <2>2. PICK c \in Challenge : Witness(b, c)
    BY <2>1 DEF BreachWitness
  \* A resolver of the witness would have taken the bond out of breach.
  <2>3. ASSUME NEW s \in ResolveRequest, ResolveCommit(s) PROVE c # resolve[s].challenge
    <3> SUFFICES ASSUME c = resolve[s].challenge PROVE FALSE
      OBVIOUS
    <3>1. resolve[s].sawBond = "breach_pending"
      BY <2>2, <2>3 DEF ResolveCommit
    <3>2. bond'[b] = Outcome(resolve[s].action)
      BY <2>2, <2>3, <3>1, ResolveCommitEffect DEF Flushed, Outcome
    <3> QED BY <3>2 DEF Outcome
  <2>4. ASSUME NEW e \in Evaluation, SlashCommit(e) PROVE c # evaluation[e].challenge
    BY <2>2, <2>4, SlashCommitEffect
  <2>5. challenge'[c] = challenge[c]
    <3>1. ASSUME NEW q \in ChallengeRequest, NEW d \in Challenge, ChallengeCommit(q, d)
          PROVE  challenge'[c] = challenge[c]
      BY <2>2, <3>1 DEF ChallengeCommit, TypeOK
    <3>2. ASSUME NEW e \in Evaluation, NEW d \in Challenge, EvaluateOpen(e, d)
          PROVE  challenge'[c] = challenge[c]
      BY <2>2, <3>2 DEF EvaluateOpen, TypeOK
    <3> QED BY <2>3, <2>4, <3>1, <3>2, ResolveCommitEffect, SlashCommitEffect, ChallengeWriters
  <2>6. ASSUME NEW s \in ResolveRequest, resolve'[s].challenge = c,
               resolve'[s].at \in {"minting", "committing"}
        PROVE  resolve'[s].sawBond = "breach_pending"
    <3>1. CASE resolve'[s] = resolve[s]
      BY <2>2, <2>6, <3>1
    <3>2. ASSUME NEW d \in Challenge, NEW action \in UserAction, ResolveReadChallenge(s, d, action)
          PROVE  FALSE
      BY <2>6, <3>2 DEF ResolveReadChallenge, TypeOK
    <3>3. CASE ResolveReadBond(s)
      <4>1. resolve'[s].challenge = resolve[s].challenge
        BY <3>3 DEF ResolveReadBond, TypeOK, ResolveLocal
      <4>2. resolve'[s].sawBond = bond[challenge[resolve[s].challenge].bond]
        BY <3>3 DEF ResolveReadBond, TypeOK, ResolveLocal
      <4> QED BY <2>1, <2>2, <2>6, <4>1, <4>2
    <3>4. CASE ResolveMint(s)
      <4>1. /\ resolve'[s].challenge = resolve[s].challenge
            /\ resolve'[s].sawBond = resolve[s].sawBond
            /\ resolve[s].at = "minting"
        BY <3>4 DEF ResolveMint, TypeOK, ResolveLocal
      <4> QED BY <2>2, <2>6, <4>1
    <3>5. ResolveCommit(s) => resolve'[s].at = "done"
      BY DEF ResolveCommit, TypeOK, ResolveLocal
    <3>6. Abandon => resolve'[s] = resolve[s] \/ resolve'[s].at = "done"
      BY DEF Abandon, TypeOK, ResolveLocal
    <3>7. Resolving => \/ resolve'[s] = resolve[s]
                       \/ \E d \in Challenge, action \in UserAction :
                            ResolveReadChallenge(s, d, action)
                       \/ ResolveReadBond(s) \/ ResolveMint(s) \/ ResolveCommit(s)
      BY DEF Resolving, ResolveReadChallenge, ResolveReadBond, ResolveMint, ResolveCommit, TypeOK
    <3> QED BY <2>6, <3>1, <3>2, <3>3, <3>4, <3>5, <3>6, <3>7, OwnSteps
  <2> QED BY <2>2, <2>5, <2>6
<1> QED BY <1>1, <1>2

-----------------------------------------------------------------------------
(* The theorems *)

LEMMA InitInv == Init => IndInv
<1> SUFFICES ASSUME Init PROVE IndInv
  OBVIOUS
<1>1. TypeOK
  BY InitType
<1>2. ChallengesOnFundedBonds /\ ResolutionsInv /\ ClosedIffResolved
  BY DEF Init, ChallengesOnFundedBonds, ResolutionsInv, ClosedIffResolved, Exists
<1>3. FundsInv /\ ContestsInv /\ ResolvesInv /\ EvaluationsInv
  BY DEF Init, FundsInv, ContestsInv, ResolvesInv, EvaluationsInv, InFlight
<1>4. /\ FundedBondHasReceipt /\ UserResolutionHasReceipt /\ SlashOnlyThroughCappo
      /\ SettledBondHasResolution /\ BreachWitness
  BY DEF Init, FundedBondHasReceipt, UserResolutionHasReceipt, SlashOnlyThroughCappo,
         SettledBondHasResolution, BreachWitness
<1> QED BY <1>1, <1>2, <1>3, <1>4 DEF IndInv

LEMMA NextInv == IndInv /\ [Next]_vars => IndInv'
BY NextType, ChallengesOnFundedBondsStep, FundsStep, ContestsStep, ResolvesStep,
   EvaluationsStep, ResolutionsStep, FundedBondHasReceiptStep, UserResolutionHasReceiptStep,
   SlashOnlyThroughCappoStep, SettledBondHasResolutionStep, ClosedIffResolvedStep,
   BreachWitnessStep DEF IndInv

\* IndInv holds in every reachable state, for any number of bonds, challenges
\* and concurrent requests.
THEOREM Invariance == Spec => []IndInv
BY InitInv, NextInv, PTL DEF Spec

\* The rows and the locals of the requests keep their types.
THEOREM TypeCorrect == Spec => []TypeOK
<1>1. IndInv => TypeOK
  BY DEF IndInv
<1> QED BY <1>1, Invariance, PTL

\* A funded bond has its PGL receipt, whatever fails between the calls.
THEOREM FundingIsReceipted == Spec => []FundedBondHasReceipt
<1>1. IndInv => FundedBondHasReceipt
  BY DEF IndInv
<1> QED BY <1>1, Invariance, PTL

\* Releases and dismissals have their PGL receipts.
THEOREM UserResolutionsAreReceipted == Spec => []UserResolutionHasReceipt
<1>1. IndInv => UserResolutionHasReceipt
  BY DEF IndInv
<1> QED BY <1>1, Invariance, PTL

\* No slash without CAPPO's authorization of that challenge.
THEOREM SlashingIsGoverned == Spec => []SlashOnlyThroughCappo
<1>1. IndInv => SlashOnlyThroughCappo
  BY DEF IndInv
<1> QED BY <1>1, Invariance, PTL

\* A slashed or released bond has the resolution that settled it.
THEOREM SettlementIsRecorded == Spec => []SettledBondHasResolution
<1>1. IndInv => SettledBondHasResolution
  BY DEF IndInv
<1> QED BY <1>1, Invariance, PTL

\* Closing, resolved_at and the resolution row go together under every race.
THEOREM ClosingIsConsistent == Spec => []ClosedIffResolved
<1>1. IndInv => ClosedIffResolved
  BY DEF IndInv
<1> QED BY <1>1, Invariance, PTL

\* A bond in breach always has an open challenge that can take it out of breach.
THEOREM BreachIsResolvable == Spec => []BreachHasOpenChallenge
<1>1. IndInv => BreachHasOpenChallenge
  BY DEF IndInv, BreachWitness, BreachHasOpenChallenge
<1> QED BY <1>1, Invariance, PTL

-----------------------------------------------------------------------------
(* Requests that do not overlap: what a request has loaded is still so when it commits *)

FundSeesNow == \A f \in FundRequest : InFlight(fund[f]) => bond[fund[f].bond] = "draft"

ContestSeesNow ==
    \A q \in ChallengeRequest : InFlight(contest[q]) =>
      /\ contest[q].sawBond = bond[contest[q].bond]
      /\ contest[q].sawBond \in {"active", "breach_pending"}

ResolveSeesNow ==
    \A s \in ResolveRequest : InFlight(resolve[s]) =>
      /\ resolve[s].sawChallenge = challenge[resolve[s].challenge].state
      /\ resolve[s].at # "reading" =>
           resolve[s].sawBond = bond[challenge[resolve[s].challenge].bond]

EvaluationSeesNow ==
    \A e \in Evaluation : InFlight(evaluation[e]) =>
      /\ bond[evaluation[e].bond] = "active"
      /\ evaluation[e].at # "opening" => challenge[evaluation[e].challenge].state = "pending"

\* Funding goes from draft to active in one commit.
NeverFunded == \A b \in Bond : bond[b] # "funded"

SerialInv ==
    /\ IndInv
    /\ OneInFlight
    /\ FundSeesNow /\ ContestSeesNow /\ ResolveSeesNow /\ EvaluationSeesNow
    /\ NeverFunded

\* All requests but at most one are not in flight.
Alone ==
    /\ \A f, g \in FundRequest : InFlight(fund[f]) /\ InFlight(fund[g]) => f = g
    /\ \A q, p \in ChallengeRequest : InFlight(contest[q]) /\ InFlight(contest[p]) => q = p
    /\ \A s, t \in ResolveRequest : InFlight(resolve[s]) /\ InFlight(resolve[t]) => s = t
    /\ \A e, d \in Evaluation : InFlight(evaluation[e]) /\ InFlight(evaluation[d]) => e = d
    /\ (\E f \in FundRequest : InFlight(fund[f])) =>
         /\ \A q \in ChallengeRequest : ~InFlight(contest[q])
         /\ \A s \in ResolveRequest : ~InFlight(resolve[s])
         /\ \A e \in Evaluation : ~InFlight(evaluation[e])
    /\ (\E q \in ChallengeRequest : InFlight(contest[q])) =>
         /\ \A s \in ResolveRequest : ~InFlight(resolve[s])
         /\ \A e \in Evaluation : ~InFlight(evaluation[e])
    /\ (\E s \in ResolveRequest : InFlight(resolve[s])) =>
         \A e \in Evaluation : ~InFlight(evaluation[e])

LEMMA OneOnly == OneInFlight => Alone
<1> SUFFICES ASSUME OneInFlight PROVE Alone
  OBVIOUS
<1> DEFINE funds == {f \in FundRequest : InFlight(fund[f])}
           contests == {q \in ChallengeRequest : InFlight(contest[q])}
           resolves == {s \in ResolveRequest : InFlight(resolve[s])}
           evaluations == {e \in Evaluation : InFlight(evaluation[e])}
<1>1. \A p, q \in funds \cup contests \cup resolves \cup evaluations : p = q
  BY DEF OneInFlight
<1>2. /\ funds \cap contests = {} /\ funds \cap resolves = {} /\ funds \cap evaluations = {}
      /\ contests \cap resolves = {} /\ contests \cap evaluations = {}
      /\ resolves \cap evaluations = {}
  BY WritersDiffer, RequestsDiffer
<1> QED  BY <1>1, <1>2 DEF Alone

LEMMA OneOnlyNext == OneInFlight' => Alone'
BY OneOnly, PTL

LEMMA SerialCreate ==
    ASSUME SerialInv, NEW b \in Bond, CreateBond(b)
    PROVE  /\ Atomic!Next
           /\ FundSeesNow' /\ ContestSeesNow' /\ ResolveSeesNow' /\ EvaluationSeesNow'
           /\ NeverFunded'
<1> USE DEF SerialInv, IndInv
<1>1. /\ bond[b] = "absent" /\ bond' = [bond EXCEPT ![b] = "draft"]
      /\ UNCHANGED <<challenge, resolutions, fund, contest, resolve, evaluation>>
  BY DEF CreateBond, services, requests
<1>2. /\ bond'[b] = "draft" /\ \A a \in Bond \ {b} : bond'[a] = bond[a]
  BY <1>1 DEF TypeOK
<1>3. Atomic!Next
  BY <1>1 DEF Atomic!Next, Atomic!Create
<1>4. FundSeesNow'
  BY <1>1, <1>2 DEF FundSeesNow, FundsInv, InFlight
<1>5. ContestSeesNow'
  BY <1>1, <1>2 DEF ContestSeesNow, ContestsInv, InFlight
<1>6. ResolveSeesNow'
  BY <1>1, <1>2
     DEF ResolveSeesNow, ResolvesInv, ChallengesOnFundedBonds, Funded, Exists, InFlight
<1>7. EvaluationSeesNow'
  BY <1>1, <1>2 DEF EvaluationSeesNow, EvaluationsInv, InFlight
<1>8. NeverFunded'
  BY <1>1, <1>2 DEF NeverFunded
<1> QED  BY <1>3, <1>4, <1>5, <1>6, <1>7, <1>8

\* What the requests have loaded is still so, and a step of the tables is one of
\* AtomicBonds.
SeeNow == FundSeesNow /\ ContestSeesNow /\ ResolveSeesNow /\ EvaluationSeesNow /\ NeverFunded

\* Only the funding request f is, or was, in flight.
LEMMA SerialFunding ==
    ASSUME SerialInv, OneInFlight', NEW f \in FundRequest,
           (\E b \in Bond : FundRead(f, b)) \/ FundMint(f) \/ FundCommit(f)
    PROVE  (Atomic!Next \/ UNCHANGED Atomic!tables) /\ SeeNow'
<1> USE DEF SerialInv, IndInv
<1>1. Alone /\ Alone'
  BY OneOnly, OneOnlyNext
<1>2. InFlight(fund[f]) \/ InFlight(fund'[f])
  BY DEF FundRead, FundMint, FundCommit, InFlight, TypeOK
<1>3. /\ UNCHANGED <<challenge, resolutions, contest, resolve, evaluation>>
      /\ \A g \in FundRequest \ {f} : fund'[g] = fund[g]
  BY DEF FundRead, FundMint, FundCommit, database, services, TypeOK
<1>4. /\ \A g \in FundRequest \ {f} : ~InFlight(fund'[g])
      /\ \A q \in ChallengeRequest : ~InFlight(contest'[q])
      /\ \A s \in ResolveRequest : ~InFlight(resolve'[s])
      /\ \A e \in Evaluation : ~InFlight(evaluation'[e])
  BY <1>1, <1>2, <1>3 DEF Alone, InFlight
<1>5. ContestSeesNow' /\ ResolveSeesNow' /\ EvaluationSeesNow'
  BY <1>4 DEF ContestSeesNow, ResolveSeesNow, EvaluationSeesNow, InFlight
<1>6. CASE \E b \in Bond : FundRead(f, b)
  <2>1. PICK b \in Bond : FundRead(f, b)
    BY <1>6
  <2>2. bond' = bond /\ bond[b] = "draft" /\ fund'[f].bond = b
    BY <2>1 DEF FundRead, database, TypeOK
  <2>3. FundSeesNow'
    BY <1>4, <2>2 DEF FundSeesNow, InFlight
  <2>4. NeverFunded' /\ UNCHANGED Atomic!tables
    BY <1>3, <2>2 DEF NeverFunded, Atomic!tables
  <2> QED  BY <1>5, <2>3, <2>4 DEF SeeNow
<1>7. CASE FundMint(f)
  <2>1. bond' = bond /\ fund[f].at = "minting" /\ fund'[f].bond = fund[f].bond
    BY <1>7 DEF FundMint, database, TypeOK, FundLocal
  <2>2. FundSeesNow'
    BY <1>4, <2>1 DEF FundSeesNow, InFlight
  <2>3. NeverFunded' /\ UNCHANGED Atomic!tables
    BY <1>3, <2>1 DEF NeverFunded, Atomic!tables
  <2> QED  BY <1>5, <2>2, <2>3 DEF SeeNow
<1>8. CASE FundCommit(f)
  <2>1. fund[f].bond \in Bond /\ bond[fund[f].bond] = "draft"
    BY <1>8 DEF FundCommit, FundSeesNow, FundsInv, InFlight
  <2>2. bond' = [bond EXCEPT ![fund[f].bond] = "active"]
    BY <1>8 DEF FundCommit, Flushed
  <2>3. Atomic!Next
    BY <1>3, <2>1, <2>2 DEF Atomic!Next, Atomic!Fund
  <2>4. ~InFlight(fund'[f])
    BY <1>8 DEF FundCommit, TypeOK, FundLocal, InFlight
  <2>5. FundSeesNow'
    BY <1>4, <2>4 DEF FundSeesNow, InFlight
  <2>6. NeverFunded'
    BY <2>2 DEF NeverFunded, TypeOK
  <2> QED  BY <1>5, <2>3, <2>5, <2>6 DEF SeeNow
<1> QED  BY <1>6, <1>7, <1>8

LEMMA SerialContesting ==
    ASSUME SerialInv, OneInFlight', NEW q \in ChallengeRequest,
           (\E b \in Bond : ChallengeRead(q, b)) \/ (\E c \in Challenge : ChallengeCommit(q, c))
    PROVE  (Atomic!Next \/ UNCHANGED Atomic!tables) /\ SeeNow'
<1> USE DEF SerialInv, IndInv
<1>1. Alone /\ Alone'
  BY OneOnly, OneOnlyNext
<1>2. InFlight(contest[q]) \/ InFlight(contest'[q])
  BY DEF ChallengeRead, ChallengeCommit, InFlight, TypeOK
<1>3. /\ UNCHANGED <<resolutions, fund, resolve, evaluation>>
      /\ \A p \in ChallengeRequest \ {q} : contest'[p] = contest[p]
  BY DEF ChallengeRead, ChallengeCommit, database, services, TypeOK
<1>4. /\ \A p \in ChallengeRequest \ {q} : ~InFlight(contest'[p])
      /\ \A f \in FundRequest : ~InFlight(fund'[f])
      /\ \A s \in ResolveRequest : ~InFlight(resolve'[s])
      /\ \A e \in Evaluation : ~InFlight(evaluation'[e])
  BY <1>1, <1>2, <1>3 DEF Alone, InFlight
<1>5. FundSeesNow' /\ ResolveSeesNow' /\ EvaluationSeesNow'
  BY <1>4 DEF FundSeesNow, ResolveSeesNow, EvaluationSeesNow, InFlight
<1>6. CASE \E b \in Bond : ChallengeRead(q, b)
  <2>1. PICK b \in Bond : ChallengeRead(q, b)
    BY <1>6
  <2>2. /\ UNCHANGED <<bond, challenge>> /\ bond[b] \in {"active", "breach_pending"}
        /\ contest'[q].bond = b /\ contest'[q].sawBond = bond[b]
    BY <2>1 DEF ChallengeRead, database, TypeOK
  <2>3. ContestSeesNow'
    BY <1>4, <2>2 DEF ContestSeesNow, InFlight
  <2>4. NeverFunded' /\ UNCHANGED Atomic!tables
    BY <1>3, <2>2 DEF NeverFunded, Atomic!tables
  <2> QED  BY <1>5, <2>3, <2>4 DEF SeeNow
<1>7. CASE \E c \in Challenge : ChallengeCommit(q, c)
  <2>1. PICK c \in Challenge : ChallengeCommit(q, c)
    BY <1>7
  <2> DEFINE b == contest[q].bond
  <2>2. /\ b \in Bond /\ contest[q].sawBond = bond[b]
        /\ bond[b] \in {"active", "breach_pending"}
    BY <2>1 DEF ChallengeCommit, ContestSeesNow, ContestsInv, InFlight
  <2>3. bond' = [bond EXCEPT ![b] = "breach_pending"]
    BY <2>1, <2>2 DEF ChallengeCommit, Flushed, TypeOK
  <2>4. /\ challenge[c].state = "absent"
        /\ challenge' = [challenge EXCEPT ![c] =
                           [bond |-> b, state |-> "verifying", resolved_at |-> "null"]]
    BY <2>1 DEF ChallengeCommit
  <2>5. Atomic!Contest(b, c)
    BY <1>3, <2>2, <2>3, <2>4 DEF Atomic!Contest
  <2>6. Atomic!Next
    BY <2>2, <2>5 DEF Atomic!Next
  <2>7. ~InFlight(contest'[q])
    BY <2>1 DEF ChallengeCommit, TypeOK, ContestLocal, InFlight
  <2>8. ContestSeesNow'
    BY <1>4, <2>7 DEF ContestSeesNow, InFlight
  <2>9. NeverFunded'
    BY <2>3 DEF NeverFunded, TypeOK
  <2> QED  BY <1>5, <2>6, <2>8, <2>9 DEF SeeNow
<1> QED  BY <1>6, <1>7

LEMMA SerialResolving ==
    ASSUME SerialInv, OneInFlight', NEW s \in ResolveRequest,
           \/ \E c \in Challenge, action \in UserAction : ResolveReadChallenge(s, c, action)
           \/ ResolveReadBond(s) \/ ResolveMint(s) \/ ResolveCommit(s)
    PROVE  (Atomic!Next \/ UNCHANGED Atomic!tables) /\ SeeNow'
<1> USE DEF SerialInv, IndInv
<1>1. Alone /\ Alone'
  BY OneOnly, OneOnlyNext
<1>2. InFlight(resolve[s]) \/ InFlight(resolve'[s])
  BY DEF ResolveReadChallenge, ResolveReadBond, ResolveMint, ResolveCommit, InFlight, TypeOK
<1>3. /\ UNCHANGED <<fund, contest, evaluation>>
      /\ \A t \in ResolveRequest \ {s} : resolve'[t] = resolve[t]
  BY DEF ResolveReadChallenge, ResolveReadBond, ResolveMint, ResolveCommit, database, TypeOK
<1>4. /\ \A t \in ResolveRequest \ {s} : ~InFlight(resolve'[t])
      /\ \A f \in FundRequest : ~InFlight(fund'[f])
      /\ \A q \in ChallengeRequest : ~InFlight(contest'[q])
      /\ \A e \in Evaluation : ~InFlight(evaluation'[e])
  BY <1>1, <1>2, <1>3 DEF Alone, InFlight
<1>5. FundSeesNow' /\ ContestSeesNow' /\ EvaluationSeesNow'
  BY <1>4 DEF FundSeesNow, ContestSeesNow, EvaluationSeesNow, InFlight
<1>6. CASE \E c \in Challenge, action \in UserAction : ResolveReadChallenge(s, c, action)
  <2>1. PICK c \in Challenge, action \in UserAction : ResolveReadChallenge(s, c, action)
    BY <1>6
  <2>2. /\ UNCHANGED <<bond, challenge, resolutions>> /\ resolve'[s].at = "reading"
        /\ resolve'[s].challenge = c /\ resolve'[s].sawChallenge = challenge[c].state
    BY <2>1 DEF ResolveReadChallenge, database, TypeOK
  <2>3. ResolveSeesNow'
    BY <1>4, <2>2 DEF ResolveSeesNow, InFlight
  <2>4. NeverFunded' /\ UNCHANGED Atomic!tables
    BY <2>2 DEF NeverFunded, Atomic!tables
  <2> QED  BY <1>5, <2>3, <2>4 DEF SeeNow
<1>7. CASE ResolveReadBond(s)
  <2>1. /\ UNCHANGED <<bond, challenge, resolutions>> /\ resolve[s].at = "reading"
        /\ resolve'[s].challenge = resolve[s].challenge
        /\ resolve'[s].sawChallenge = resolve[s].sawChallenge
        /\ resolve'[s].sawBond = bond[challenge[resolve[s].challenge].bond]
    BY <1>7 DEF ResolveReadBond, database, TypeOK, ResolveLocal
  <2>2. ResolveSeesNow'
    BY <1>4, <2>1 DEF ResolveSeesNow, InFlight
  <2>3. NeverFunded' /\ UNCHANGED Atomic!tables
    BY <2>1 DEF NeverFunded, Atomic!tables
  <2> QED  BY <1>5, <2>2, <2>3 DEF SeeNow
<1>8. CASE ResolveMint(s)
  <2>1. /\ UNCHANGED <<bond, challenge, resolutions>> /\ resolve[s].at = "minting"
        /\ resolve'[s].challenge = resolve[s].challenge
        /\ resolve'[s].sawChallenge = resolve[s].sawChallenge
        /\ resolve'[s].sawBond = resolve[s].sawBond
    <3>1. PICK reply \in MintReply :
            resolve' = [resolve EXCEPT
                          ![s].at = IF Minted(reply) THEN "committing" ELSE "done",
                          ![s].receipt = ReceiptOf(reply)]
      BY <1>8 DEF ResolveMint
    <3>2. resolve[s] \in ResolveLocal /\ resolve[s].at = "minting"
      BY <1>8 DEF ResolveMint, TypeOK
    <3>3. UNCHANGED <<bond, challenge, resolutions>>
      BY <1>8 DEF ResolveMint, database
    <3> QED  BY <3>1, <3>2, <3>3 DEF TypeOK, ResolveLocal
  <2>2. ResolveSeesNow'
    BY <1>4, <2>1 DEF ResolveSeesNow, InFlight
  <2>3. NeverFunded' /\ UNCHANGED Atomic!tables
    BY <2>1 DEF NeverFunded, Atomic!tables
  <2> QED  BY <1>5, <2>2, <2>3 DEF SeeNow
<1>9. CASE ResolveCommit(s)
  <2> DEFINE r == resolve[s]
             c == r.challenge
             b == challenge[c].bond
  <2>1. /\ r.at = "committing" /\ InFlight(r) /\ r \in ResolveLocal
        /\ c \in Challenge /\ Exists(c) /\ b \in Bond /\ challenge[c] \in ChallengeRow
    BY <1>9 DEF ResolveCommit, InFlight, TypeOK, ResolvesInv, ChallengesOnFundedBonds
  <2>2. r.sawChallenge = challenge[c].state /\ r.sawBond = bond[b]
    BY <2>1 DEF ResolveSeesNow
  <2>3. bond' = [bond EXCEPT ![b] = Outcome(r.action)]
    BY <1>9, <2>1, <2>2 DEF ResolveCommit, Flushed, TypeOK
  <2>4. challenge' = [challenge EXCEPT ![c].state = "rejected", ![c].resolved_at = "set"]
    BY <1>9, <2>1, <2>2 DEF ResolveCommit, Flushed, TypeOK, ChallengeRow
  <2>5. Atomic!Recorded(c, r.action)
    BY <1>9, <2>1 DEF ResolveCommit, Atomic!Recorded, ResolveLocal, ReceiptId
  <2>6. ASSUME r.action = "release" PROVE Atomic!Next
    <3>1. Atomic!Release(c)
      BY <2>1, <2>3, <2>4, <2>5, <2>6 DEF Atomic!Release, Atomic!Closed, Outcome, Exists
    <3> QED  BY <2>1, <3>1 DEF Atomic!Next
  <2>7. ASSUME r.action = "dismiss" PROVE Atomic!Next
    <3>1. Atomic!Dismiss(c)
      BY <2>1, <2>3, <2>4, <2>5, <2>7 DEF Atomic!Dismiss, Atomic!Closed, Outcome, Exists
    <3> QED  BY <2>1, <3>1 DEF Atomic!Next
  <2>8. Atomic!Next
    BY <2>1, <2>6, <2>7 DEF ResolveLocal, UserAction
  <2>9. ~InFlight(resolve'[s])
    BY <1>9 DEF ResolveCommit, TypeOK, ResolveLocal, InFlight
  <2>10. ResolveSeesNow'
    BY <1>4, <2>9 DEF ResolveSeesNow, InFlight
  <2>11. NeverFunded'
    BY <2>3 DEF NeverFunded, TypeOK, Outcome
  <2> QED  BY <1>5, <2>8, <2>10, <2>11 DEF SeeNow
<1> QED  BY <1>6, <1>7, <1>8, <1>9

LEMMA SerialSlashing ==
    ASSUME SerialInv, OneInFlight', NEW e \in Evaluation,
           \/ \E b \in Bond : EvaluateRead(e, b)
           \/ \E c \in Challenge : EvaluateOpen(e, c)
           \/ EvaluateMint(e) \/ EvaluateAuthorize(e) \/ SlashCommit(e)
    PROVE  (Atomic!Next \/ UNCHANGED Atomic!tables) /\ SeeNow'
<1> USE DEF SerialInv, IndInv
<1>1. Alone /\ Alone'
  BY OneOnly, OneOnlyNext
<1>2. InFlight(evaluation[e]) \/ InFlight(evaluation'[e])
  BY DEF EvaluateRead, EvaluateOpen, EvaluateMint, EvaluateAuthorize, SlashCommit, InFlight,
         TypeOK, EvaluationLocal
<1>3. /\ UNCHANGED <<fund, contest, resolve>>
      /\ \A d \in Evaluation \ {e} : evaluation'[d] = evaluation[d]
  BY DEF EvaluateRead, EvaluateOpen, EvaluateMint, EvaluateAuthorize, SlashCommit, database, TypeOK
<1>4. /\ \A d \in Evaluation \ {e} : ~InFlight(evaluation'[d])
      /\ \A f \in FundRequest : ~InFlight(fund'[f])
      /\ \A q \in ChallengeRequest : ~InFlight(contest'[q])
      /\ \A s \in ResolveRequest : ~InFlight(resolve'[s])
  BY <1>1, <1>2, <1>3 DEF Alone, InFlight
<1>5. FundSeesNow' /\ ContestSeesNow' /\ ResolveSeesNow'
  BY <1>4 DEF FundSeesNow, ContestSeesNow, ResolveSeesNow, InFlight
<1>6. CASE \E b \in Bond : EvaluateRead(e, b)
  <2>1. PICK b \in Bond : EvaluateRead(e, b)
    BY <1>6
  <2>2. /\ UNCHANGED <<bond, challenge, resolutions>> /\ bond[b] = "active"
        /\ evaluation'[e].at = "opening" /\ evaluation'[e].bond = b
    BY <2>1 DEF EvaluateRead, database, TypeOK, EvaluationLocal, NeverFunded
  <2>3. EvaluationSeesNow'
    BY <1>4, <2>2 DEF EvaluationSeesNow, InFlight
  <2>4. NeverFunded' /\ UNCHANGED Atomic!tables
    BY <2>2 DEF NeverFunded, Atomic!tables
  <2> QED  BY <1>5, <2>3, <2>4 DEF SeeNow
<1>7. CASE \E c \in Challenge : EvaluateOpen(e, c)
  <2>1. PICK c \in Challenge : EvaluateOpen(e, c)
    BY <1>7
  <2> DEFINE b == evaluation[e].bond
  <2>2. /\ b \in Bond /\ bond[b] = "active" /\ UNCHANGED <<bond, resolutions>>
    BY <2>1 DEF EvaluateOpen, EvaluationSeesNow, EvaluationsInv, InFlight
  <2>3. /\ challenge[c].state = "absent"
        /\ challenge' = [challenge EXCEPT ![c] =
                           [bond |-> b, state |-> "pending", resolved_at |-> "null"]]
    BY <2>1 DEF EvaluateOpen
  <2>4. Atomic!Suspect(b, c)
    BY <2>2, <2>3 DEF Atomic!Suspect
  <2>5. Atomic!Next
    BY <2>2, <2>4 DEF Atomic!Next
  <2>6. evaluation'[e].bond = b /\ evaluation'[e].challenge = c
    BY <2>1 DEF EvaluateOpen, TypeOK, EvaluationLocal
  <2>7. challenge'[c].state = "pending"
    BY <2>3 DEF TypeOK
  <2>8. EvaluationSeesNow'
    BY <1>4, <2>2, <2>6, <2>7 DEF EvaluationSeesNow, InFlight
  <2>9. NeverFunded'
    BY <2>2 DEF NeverFunded
  <2> QED  BY <1>5, <2>5, <2>8, <2>9 DEF SeeNow
<1>8. CASE EvaluateMint(e) \/ EvaluateAuthorize(e)
  <2>1. /\ UNCHANGED <<bond, challenge, resolutions>>
        /\ InFlight(evaluation[e]) /\ evaluation[e].at # "opening"
        /\ evaluation'[e].bond = evaluation[e].bond
        /\ evaluation'[e].challenge = evaluation[e].challenge
    <3>1. CASE EvaluateMint(e)
      <4>1. PICK reply \in MintReply :
              evaluation' = [evaluation EXCEPT
                               ![e].at = IF reply = "garbled" THEN "done" ELSE "authorizing",
                               ![e].receipt = ReceiptOf(reply)]
        BY <3>1 DEF EvaluateMint
      <4>2. evaluation[e] \in EvaluationLocal /\ evaluation[e].at = "minting"
        BY <3>1 DEF EvaluateMint, TypeOK
      <4>3. UNCHANGED <<bond, challenge, resolutions>>
        BY <3>1 DEF EvaluateMint, database
      <4> QED  BY <4>1, <4>2, <4>3 DEF TypeOK, EvaluationLocal, InFlight
    <3>2. CASE EvaluateAuthorize(e)
      BY <3>2 DEF EvaluateAuthorize, database, TypeOK, EvaluationLocal, InFlight
    <3> QED  BY <1>8, <3>1, <3>2
  <2>2. EvaluationSeesNow'
    BY <1>4, <2>1 DEF EvaluationSeesNow, InFlight
  <2>3. NeverFunded' /\ UNCHANGED Atomic!tables
    BY <2>1 DEF NeverFunded, Atomic!tables
  <2> QED  BY <1>5, <2>2, <2>3 DEF SeeNow
<1>9. CASE SlashCommit(e)
  <2> DEFINE v == evaluation[e]
             c == v.challenge
  <2>1. /\ v.at = "committing" /\ InFlight(v) /\ v \in EvaluationLocal
        /\ c \in Challenge /\ v.bond \in Bond /\ challenge[c].bond = v.bond
    BY <1>9 DEF SlashCommit, InFlight, TypeOK, EvaluationsInv
  <2>2. bond[v.bond] = "active" /\ challenge[c].state = "pending"
    BY <2>1 DEF EvaluationSeesNow
  <2>3. /\ bond' = [bond EXCEPT ![v.bond] = "slashed"]
        /\ challenge' = [challenge EXCEPT ![c].state = "upheld", ![c].resolved_at = "set"]
    BY <1>9 DEF SlashCommit
  <2>4. Atomic!Recorded(c, "slash")
    BY <1>9, <2>1 DEF SlashCommit, Atomic!Recorded, EvaluationLocal, ReceiptId
  <2>5. Atomic!Slash(c)
    BY <2>1, <2>2, <2>3, <2>4 DEF Atomic!Slash, Atomic!Closed
  <2>6. Atomic!Next
    BY <2>1, <2>5 DEF Atomic!Next
  <2>7. ~InFlight(evaluation'[e])
    BY <1>9 DEF SlashCommit, TypeOK, EvaluationLocal, InFlight
  <2>8. EvaluationSeesNow'
    BY <1>4, <2>7 DEF EvaluationSeesNow, InFlight
  <2>9. NeverFunded'
    BY <2>3 DEF NeverFunded, TypeOK
  <2> QED  BY <1>5, <2>6, <2>8, <2>9 DEF SeeNow
<1> QED  BY <1>6, <1>7, <1>8, <1>9

LEMMA SerialAbandon ==
    ASSUME SerialInv, Abandon PROVE UNCHANGED Atomic!tables /\ SeeNow'
<1> USE DEF SerialInv, IndInv
<1>1. UNCHANGED <<bond, challenge, resolutions>>
  BY DEF Abandon, database
<1>2. /\ \A f \in FundRequest : fund'[f] = fund[f] \/ ~InFlight(fund'[f])
      /\ \A q \in ChallengeRequest : contest'[q] = contest[q] \/ ~InFlight(contest'[q])
      /\ \A s \in ResolveRequest : resolve'[s] = resolve[s] \/ ~InFlight(resolve'[s])
      /\ \A e \in Evaluation : evaluation'[e] = evaluation[e] \/ ~InFlight(evaluation'[e])
  BY DEF Abandon, TypeOK, FundLocal, ContestLocal, ResolveLocal, EvaluationLocal, InFlight
<1>3. FundSeesNow'
  BY <1>1, <1>2 DEF FundSeesNow, InFlight
<1>4. ContestSeesNow'
  BY <1>1, <1>2 DEF ContestSeesNow, InFlight
<1>5. ResolveSeesNow'
  BY <1>1, <1>2 DEF ResolveSeesNow, InFlight
<1>6. EvaluationSeesNow'
  BY <1>1, <1>2 DEF EvaluationSeesNow, InFlight
<1>7. NeverFunded' /\ UNCHANGED Atomic!tables
  BY <1>1 DEF NeverFunded, Atomic!tables
<1> QED  BY <1>3, <1>4, <1>5, <1>6, <1>7 DEF SeeNow

LEMMA SerialStep ==
    SerialInv /\ [SerialNext]_vars => SerialInv' /\ [Atomic!Next]_(Atomic!tables)
<1> SUFFICES ASSUME SerialInv, [SerialNext]_vars
             PROVE  SerialInv' /\ [Atomic!Next]_(Atomic!tables)
  OBVIOUS
<1>1. IndInv'
  BY NextInv DEF SerialInv, SerialNext
<1>2. CASE SerialNext
  <2>1. Next /\ OneInFlight'
    BY <1>2 DEF SerialNext
  <2> SUFFICES (Atomic!Next \/ UNCHANGED Atomic!tables) /\ SeeNow'
    BY <1>1, <2>1 DEF SerialInv, SeeNow
  <2>2. CASE \E b \in Bond : CreateBond(b)
    BY <2>2, SerialCreate DEF SeeNow
  <2>3. CASE Funding
    BY <2>1, <2>3, SerialFunding DEF Funding
  <2>4. CASE Contesting
    BY <2>1, <2>4, SerialContesting DEF Contesting
  <2>5. CASE Resolving
    BY <2>1, <2>5, SerialResolving DEF Resolving
  <2>6. CASE Slashing
    BY <2>1, <2>6, SerialSlashing DEF Slashing
  <2>7. CASE Abandon
    BY <2>7, SerialAbandon
  <2> QED  BY <2>1, <2>2, <2>3, <2>4, <2>5, <2>6, <2>7 DEF Next
<1>3. CASE UNCHANGED vars
  <2>1. OneInFlight'
    BY <1>3 DEF SerialInv, OneInFlight, InFlight, vars
  <2>2. SeeNow'
    BY <1>3 DEF SerialInv, SeeNow, FundSeesNow, ContestSeesNow, ResolveSeesNow,
                EvaluationSeesNow, NeverFunded, InFlight, vars
  <2>3. UNCHANGED Atomic!tables
    BY <1>3 DEF vars, Atomic!tables
  <2> QED  BY <1>1, <2>1, <2>2, <2>3 DEF SerialInv, SeeNow
<1> QED  BY <1>2, <1>3

\* ImplementsAtomicBonds: requests that do not overlap, whichever of them fail or die and
\* wherever, are the atomic operations of AtomicBonds: each test a request has made still
\* holds when it commits.
THEOREM SerialImplementsAtomic == SerialSpec => ImplementsAtomicBonds
<1>1. Init => SerialInv /\ Atomic!Init
  <2> SUFFICES ASSUME Init PROVE SerialInv /\ Atomic!Init
    OBVIOUS
  <2>1. /\ \A f \in FundRequest : ~InFlight(fund[f])
        /\ \A q \in ChallengeRequest : ~InFlight(contest[q])
        /\ \A s \in ResolveRequest : ~InFlight(resolve[s])
        /\ \A e \in Evaluation : ~InFlight(evaluation[e])
    BY DEF Init, InFlight
  <2>2. OneInFlight
    BY <2>1 DEF OneInFlight
  <2>3. FundSeesNow /\ ContestSeesNow /\ ResolveSeesNow /\ EvaluationSeesNow /\ NeverFunded
    BY <2>1 DEF FundSeesNow, ContestSeesNow, ResolveSeesNow, EvaluationSeesNow, NeverFunded, Init
  <2>4. Atomic!Init
    BY DEF Init, Atomic!Init
  <2> QED  BY <2>2, <2>3, <2>4, InitInv DEF SerialInv
<1> QED  BY <1>1, SerialStep, PTL DEF SerialSpec, ImplementsAtomicBonds, Atomic!Spec

=============================================================================
