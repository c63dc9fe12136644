# Veklom VNP in TLA+

A verification development for the VNP service (`src/app`): a FastAPI
application over PostgreSQL that collects signed measurements from five physical
nodes, bills usage, verifies providers and tests their services, keeps performance
bonds of API providers, and shows what it has measured. The modules here are
translated from that code; TLC checks them on small instances, and TLAPS proves every
safety property that passes there, and both refinements, for all instances.

Paths below are relative to `src/`.

## 1. The system

All requests are coroutines of one event loop, each with a database session of
its own (`app/db/database.py`). There are no application locks. Every hard
behaviour of the service comes from one fact: **between two awaits of a request
anything else may commit**, and requests write what they computed from objects
they loaded before. The database runs READ COMMITTED, no row has a version
column, no query says `FOR UPDATE`, `expire_on_commit` is off, and the ORM leaves
out of an UPDATE every column whose attribute is assigned the value it was loaded
with.

| Component | State | Operations | Interacts with | What is hard | What makes it correct |
|---|---|---|---|---|---|
| Staking router (`app/api/routers/staking.py`) | bonds, challenges, evidence, resolutions | create, fund, challenge, resolve | PGL (receipt before commit), slashing engine (same rows) | stale objects written over newer rows; a mint that fails, hangs or loses its answer | receipts exist for what they certify; state, resolutions and dates agree; nothing gets stuck |
| Slashing engine (`app/services/slashing_engine.py`) | the same rows | evaluate, execute, commit | PGL, CAPPO | three awaits between the test and the write; swallowed errors | no slash without CAPPO; a slash is recorded |
| PGL client (`app/pgl/client.py`) | none (PGL keeps the receipts) | mint | PGL over HTTP | timeouts, garbled replies | an error never passes for a receipt |
| Observation batches (`app/api/routers/vnp_ingest.py:333`) | observations, rejections, node rows | ingest a batch | heartbeats (same node row), unique index, row locks | overlapping and repeated batches, one commit for many rows, lock order | chains rooted and intact; each observation accepted once, none lost |
| Heartbeats (`vnp_ingest.py:161`) | heartbeats, node rows | ingest a heartbeat | observation batches | the same node row written from two stale copies | the row says only what evidence carries |
| Probe and usage events (`vnp_ingest.py:242`, `:522`) | probe events, usage events | ingest a batch | unique event ids and their locks | an abort half-way, repeated batches, opposite orders | nothing billed twice; an answer means stored |
| Provider claims (`app/api/routers/claims.py`) | claims, claimed APIs | create, poll, verify, status | DNS, mail, a polling task per claim | task against endpoint, expiry, stops | what is called verified has its API, and stays verified while valid |
| VABP (`app/api/routers/vabp.py`) | runs, results, certificates | start, execute in background, read, certify | request session reused by the task | torn reads, duplicate certificates | reports and certificates say what was tested |
| Measurement windows (`app/core/measurement.py`) | windows | finalize | observations, PGL | observations that commit or are rolled back after the count | a stored window is backed by observations and by its event at PGL |
| Probe cache (`app/batch/ingest.py`, `app/cache/probe_cache.py`) | Redis keys with a time to live | batch ingest | Redis | get and set are two commands; keys expire | a probe is new once while cached, races excepted |
| Streaming (`app/api/routers/vnp_stream.py`) | list of connections | connect, acknowledge, poll, broadcast | telemetry table, SSE clients | the list changes while a broadcast awaits | nobody is sent an update twice, all are reached while none leaves |
| Capability status (`app/api/routers/status.py`) | none | report | database, BYOS service | several statements and answers, loss of the database in between | a report is whole, of one mind, and shows dates of rows it counted |
| Nexus views and badges (`nexus.py`, `badges.py`) | none | node view, score cards, badges | tables of telemetry | several statements over moving tables; roundings | an entry does not contradict itself; better figures never look worse |
| Configuration and startup (`app/core/config.py`, `app/main.py`) | settings, mounted routes | import, mount, validate, check, restart | environment, database, container restarts | set up before it is validated; outages | production serves nothing unsafe, and comes up when it can |
| SDK templates and MCP server (`vnp-mcp/`) | score cache of the selector | select | the service | a cache that expires between lookup and use | no stale score; no better candidate left out |
| Frontend, migrations, demo runtime, target profiles, event verification, deployment scripts | | | | | not modelled, see section 5 |

`PROJECT.json` lists every component with its status, and every hazard we see in
the code at the line where it bites, with the properties about it or the reason
there is none.

## 2. Modules

| Module | Models |
|---|---|
| `BondLedger` | staking router, slashing engine, PGL client, over the bond tables |
| `AtomicBonds` | what these promise when each operation is one indivisible step |
| `NodeTelemetry` | observation batches and heartbeats over observations, rejections, heartbeats and node rows |
| `MeasurementWindows` | finalization of windows; extends `NodeTelemetry` |
| `NodeRegistry` | the node view; extends `NodeTelemetry` |
| `EventIngest` | batches of probe events and usage events |
| `ProviderClaims` | claims, polling, verification, status |
| `ClaimRegistry` | what claiming promises when verification is one indivisible step |
| `VabpRuns` | test runs, reports, trust certificates |
| `ProbeCache` | batches over the Redis cache |
| `ScoreStream` | SSE and WebSocket feeds |
| `CapabilityStatus` | the capability report |
| `Scorecards` | score cards and badges |
| `StartupGate` | start, refusal and restart of the process |
| `ApiSelection` | the selector of the Python SDK template |
| `Orderings` | `sorted()` and list comprehensions, for the modules that list, rank or take things off a list |
| `MCBondLedger`, `MCNodeTelemetry`, `MCTelemetryReaders`, `MCInbound`, `MCOutbound` | instances for TLC; `ProviderClaims` and `VabpRuns` are instantiated by their cfg alone |
| `BondLedgerProofs`, `NodeTelemetryProofs`, `ProviderClaimsProofs`, `VabpRunsProofs`, `ScorecardsProofs` | theorems about the module they are named for |
| `TelemetryReadersProofs`, `InboundProofs`, `OutboundProofs` | theorems about the modules that `MCTelemetryReaders`, `MCInbound` and `MCOutbound` hold |

A few modules hold forms of a definition that are marked "Mutated form": the same
code with a plausible bug. Nothing uses them; with one in place of the definition
after it, a property must fail, which shows that the property depends on that code.

### BondLedger

A request is a process. Its record holds what its handler has loaded and `at`, the
await it stands at; one action is the code from one await to the next:

| Code | Actions |
|---|---|
| `create_bond` | `CreateBond` (one commit) |
| `fund_bond` | `FundRead` (load, test draft), `FundMint` (PGL), `FundCommit` |
| `challenge_bond` | `ChallengeRead` (load, test), `ChallengeCommit` (challenge, evidence and bond in one commit; the evidence lookups lie in between) |
| `resolve_challenge` | `ResolveReadChallenge`, `ResolveReadBond` (two statements, two snapshots), `ResolveMint`, `ResolveCommit` |
| `SlashingEngine` | `EvaluateRead`, `EvaluateOpen` (its challenge is committed at once), `EvaluateMint`, `EvaluateAuthorize` (CAPPO), `SlashCommit` |
| any failure at an await | `Abandon`: what was not committed is rolled back |

`Flushed` is the rule about unchanged columns; it decides what a late writer
overwrites and is the reason `BreachHasOpenChallenge` holds. `Mint` lets PGL record
an event whose answer is lost (`unreachable` covers refusals, timeouts before and
after recording), return no id (replaced by a local one) or garble its answer (an
exception no caller catches). `EvaluateAuthorize` lets CAPPO authorize and lose the
answer. The sets `receipts` and `authorized` are what these two services have
recorded. A request its own tests refuse changes nothing and is no step.

The engine is not called from any module of the service, and production refuses to
start with autonomous slashing enabled (`app/core/config.py:82-88`); its runs
start at any time here, as its tests run it.

Abstracted: amounts, currencies, providers, conditions and evidence contents, which
nothing reads back; times, except whether `resolved_at` is set; authentication (the
endpoints have none).

### AtomicBonds

Create, fund, contest, suspect (the engine's challenge), release, dismiss and slash
as single steps that test the current rows. It is the specification a reader of the
endpoints has in mind. `ImplementsAtomicBonds` says that requests that do not overlap
(`SerialSpec`) implement it, failures half-way included, and is proved;
`bond_double_fund` shows that overlapping requests do not.

### NodeTelemetry

A batch request loops over its list. `RejectEnvelope` is the part of the loop body
before the first statement (schema, times, target). The first statement, the
duplicate check, flushes the session: `Flushable` says no other request in flight
holds the same observation id (unique index) or node row (UPDATE lock), and no
committed row has the id; then the item is a duplicate (`RejectDuplicate`) or is
looked up with its key and node (`LookUp`). `Decide` is the statement that reads
the latest observation of the chain with everything up to the end of the loop body.
`Finish` is the commit and the answer. `FlushFails` is the unique violation,
`DeadlockVictim` PostgreSQL's way out of a circular wait, `Abandon` any other
failure. The pending part of a session is at most one observation, because every
accepted one is followed by a statement that flushes it.

A heartbeat loads the node (`LoadNode`), compares with the stored heartbeats
(`Check`) and commits (`CommitBeat`), waiting for a batch that holds the row.

Observations are records chosen by the sender: id, chain (node and target),
sequence number, digest of the whole payload, digest of the predecessor, and what is
wrong with them (`envelope`, `identity`, `seal` for digest or signature). Digests are
names: equal exactly when payloads are. `last_seen_at` is kept as the evidence it
came from. Key and node are read in the same step as the duplicate check; they are
rows no endpoint changes, `health_state` excepted, whose value may be any that the
session could hold. A flush takes its index entries and row locks in one step; a
wait in the middle of a flush can only end in the failure of one of the two
requests, which `FlushFails` and `Abandon` cover.

### MeasurementWindows and NodeRegistry

Both read the tables of `NodeTelemetry` while its batches and heartbeats go on; that
composition is what they are about. `finalize_measurement_window` is `Aggregate` (one
statement and all the arithmetic, then the flush of the new row), `MintWindow` (every
outcome of PGL, as in `BondLedger`) and `CommitWindow`; `FinalizationDies` is a stop
at any of them. The window keeps the counts, the confidence band and its receipt;
percentiles are abstracted. Region codes go through the legacy map as the code does
it. No module under `src` calls the function: finalizations start at any time.

`GET /nexus/nodes` is `LoadNodes`, then `FindHeartbeat` and `CountProbes` for each
node in turn, and `Answer`. `CommitProbe` is a probe event some batch of
`EventIngest` commits, of which only the location matters here.

### EventIngest

One module for both endpoints, whose loops are alike: `Begin`, then per event one of
`AbortImplausible` (403, the whole batch is rolled back), `RejectFuture`,
`Deduplicate`, `RejectSignature`, `Accept`, and at the end `Commit` and `Answer`. The
lookup of an event flushes what was accepted before it, and with it takes the entries
in the unique index until the request ends; `FlushFails` is a unique violation or an
unstorable event, `DeadlockVictim` PostgreSQL's way out of a circular wait, `Die` any
other failure before the commit, `LoseAnswer` a stop or a lost reply after it: the batch
is stored and nobody is told. Requests repeat batches freely, which is what a sender
without an answer does, and `WholeOrNothing` and `BilledOnce` count every attempt that
committed, its answer lost or not.

### ProviderClaims and ClaimRegistry

`create_claim` is `CreateClaim` and `NameRecord`, its two commits, after which its
polling task starts, the worker named by the claim. The polling task and
`trigger_manual_verification` share their steps: `Load`,
`NoticeExpiry` (polling only), `Detect` or `Miss` (the lookup blocks the event loop,
so that it and the test after it are one step), `Flush`, `FindClaimedApi`,
`CommitVerified` or `CommitConflicts`, `CommitFailed`, `Mail`. A changed claim is
written, and its row locked, by the flush before the next query; waiting for a lock is
a guard. `ReadClaim` and `ReadOwner` are the status request. Expiry and DNS records
are variables of the world that only grow; a company that is verified has the record
it published. Tokens, names and mail contents are abstracted.

`ClaimRegistry` has `Ask`, `Publish` and `Verify`, in which the claim is verified and
its API registered if it is free. `ImplementsClaimRegistry` maps `verified` to the
claims ever told to be so, and is checked and proved with every failure included.

### VabpRuns

`start_vabp_run` is `StartRun`, the background task `ExecuteTests` and `CommitResults`
(results and completion in one commit), `ExecutionDies` its end by an error or a stop.
A report is `ReadRun` and `ReadResults`; a certificate `LoadRun`, `FindIssued` and
`Issue`, with `IssueDies`. The simulated tests are kept with their points, so that
totals and the threshold of 750 are the code's.

### ProbeCache, ScoreStream, CapabilityStatus, Scorecards

`ProbeCache`: `LookUp` and `Store` are the two commands of Redis, `Tick` the clock,
`Leave` the answer or an error. An entry expires when its time to live is over.

`ScoreStream`: `Connect` and `NoticeDisconnect` change the list in place; a broadcast
walks it by position (`Send`), as a Python list iterator does, so that a removal makes
it skip and an append makes it longer. `Poll`, `PollFails`, `StartBroadcast`, `Wake`
and `LeaveFeed` are the SSE generator. `ClientLeaves` is seen only by the next send or
receive, which `EndpointFails` covers. What an update says is left out.

`CapabilityStatus`: `AskMethodology`, then per capability `TakeMethodology` or `LeaveOut`
or the statements `CountRows` and `ReadNewest`, then `AskTopology`. `LoseDatabase` is the
exception handler, which makes all lines anew without the tables.

`Scorecards`: the arithmetic of the cards (clamping, whole percentages, `round` to
even), grades and tiers, and requests that load the APIs in one statement and the
newest row of each in another. Figures are integers in the units of the columns.

### StartupGate and ApiSelection

`StartupGate`: `ImportDatabase` (the URL is taken when the module is imported),
`MountRoutes`, `Validate` (with the demo switch first), `CheckDatabase`, `Serve`, in the
order of `main.py`; `Restart` is the restart policy of the compose file, `Deploy` a new
environment, `Die` a stop that is not a refusal. Settings are kept as far as a test of
the code tells them apart.

`ApiSelection`: `LookUp`, `Take`, `Fetch` or `FetchFails` per candidate,
`TakeExpired` when the entry expires in between, then `Choose` (filter, ranking,
fallback chain) or `NoScores`. After a `TakeExpired` the tasks of the other candidates
still run and fill the cache, and `Raise` ends the call with the error. The service may
give any score at any time. The age of a score is its age when it is taken: a slow fetch
of a later candidate makes it older by the choice, for which the code sets no limit.

`Orderings` defines the elements of a set in an order, and what a list keeps of a set, by
counting: the n-th is the one with n - 1 before it. The operators of the community
modules for both, `SortSeq` and `SelectSeq`, are recursive and unknown to the provers.

## 3. Runs

| Run | Question | Result |
|---|---|---|
| `bond_races` | do receipts, authorizations, resolutions and states stay consistent under two funds, two resolvers, a challenger and an evaluation of one bond, and can a bond in breach always be resolved | pass, 1.06 million states |
| `bond_serial` | do requests that do not overlap implement `AtomicBonds`, over two bonds | pass, 0.25 million states |
| `bond_double_fund` | does funding only take drafts | violated |
| `telemetry_races` | are chains rooted, nothing accepted twice or lost, node rows backed by evidence, and does every request end, with two batches, also over two nodes in opposite orders, and a heartbeat | pass, 0.15 million states, liveness |
| `telemetry_serial` | are chains intact when requests do not overlap | pass, 0.83 million states |
| `telemetry_fork` | are chains intact when batches overlap | violated |
| `telemetry_readers` | are windows backed by observations and receipts, and are entries of the node view coherent, beside two batches and a heartbeat | pass, 0.55 million states |
| `claim_races` | has everything called verified its API, does it stay so while valid, is it all `ClaimRegistry`, and does every task end | pass, 0.36 million states, refinement and liveness |
| `claim_polling` | is the record of a valid claim noticed without anybody asking for it | violated |
| `vabp_races` | are reports and certificates right while runs execute, stop, and are certified three times at once | pass, 0.3 million states |
| `inbound` | do answers and event tables agree, is usage billed once, does every batch end; is a cached probe new only by a race; does production serve only what is safe, and come up | pass, 0.12 million states, liveness |
| `outbound` | are cards and badges consistent, is the capability report whole and dated, are selections right, are broadcasts sent once and to all | pass, 0.77 million states |

The three violations are findings of `PROJECT.json`, each with the sentence of the
repository it contradicts.

**Composition.** `telemetry_readers`, `inbound` and `outbound` each hold several
components. The readers share the telemetry tables with their writers; the two readers
do not see each other, so a behaviour has one of them. The components of `inbound`, and
of `outbound`, share no state at all, and a behaviour has the steps of one of them:
interleaving independent components reaches no state of either that it does not
reach alone, and would only multiply the states.

**Bounds.** Requests, tasks and identifiers come from finite sets and are mostly
one-shot; where a cfg gives a number, it is one of these:

- Two requests of a kind exhibit every race between a read and a commit. Three
  certificate requests are there because the third meets two certificates; three
  connections, so that a broadcast has one before and one after the one that leaves;
  three batch requests in `telemetry_serial`, because a chain of three links needs them.
- One bond is enough for the races, since no action touches two; `bond_serial` has two.
- The telemetry lists contain every verdict of the chain check: a first report, a
  repetition, the same id signed again, a fork, a gap, a link to a lost payload, a
  report that does not begin its chain, and refusals of each kind. The event lists of
  `MCInbound` contain every fault, repetitions inside a list and opposite orders.
- `MaxAttempts` is 2 for the code's 360: the first attempt may go on, the last gives up.
  `ConfidentSamples` is 2 for the code's 10, so that both bands occur.
- `TTL` and `MaxTime` are 2 and 2 in `inbound`, 2 and 3 in `outbound`: an entry is looked
  up while it lives, expires between lookup and use, and is replaced.
- `MaxDeaths`, `MaxOutages` and `MaxDeploys` bound how often the process dies, the database
  goes and the container is deployed; `ComesUp` is about what follows the last.
- `MaxRows` is 2: a row can arrive before, between and after the two statements.
- The rows of `MCOutbound` lie on the limits: 59.5, which rounds to 60, the best and the
  worst figures, and a tier just missed.

What is proved (section 4) holds for all sizes, which is why those bounds need no
further argument. Symmetry is used only in runs without liveness, over names no
definition tells apart. Deadlock checking is off throughout because a model whose
requests are all spent has ended; where ending matters it is a liveness property.

**Fairness.** Weak fairness of the steps of every request in `NodeTelemetry`,
`EventIngest` and of every worker in `ProviderClaims`: the event loop resumes a
coroutine whose statement was answered, and PostgreSQL answers every statement that need
not wait and breaks deadlocks after a timeout. In `StartupGate` weak fairness of the
steps of a start, of the restart policy, and of the database's return, without which
nothing could come up. Nothing is assumed about nodes sending anything, about DNS
records, about when heartbeats, tasks or readers start, or about failures: all of
these may happen at any time or never.

**Met on the way and not a run.** Some disagreements need one request alone, or
show at the first look at the actions; a run would add nothing. With PGL unreachable a
slash is committed on an id PGL never issued. A challenge may land on a bond that was
released while its evidence was looked up. A dismissal reactivates whatever the bond is.
A polling task that still ran when its claim expired would mark it failed after a
manual verification; its attempts are normally over long before. A company is told it is
verified although its API is registered to another. Two certificate requests issue two
certificates, and every later one fails on them. One unstorable event fails its batch. An
observation that commits after the count is missed by a final window. A node is live by
its heartbeat with no observation. A broadcast skips a connection when an earlier one
leaves. Without an SSE client no WebSocket is sent anything, and a feed whose session broke
polls for nothing. BYOS' word overrides the counts of the database. An unset origin list
falls back to the built-in one, and the environment's name under its other spelling is not
seen by the database module. The fallback chain is one shorter than asked for when the
primary is counted, and a constraint on cost is ignored. The models contain all of these.

## 4. Proofs

Each proof module proves, for every value of the constants under the named assumptions,
that a specification implies an inductive invariant, and from it the listed properties.
Every invariant and action property of every passing run is among them, and so are both
refinements. TLC finds no state of the runs' instances outside an inductive invariant.

| Module | Assumptions | Theorems |
|---|---|---|
| `BondLedgerProofs` | `NoneIsFresh`, `WritersDiffer`, `RequestsDiffer` | `TypeCorrect`, `FundingIsReceipted`, `UserResolutionsAreReceipted`, `SlashingIsGoverned`, `SettlementIsRecorded`, `ClosingIsConsistent`, `BreachIsResolvable`; for requests that do not overlap `SerialImplementsAtomic` |
| `NodeTelemetryProofs` | `ObservationShape`, `HeartbeatShape`, `BatchShape`, `NamesDiffer` | `TypeCorrect`, `AcceptedAtMostOnce`, `ChainsRooted`, `NodeRowsHaveEvidence`, `NothingIsLost`; for requests that do not overlap `SerialChainsIntact` |
| `ProviderClaimsProofs` | `AttemptsAssumption`, `NamesAssumption` | `TypeCorrect`, `OwnerIsProved`, `VerifiedHasApi`, `VerifiedIsKept`, `Implements` |
| `VabpRunsProofs` | `NoneAssumption` | `TypeCorrect`, `ReportsComplete`, `CertificatesHonest` |
| `ScorecardsProofs` | `RowAssumption`, `NoneAssumption` | `TypeCorrect`, `ScoresWithinFigures`, `BetterRowsNotWorse`, `GoldPasses` |
| `TelemetryReadersProofs` | those of `NodeTelemetry`, `WindowAssumption`, `RegistryAssumption` | `WindowsAreBacked`, `EntriesHoldTogether`, `ReadersRun`, `ReadersTypeCorrect` |
| `InboundProofs` | `EventShape`, `ProbeAssumption`, `TTLAssumption`, `GateAssumption` | `TypeCorrect`, `AnswersAreTrue`, `BilledAtMostOnce`, `StoredWholeOrNot`, `CacheSkipsDuplicates`, `ProductionIsSafe`, `PartsRun`, `TypesCorrect` |
| `OutboundProofs` | `ByosAssumption`, `SelectionAssumption`, `TTLAssumption`, those of `Scorecards` | `BroadcastsSendOnce`, `ListsCoherent`, `BroadcastsReachAll`, `ReportsComplete`, `LinesDated`, `ScoresStayRecent`, `BestIsSelected`, `PartsRun`, `OutboundTypesCorrect` |

The assumptions say what shape the data of a request has, that what must tell things apart
is different (requests of two kinds, names and the `None` of no name), and that a time to
live is positive. They name no size: sets of requests, nodes or sockets may be infinite.

**BondLedger.** The safety properties are not inductive: they speak of the database, and
what breaks them is a request that commits something it decided earlier. `IndInv` adds
what a request in flight may rely on no matter what commits while it waits: challenges
exist only on bonds that were funded (`ChallengesOnFundedBonds`; no write ever takes a
bond back to draft), a request about to commit has its receipt (`FundsInv`,
`ResolvesInv`) or authorization (`EvaluationsInv`), the challenge of an evaluation is on
its bond, and a resolver that saw its challenge closed still finds it closed.
`BreachWitness` strengthens `BreachHasOpenChallenge` by the reason it holds: of a bond
in breach, the last challenge is open, and any resolver of it has seen the breach, so
its flush will write the bond out of it. The proof first gives the effect of each of the
few actions that write a row, which actions can write a table at all and what only
grows; each conjunct then has a lemma of its own that treats its writers.

`SerialImplementsAtomic` needs the reason that a test made at the beginning is still true
at the commit: `SerialInv` says that what the one request in flight has loaded is what the
rows say now (`FundSeesNow`, `ContestSeesNow`, `ResolveSeesNow`, `EvaluationSeesNow`). The
states of `AtomicBonds` are the bond tables themselves; each commit is one of its steps
and every other step leaves the tables alone. An evaluation has two commits, the challenge
and the slash, and they are two steps of it.

**NodeTelemetry.** `BatchesWellFormed` says what a request at each place has accepted,
flushed and rejected, and that an answered one has stored or recorded all of it.
`IdsHeld` is the unique index: no id flushed by one request is committed or flushed by
another. `ChainsHeld` says that what a session holds is rooted in it and in the
committed rows, which only grow. `SeenByAnswered` ties the node rows to what the
answered requests stored, and `BeatsHold` says that a request past its lookup
has a heartbeat to write; an UPDATE that leaves unchanged columns out keeps
`NodeRowHasEvidence` although it writes from a stale copy.

`SerialChainsIntact` adds that what the request in flight has accepted will leave every
chain intact (`KeepsIntact`), which the chain check provides for when nothing else commits
between it and the commit: with an overlap that is false, as `telemetry_fork` shows.

**Windows and the node view.** `FinalizationsBacked`: a row that was flushed is backed by
what is stored *now*, because stored observations only accumulate and what a batch has not
committed is not counted; it is at PGL before it is committed. `RowsBacked` and
`FoundForCurrent`: what an older snapshot showed of heartbeats is still there when a
younger one is taken, so that an entry put together from both does not contradict itself.
Counts are numbers because only finitely many observations are ever stored, although
infinitely many may exist (`FiniteSoFar`).

**Events, cache and startup.** `PassedKept` (what the loop has passed without rejecting is
in the table or in the session), `CommittedWhole` (a request that has committed, its answer
given or not, passed its whole list and has all of it stored), and `EntriesHeld`, the unique
index as an invariant: an event flushed by a request in flight is neither stored nor flushed by
another; the wait of a flush is what keeps it. For the cache, `LookedUpAbsent` says that a
batch about to store a probe looked it up before it was stored or after it expired. For the
start, `SetUpAsGiven` says what of the environment the process has already used at each
stage: routes and origins are set up before anything is validated, and it is the refusal
that keeps them from serving.

**Feeds.** A broadcast goes by position over a list that others shorten and lengthen.
`StreamInv` says that whatever a loop has seen stands before its place (`Passed`): an
append goes behind every place, and a removal moves nothing to the back. While all that
were due are listed, they are the front of the list, so that none can have been skipped.

**Reports.** `StatusInv` says of a report under way that it names just the capabilities that
are due and that it has passed (`ReportGrown`), each once, and that each line agrees with
the tables and with the other lines about the database (`LineRight`). Losing the database
makes all lines anew, by `OnlyKeeps` for the other order. Counts stay true because tables
only grow. `OutboundTypesCorrect` covers the assertion at the end of the
handler (`app/api/routers/status.py:344-345`): no state it shows is outside the vocabulary.

**Selections.** `CacheRight` (an entry expires the time to live after the service answered
it) and `SelectRight` (no score was older than that when the call took it) give `ScoresRecent`. The
ranking is a strict total order because a name has one first place (`RankingOrders`), the
counting definition of `InOrder` lists it (`InOrderSorts`), and its front is better than
its rest (`TopRight`).

Induction over data is avoided by the least number of a set of numbers (`LeastNumber`,
from the well-foundedness of the naturals), by which a maximum, a minimum and the n-th of a
set are shown to exist.

**ProviderClaims.** `RowsWellFormed` (a verified claim is dated and has its record),
`WorkersWellFounded` (a worker past the lookup has seen the record, and what it found
registered still is), `VerifiedRecorded` (whoever was mailed or answered was verified,
and every verified claim's API is registered) and `OwnerProved`. From these
`VerifiedIsKept` follows as an action property, and `Implements` step by step: every
step is `Ask`, `Publish` or `Verify`, or changes nothing `ClaimRegistry` sees.

**VabpRuns.** `RunsTested` (a completed run has exactly the results of its tests and
their total), `ReportsTrue` and `IssuesTrue` (a request that saw a run completed sees
what still holds, since completed runs never change) and `CertificatesTrue`.

**Scorecards.** The theorems are about arithmetic: clamping and rounding to even are
monotone, a weighted mean lies between its figures, grades rise with scores, and a gold
row's score is at least 60 even with the other figures at 0 (59.5 rounds to 60).

**Compositions.** `ReadersRun` and both `PartsRun` prove that each component of a composed
instance runs as it is specified alone, so that the theorems, which are about the
component's own specification, hold of the runs.

**Only model-checked**: `EveryRequestEnds`, `WorkersEnd`, `EveryBatchEnds` and `ComesUp`,
which are liveness under fairness and outside what the prover handles. That the three
violations are violations is likewise TLC's.

## 5. Not modelled

- Event verification: canonical JSON, SHA-256 and Ed25519 are pure functions of one
  message. In `NodeTelemetry` digests tell payloads apart and a signature is right or wrong.
- Migrations run once, before the service; demo runtime and target profiles are tables
  of constants, the first outside production only.
- `POST /nexus/benchmark` and `/certify` keep no state and answer from constants; the
  proxies and static routes of `main.py` forward.
- Frontend, MCP server and JavaScript template forward or render and keep nothing
  between calls; deployment and public-copy scripts check texts.
- The connection pool: a request that waits for a connection is a request that has not
  begun. Tables of the schema that no code writes are left out.

## 6. Plan

Done: every component that keeps state is modelled and run, and every safety property of a
passing run is proved for all instances. What is left:

1. `EventIngest` as an implementation of an atomic bill, a single step per batch:
   `WholeOrNothing` and its invariant are already there.
2. The feeds as an implementation of a set of connections without positions, for
   broadcasts during which nobody leaves.
3. What the violated runs show, as theorems of the form "violated only if": how much of
   `FundsOnlyDraft` and `ChainIntact` is left when requests overlap.
