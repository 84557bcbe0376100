# VIGIL APEX: a verification development

VIGIL APEX collects public procurement data, finds patterns that suggest fraud,
renders dossiers about them, and lets a council of five pillars decide which
are delivered to the authorities. Everything the system does is written to an
audit chain that is witnessed elsewhere (a contract on Polygon, a Hyperledger
Fabric channel). It is some forty processes around Redis streams, PostgreSQL
and two ledgers.

This directory holds TLA+ modules translated from that code, TLC configurations
that check them on small instances, and theorems that TLAPS proves for every
instance. Paths are relative to the root of the repository.

1. [Inventory](#1-inventory)
2. [Modules, and how they correspond to the code](#2-modules)
3. [Runs: questions, bounds, fairness](#3-runs)
4. [Proofs](#4-proofs)
5. [Where the code and its comments disagree](#5-disagreements)
6. [What is not modelled](#6-not-modelled)
7. [Plan](#7-plan)

## 1. Inventory

### How the parts interact

```
 adapters --> Redis streams --> workers (documents, entities, patterns, score)
                  |                          |
                  |                     findings, dossiers (PostgreSQL)
                  |                          |
   every worker is a WorkerBase      VIGILGovernance (Polygon): council vote
                  |                          |  events
                  |                   worker-governance (projection)
                  v                          v
            dead-letter stream       worker-dossier --> worker-conac-sftp

 every audited operation --> emitAudit --> HashChain.append --> audit.actions
                                 |                                 |
                     audit.user_action_event            +----------+-----------+
                     (a chain per actor)                |          |           |
                                              audit-verifier   worker-    worker-fabric-
                                              audit-watch      anchor     bridge (witness)
                                                                  |           ^
                                                       signer --> VIGILAnchor |
                                                             worker-reconcil-audit
```

### The core: what carries the system's promises

| component | state | operations | hard behaviours | correct when |
|---|---|---|---|---|
| **Worker queue** `packages/queue` | stream, group cursor, pending list, dedup keys, retry budget, dead-letter stream (Redis); in-flight calls (process) | publish, start/stop, read loop, reclaim loop, `process()` with six awaits | redelivery races a slow handler; crash between any two awaits; commands that run and lose their reply are sent again; TTL of the dedup key | one handler per dedup key, work done at most once, nothing lost, everything eventually acknowledged |
| **Global hash chain** `packages/audit-chain` | `audit.actions` | `append` (serializable, retried), `verify` (batched) | appends race on the tail; COMMIT applied and its answer lost; rows appended during a sweep | rows link, a sweep neither invents nor misses a break it read over |
| **Actor log** `packages/audit-log` | `audit.user_action_event`, `audit.user_action_chain` | `emitAudit`, `withHaltOnFailure` | head read long before it is compared; two transactions; no row to lock | one linear history per actor, no unrecorded operation |
| **Sweeps** `apps/audit-verifier`, `apps/worker-audit-watch` | cursor of the watch | tick, restart | chain grows meanwhile; tail read earlier than used | an alarm means damage, silence means the rows counted are sound |
| **Anchor contract** `contracts/VIGILAnchor.sol` | commitments, `lastToSeq`, committer | `commit`, `rotateCommitter` | first range, successor of the last | commitments divide 1..`lastToSeq` |
| **Anchoring worker, signer** `apps/worker-anchor`, `tools/vigil-polygon-signer` | `audit.anchor_commitment`, `chain_anchor_tx`, `audit.public_anchor`; a socket queue; a mempool | main loop, high-significance loop, sign and send | broadcast is taken for success; insert fails after the send; client gives up, signer does not; two loops share a nonce | table and chain never disagree by more than one range, equality of cursors means equality of ranges |
| **Council contract** `contracts/VIGILGovernance.sol` | seats (two mirrors), commitments, proposals, votes | add/remove member, commit, open, vote, settle | rotation during a vote, votes at the second of closing, replay of a commitment | mirrors agree, tally is the votes, decisions are final and made by a quorum of pillars |

### From a source to a recipient

| component | state | operations | hard behaviours | correct when |
|---|---|---|---|---|
| **Adapters** `apps/adapter-runner`, `packages/adapters` | `source.events`, `adapter_health`, the day's counter, 24 h of proxy escalations | cron tick, pre-flight, fetch, insert, two kinds of envelope, report | a tick does not wait for the run before it; a command fails between the row and its envelopes | an event is published once, and what is lost is one event per interrupted run |
| **Adapter repair** `apps/worker-adapter-repair` | proposals, shadow log, selector registry | daily and hourly sweeps, promotion, the operator's decision | a sweep acts on a proposal it read before the operator decided | decisions are final, and made by the operator |
| **Federation** `worker-federation-agent`, `federation-stream`, `worker-federation-receiver` | pending batch, resolvers, chain of flushed batches, open gRPC call | push, flush, call, acknowledgement, shutdown | a flush during a call; a call that dies with a part handled; redelivery under a waiting handler | each waiting handler is resolved, what is acknowledged was published or refused |
| **Extractor, documents** `worker-extractor`, `worker-document` | extracted fields, `source.documents` | extract, download, store, merge, announce | two requests of one document; a crash between the row and the envelope | a stored document is announced |
| **Entities** `worker-entity` | canonicals, aliases, review queue, mirror in Neo4j | lookup by registration and by name, clustering by a model, dispatch to the patterns | handlers overlap between lookup and insert; redelivery meets its own rows | nothing is merged on a name alone, every name ends somewhere |
| **LLM router and breaker** `packages/llm` | breaker per cloud tier, 24 h of costs, health of the local tier | `call()` over the tiers, `record`, `enforceBeforeCall`, `isOpen` | ceiling read before a call and raised after it; breakers half open with calls in flight | the ceiling holds up to the calls in flight, a tier that failed is asked again |
| **Council projection** `worker-governance` | routing decisions, render requests | escalation: settle on a body, request two renderings | an operator decides while a body is derived; one event handled by two replicas | an operator's decision stands |
| **Dossier renderer** `worker-dossier` | dossier rows, reference counter | take a reference, render, sign, pin, insert, publish | retries allocate a reference anew; the row changes while it is rendered | a dossier says what was asked for |
| **Delivery** `worker-conac-sftp` | remote directory, dossier status | check, pick the pair, three puts, marks, 7-day poll | handler outlives its pending entry; the manifest is there and a mark fails | manifest last, delivered means sent, to whom it was printed for |

### The rest

| component | why it is not modelled |
|---|---|
| Fabric bridge, chaincode, witness reconciliation | the one publisher's payload is refused by the consumer, so ledger and witness stay empty |
| Pattern engine, certainty engine, counter-evidence | no code inserts the finding row that their handlers update and read; the posterior is floating-point arithmetic |
| Loop and boot guards `packages/observability` | a counter of one process and a file; the retry budget and the shutdown are in `WorkerQueue` |
| Tips, Shamir, roles and signatures | one row per handler, cryptography |
| MINFI API, outcome feedback | a request answered from the database; scoring of text |
| Image forensics, satellite, pattern discovery | data behind the modelled queue |
| Audit bridge, dashboard, API, databases, shared types | they call what is modelled |

`PROJECT.json` lists all of them with their sources and reasons, and under
"hazards" each place in the code where something is hard to test.

## 2. Modules

| module | code | composes |
|---|---|---|
| `WorkerQueue` | `packages/queue/src/{worker,client}.ts`, `packages/observability/src/{retry-budget,shutdown}.ts` | |
| `ActorHistories` | the promise of `packages/audit-log/src/{emit,halt}.ts` | abstract specification |
| `AuditLog` | `packages/audit-chain/src/hash-chain.ts` (append), `packages/audit-log`, `packages/db-postgres/src/repos/audit-log.ts` | refines `ActorHistories` |
| `ChainVerify` | `hash-chain.ts` (verify), `apps/audit-verifier`, `apps/worker-audit-watch` | |
| `VIGILAnchor` | `contracts/contracts/VIGILAnchor.sol` | |
| `Anchoring` | `apps/worker-anchor`, `packages/audit-chain/src/polygon-anchor.ts`, `tools/vigil-polygon-signer/main.py` | extends `VIGILAnchor` |
| `VIGILGovernance` | `contracts/contracts/VIGILGovernance.sol` | |
| `AdapterRunner` | `apps/adapter-runner/src/run-one.ts`, rate limiter and proxies of `packages/adapters` | |
| `AdapterRepair` | `apps/worker-adapter-repair`, `apps/dashboard/src/lib/adapter-repair.server.ts` | extends `AdapterRunner` |
| `FederationStream` | `apps/worker-federation-{agent,receiver}`, `packages/federation-stream` | |
| `SourceIntake` | `apps/worker-extractor`, `apps/worker-document` | |
| `EntityResolution` | `apps/worker-entity`, `packages/db-postgres/src/repos/entity.ts` | extends `SourceIntake` |
| `DossierRender` | `worker-governance` (escalations), `apps/worker-dossier`, the dashboard's route for the body | |
| `ConacDelivery` | `apps/worker-conac-sftp`, `packages/db-postgres/src/repos/dossier.ts` | extends `DossierRender` |
| `LlmRouter` | `packages/llm/src/{router,circuit,cost}.ts` and its providers | |

Each has, alone or with what extends it, an `MC...` module (model values,
symmetry) and is proved about in a `...Proofs` module: `ChainVerify` in
`AuditLogProofs`, `LlmRouter` in `EvidenceProofs`, the others in the one of their
subject. An operator marked "Mutant" is a plausible bug of the definition after it
and takes no part in the specification: a property is kept only if some mutant
breaks it.

### WorkerQueue

Redis is one set of variables, atomic per command, script or pipelined command;
a worker is `status`, its outstanding `XREADGROUP` (`asked`) and its running
`process()` calls. A call is suspended at one of nine points (`Points`), and
every await is a step, so calls of one worker and of several interleave wherever
the code lets them. `Dedup` is the Lua script (SET NX, or XACK); the three
answers of `handle()` are `AnswerAck`, `AnswerRetry`, `AnswerDeadLetter`, with a
throw being the last. `Reserve`, `Release`, `Wake`, `DlqAdd`, `DlqAck` are the
awaits that follow. What the network may do to a command has three shapes:
it fails before Redis runs it (`CommandFails`), it runs and its reply is lost for
good (`ReplyLost`, both take the `catch` of `process()`), or the client sends it
again (`Resend`; ioredis resends unfulfilled commands by default, and
`QueueClient` leaves it at that). Every command of `process()` can be sent again:
the dedup script, the XACK, the budget's script, the dead-letter pipeline, and the
DEL of the dedup key (`Unlock`, from "releasing" or, the second time, from
"rereleasing"), which then deletes whatever key is there, another call's
included; `stolen` records the keys of which that happened. A pipeline's
`exec()` resolves with an error per command, which the code does not read:
`PipelineFails`. `GrowIdle` is the passing of `idleReclaimMs` and `Expire` that
of the 24 h of a dedup key.

Assumed: a Redis command answers or fails well within `idleReclaimMs`
(5 minutes), so an entry becomes idle only while its handler runs or its retry
sleeps. Unless `LongHandlers`, a call ends, up to its delay, within the 24 h of
its dedup key; `worker-conac-sftp`, which polls for seven days, is the worker
for which the constant is TRUE. The adaptive ceiling is any number from 1 to the
configured concurrency. The body of an entry is its dedup key, or `Malformed`.

### AuditLog and ActorHistories

A call is an event that walks through `ReadHead` (emitAudit reads the actor's
head), `ReadTail` and `InsertCommits`/`InsertConflicts` (the SERIALIZABLE append
transaction, whose snapshot is fixed at its SELECT and which commits only if no
other append did since), then `Advance` (the compare-and-set under FOR UPDATE)
or, where the actor has no head row, `FindNoHead` and `Upsert` (nothing is
locked, ON CONFLICT overwrites), and then `Perform`, which the dashboard does
only if emitAudit resolved. Failures: a transaction that fails, one that commits
and whose answer is lost, a crash. A hash is the sequence of events it covers,
so equality of hashes is equality of histories. `ActorHistories` says what all
of this is for: each actor has one history that only grows at its end, an event
is in it once, and an operation is performed only when its event is in it.
`AuditLog` implements it with `history` the events met walking back from the
actor's head, as long as at most one call is an actor's first (`OneFirstEvent`).

### ChainVerify

A sweep is a record (`from`, `to`, `at`, running hash, rows verified) that
`SweepBatch` advances by one batch, with appends in between. `Damage` loses or
rewrites a row between sweeps, which is what sweeps exist to notice: PostgreSQL
shows each batch a different snapshot, and a damage in the midst of a sweep adds
only whether the batch was read before it or after. `WatchLog` is the tail of the watch's tick
(move the cursor or append a break row, then a verified row), `Restart` seeds
the cursor from the tail.

### VIGILAnchor and Anchoring

The contract has `commit` and `rotateCommitter` with their guards; a root is
determined by its range and left out. The worker's loops are the steps of
`main` and `high`: a tick sends a range to the signer's socket (`queue`), the
signer serves one request at a time and answers with a hash once the
transaction is broadcast (`Broadcast`), or with an error (`Refuse`); the network
executes a pending transaction (`Execute`: commits or reverts) or forgets it
(`Drop`). Nobody waits for the execution: that is the code. Faults share one
budget: a failed insert, the 30 s timeout, a lost answer, a crash, a dropped
transaction, a rotation of the committer.

Assumed: one worker-anchor runs (the compose file gives it a container name),
the wallet is the committer at the start, `polygon_confirmed_at` stays null (nothing
in the repository sets it), and a Unix time is greater than any row number. The
gas-price guard and a failing Merkle computation only delay a tick.

### VIGILGovernance

One action per external function, with its reverts as guards; `block.timestamp`
never decreases and any number of calls share a block. A dossier stands for the
`<<findingHash, uri, salt>>` of a commitment. The AccessControl roles of the
admin are one party that seats and removes members, and the reason of a
recusal is left out. `turnover` is a history variable: the pillars vacated while a proposal was open.

### AdapterRunner and AdapterRepair

A run is a record of its locals and walks from the pre-flight (cap, robots.txt)
over the fetch to the loop over its result: `Insert`, `Announce`, `Request`,
`Close`, `Report`. The tick starts it and does not wait (`Start` of another run
at any moment). `CommandFails` is a database or Redis command that throws, after
it has taken effect or before; inside the `try` the run is reported red, outside
it ends without a report (`RunDies`). `Resend` is an XADD or the INCRBY of the day's
counter that ran, lost its reply and is sent again: the envelope is there twice, and
`reannounced` and `rerequested` count such envelopes. `NewDay` and `Forget` are the keys that
name the day and the 24 h of an escalation. The repair sees the runs through
the health row alone (`DailySweep`); its hourly sweep is split where it awaits:
what it has listed, tested, and found good. Whether the source is critical is an
input. `ShadowRow` is the row the sweep
writes with the shims it passes to the test. An operator's `Decide` is one
transaction.

### FederationStream

The client's promise machinery is state: `pending` and `resolvers` (pendingBatch
and pendingResolvers), `chain` (flushes waiting behind inflightBatch) and the open
call. `CloseBatch` is `flush` up to its first await. The core's 'data' handler is
`ReceiveOpen`, one envelope at a time, and goes on for a call whose client is gone
(`ReceiveLeftover`). `Verdicts` are the checks in their order. The publish inside
`onAccepted` is `Xadd`: Redis may run the command more than once within one call
(`repeats`), and the reply of the last run may be lost as well. Shutdown runs the
callbacks in reverse: the worker drains, then the client closes (`AgentStopped`).

### SourceIntake and EntityResolution

Each handler is suspended at its awaits: the extractor between row and envelope,
the document handler at store, merge and announce, the resolver at lookup,
writes, the model's answer, storing, mirroring and dispatch. Two handlers
interleave at each of them. Which canonical a lookup finds is a choice among the
rows SQL would match: by registration, or by name where SQL folds the display
name to what `normalizeName` makes of it (`Foldable`). The model answers with any
of the clusters `ModelClusters`, whatever it was asked: `zErResp` asks for strings and
the handler compares them with nothing, so a cluster may be named like an entity that
is there already. A canonical keeps how many rows there were when its name was
looked up (`seen`), which is what makes an overlap visible later; it is empty
where the name was not among those asked about.

Assumed: entries are redelivered within the 24 h of their dedup key, so the entry
of a handler that died is acknowledged unhandled; envelopes whose `source_event_id` is missing are dead-lettered
before they change anything and left out; a 5xx answer is retried without a
change. Canonicals with a registration are given (`Seeds`), for no worker writes one.
A publish that the client sends again puts a second entry of the same dedup key on the
stream. To its consumer that is another delivery of the first: acknowledged
unhandled while the key is set, handled like a redelivery after a retry. So the
streams of these modules, and of the two that follow, are sets of envelopes.
A dedup key that a resent DEL has deleted (`stolen`, above) is left to `WorkerQueue`.

### DossierRender and ConacDelivery

One finding and its escalations: an event per replica of `worker-governance`
that sees it. `Begin` and `Derive` are the two halves of the handler around its
query for the pattern; an operator's `Route` may come in between. A request is
taken (`Take` allocates the reference), rendered and stored (`Insert`), published;
each can fail and be delivered again. A delivery is its envelope's handler at one
of six points: the check of threshold and siblings, three puts, the marks, the
poll. `Torn` is a file that a broken put has left. `MaxUpsets` bounds failed calls,
crashes, operator decisions, new scores and expired keys together.

Assumed: whether the proposal has a row is an input, as is the finding's (the
projection that should write it fails, and nothing inserts findings: section 5);
worker-conac-sftp runs once with concurrency 1, and only its reclaim loop starts a
second handler; a target that is not provisioned fails like a put; what the
recipient does with a manifest is its own choice. A dossier nobody acknowledges
occupies the only slot for up to seven days: that is the code, and no property
forbids it.

### LlmRouter

Between two awaits a call is alone, so an action goes from an answer to the next
request: `Begin` (ceiling, first healthy tier), `Answer`, `RequestFails`,
`LocalAnswer`, `LocalFails`, each ending in `Ask` of the next tier. A breaker is its
state, the ages of its failures and the time to its probe; `Older` caps an age at
the first that no longer counts, and `Failed` drops failures above the threshold.
An answer past Anthropic's deadline counts as a failure and is used; one without
a price throws after the breaker has heard of a success, one with a price costs up
to `MaxCost` and trims the records that are a day old from the front. What a guard or a schema
makes of an answer is a choice. A router is one process: a restart forgets
breakers and costs.

## 3. Runs

| run | question | bounds | states |
|---|---|---|---|
| `queue_crash` | Is there one handler per key, is work done at most once, and when is it lost? | 2 workers, 2 entries of one key, 2 deliveries each, a crash, a fault, a retry, handlers may outlast their key | 3.0 M |
| `queue_live` | Is every entry eventually acknowledged? | 2 workers, 1 entry (well formed or not), 5 deliveries, a crash, a stop, a fault, a retry, a budget of 1 | 0.91 M |
| `audit_log` | Does the emitter implement the histories it promises? | 3 emissions of 2 actors, 1 direct append, 2 attempts, a fault | 0.95 M |
| `audit_fork` | *violation:* two first events of one actor | no faults | 2.3 k |
| `chain_verify` | What do a sweep's answers mean? | 2 loops, 6 rows, batches of 2, windows of 3, a damage | 0.37 M |
| `anchoring` | How far can table and chain drift apart? | 2 wallets, 1 high-significance event, 4 rows, 5 transactions, 2 faults | 1.1 M |
| `governance` | Is the contract's state consistent under rotation? | 3 accounts, 2 seats, quorum 2, 2 proposals, 1 rotation, 4 blocks | 1.6 M |
| `adapters` | What do overlapping and interrupted runs publish, and who decides on a selector? | 2 runs at a time, 3 ticks, 2 events (one with a document), a cap of 1, a fault or a command sent again, 1 proposal with 1 shadow test | 1.9 M |
| `federation` | Does every handler hear of its envelope, and the core of what is acknowledged? | 2 envelopes (one the core cannot decode), batches of 2, 2 attempts, a fault or a command sent again, a key that may come late, a shutdown | 90 k |
| `evidence` | Which names and documents get lost, and when is a name stored twice? | 2 events that share a name, one with two more names and a registration, one of another region; a model that answers rightly or with a name it was not asked about, one cluster at a time; 2 requests of one document (symmetric), a fault | 1.6 M |
| `delivery` | What lies in a recipient's inbox, and what do the rows say of it? | 2 escalations, 2 bodies, 3 references, 1 upset | 2.0 M |
| `llm` | How far is the ceiling exceeded, is a failed tier asked again? | 3 calls, 2 of them priced, 3 tiers, thresholds of 2, a ceiling of 2 answers, a restart; window, probe and day one tick each | 0.33 M |

Why these bounds are enough to be of interest: every hazard of `PROJECT.json`
needs two actors and one fault. Two workers and two entries of one key give
every pair of calls (same worker, other worker; same entry, other entry); a
third delivery repeats the choices of the second. Three emissions give a chain
with a predecessor and a successor around every race. Six rows give three
batches, so a batch that is first, inner and last. Four rows in ranges of two
give a first range, a successor, and one more that must revert; two faults give a fault
during the recovery from a fault. Two seats with a quorum of two and a third account make
every rotation decisive. Three ticks for two runs give an overlap and a run after
it. Two envelopes in batches of two give a full flush, a partial one, and a batch
behind an open call. Three references for two escalations give two pairs one dossier
short, so that a sibling is picked across escalations. Window and probe are both 60 s in
the code, so one tick for each keeps their order; a day of one tick is shorter than it is,
and the properties that speak of it only get stronger. In the code `MaxAttempts` is 3, the
council has five pillars and a quorum of three, batches are hundreds of rows, a promotion
looks back on 48 shadow tests: the theorems do not depend on those numbers.

What the properties say:

- `OneHandlerPerKey`, `DoneAtMostOnce`: the reason the dedup script exists; both
  except the keys that expired under a running handler (`overrun`) or were deleted
  by a DEL sent again (`stolen`), and fail without either exception.
- `LossNeedsRedelivery`: an entry is lost only where a redelivery or a repeated
  dedup script runs into the key of the entry's own first run; `EventuallySettled`
  is progress.
- `ChainLinked`, `RowPerCommit`, `NoDarkPeriod`, `LinearHistory`: the audit log.
  `RowPerCommit` gives the exact number of rows of an event: one per COMMIT whose
  answer was lost, plus one if the call went on.
- `NoFalseAlarm`, `AnswerIsSound`: what `verify` knows when it answers.
- `Coverage`, `ChainFollowsRows`, `ReconciledMeansAgree`, `OneTxPerFault`,
  `StaysWedged`: the contract's list is gap-free; the table and the list agree but
  for one range; equal cursors mean agreement, which is all that the check at boot
  relies on; and a table ahead of the chain stays so for ever, as the comment in
  `worker-anchor` says.
- `MirrorsAgree`, `TallyIsVotes`, `PillarQuorum`, `DecidedForGood`: the council.
  Votes are kept by address and not by pillar, so a seat that changes hands while a
  proposal is open votes twice: `PillarQuorum` is stated for proposals without such
  a change, and `docs/runbooks/R4-council-rotation.md` asks for rotations to be
  deferred in that time for this reason.
- `PublishedOnce`, `EachCutLosesOne`: however runs overlap, an event and its
  documents are published once, the row first, but for an XADD that the client sent
  again; and what never reaches the pipeline is one event per interrupted run.
  `CriticalNeedsSignOff`, `DecisionIsFinal`: no selector of a critical adapter goes
  live without the operator, whatever the sweeps have read and when, and no late
  click or sweep changes a decision. (That in this code no informational one goes
  live without the operator either is a finding, not a property.)
- `EveryWaiterResolvable`: each waiting handler of the agent has its resolver in
  exactly one place. `AckedIsAccounted`, `ExtraEventsNeedBreaks`: an
  acknowledged envelope was published, thrown for or acknowledged unhandled, and each
  further event at the core has its broken call or its repeated XADD. `EventuallySettled`: every envelope
  ends acknowledged or dead.
- `AckedIsResolved`, `StoredIsDispatched`, `StoredIsAnnounced`: what an envelope
  names is dispatched, held or left out by the model; a canonical and a document are
  passed on unless the handler that stored them was cut short. `TwinsNeedOverlap`,
  `NoMergeByName`: two canonicals of one name need handlers that overlap, or a
  model that named one what it was not asked about; and only a registration gives one event's name to another event's canonical.
- `ManifestIsTrigger`, `DeliveredWasSent`, `PrintedForRecipient`,
  `BelowMeansOvertaken`, `OperatorWins`: a manifest lies beside the whole dossiers it
  names unless its directory was written again; only what is signed is put, and
  what the rows call delivered was sent; it was printed for its recipient unless
  two escalations settled on different bodies; what goes out below the threshold was
  under way when the score fell; a derived body replaces an operator's only if
  that came while it was derived.
- `OverrunByInFlight`: what is spent and what the calls under way may still spend
  is below the ceiling plus a full round of them.
  `FirstTierIsTriedAgain`: as long as calls are made, the first breaker does not stay open.

**Fairness**, stated where liveness is checked:

- `queue_live`: weak fairness of `Start` (compose and the StartupGuard restart a
  worker that exited), `Stopped`, `AskRead`, of `Read` and `Reclaim` with a reply that
  arrives (both loops run for ever and Redis answers; a lost reply is one of the
  bounded faults), of `GrowIdle` (time passes) and of the steps of calls (Redis
  commands answer and each `handle()` settles). The bound on deliveries is above
  what one crash, one stop, one fault and one retry can use up, so that the bound
  itself never leaves an entry pending (with 4 it does, and the run fails).
- `federation`: weak fairness of the client's timer and callbacks, of the core's
  handling of an open call and of the restarts; strong fairness of `Handle` and
  `Redeliver`, for the agent may be stopped and started again in between, and its
  loops read whenever it is up. Keepalive reports a peer that is gone.
- `llm`: time passes, and nothing else; that calls are made is a premise of the property.

`evidence` is explored up to a symmetry and a VIEW: nothing tells the two requests
apart, and no guard and no property reads how the mirroring of a canonical ended or
what was merged into a row, which is what the view (`Seen` in `MCEvidence`) leaves out.

Nothing is assumed of crashes, stops, faults, expiries or producers. Every other
run checks safety under no fairness at all.

`CHECK_DEADLOCK FALSE`, in every run but `llm`: the bounds are spent at some point,
and the modelled part then rests.

## 4. Proofs

`tlapm` proves, for all values of the constants that satisfy the named
assumptions (`QueueAssumption`, `AuditAssumption`, `ContractAssumption`,
`AnchorAssumption`, `GovernanceAssumption`, `RunnerAssumption`, `RepairAssumption`,
`FederationAssumption`, `IntakeAssumption`, `EntityAssumption`, `RenderAssumption`,
`ConacAssumption`, `VerifyAssumption`, `RouterAssumption`: sizes are natural numbers, sets that are counted are finite,
special values differ from ordinary ones, a batch fits a commitment, a timestamp
exceeds the row numbers):

| module | theorem | statement |
|---|---|---|
| `WorkerQueueProofs` | `TypeCorrect`, `Exclusion`, `AtMostOnce`, `NoSilentLoss` | `TypeOK`, `OneHandlerPerKey`, `DoneAtMostOnce`, `LossNeedsRedelivery` |
| `AuditLogProofs` | `TypeCorrect`, `Linked`, `ForkFree`, `NoDarkPeriods`, `RowsCounted`, `HistoriesLinear`, `HeadsReachAll`, `NoFalseAlarms`, `AnswersSound` | `TypeOK`, `ChainLinked`, `NoFork`, `NoDarkPeriod`, `RowPerCommit`, `LinearHistory` and `HeadReachesAll` (both if no two emissions begin one actor's chain), `NoFalseAlarm`, `AnswerIsSound` |
| `AnchoringProofs` | `ContractCoverage`, `Covered`, `Followed`, `Reconciled`, `StayWedged`, `OneTx`, `ContractImplemented` | `Coverage` (of the contract alone and under the worker), `ChainFollowsRows`, `ReconciledMeansAgree`, `StaysWedged`, `OneTxPerFault`, `ContractSpec` |
| `GovernanceProofs` | `TypeCorrect`, `Mirrors`, `ClosedForGood`, `QuorumOfPillars`, `TallyCorrect` | `TypeOK`, `MirrorsAgree`, `DecidedForGood`, `PillarQuorum`, `TallyIsVotes` |
| `AdapterProofs` | `TypeCorrect`, `EventsPublishedOnce`, `CutsBoundLosses`, `SignOffHolds`, `DecisionsStand`, `CapHolds`, `FailuresCounted` | `TypeOK`, `PublishedOnce`, `EachCutLosesOne`, `CriticalNeedsSignOff`, `DecisionIsFinal`, `CapExceededByOverlap`, `HealthCountsStreak` |
| `FederationProofs` | `TypeCorrect`, `WaitersResolvable`, `AckedAccounted`, `EventsBounded` | `TypeOK`, `EveryWaiterResolvable`, `AckedIsAccounted`, `ExtraEventsNeedBreaks` |
| `EvidenceProofs` | `TypeCorrect`, `AnnouncedCorrect`, `MergeCorrect`, `TwinsCorrect`, `DispatchCorrect`, `ResolvedCorrect`, `OverrunBounded` | `TypeOK`, `StoredIsAnnounced`, `NoMergeByName`, `TwinsNeedOverlap`, `StoredIsDispatched`, `AckedIsResolved`, `OverrunByInFlight` |
| `DeliveryProofs` | `TypeCorrect`, `ManifestLast`, `SignedAndSent`, `PrintedForWhom`, `BelowOvertaken`, `OperatorDecides` | `TypeOK`, `ManifestIsTrigger`, `DeliveredWasSent`, `PrintedForRecipient`, `BelowMeansOvertaken`, `OperatorWins` |

The bounds (`Max...`) are constants too: a theorem holds for any of them, hence
for every finite behaviour of the unbounded system. Type correctness is proved
and not run; so are `NoFork`, `CapExceededByOverlap` (overlapping runs exceed the
daily cap by less than one each, and one per failed or repeated command) and `HealthCountsStreak` (without overlap and
faults, the health row counts the failures since a green run).

**Queue.** `OneHandlerPerKey` is not inductive: nothing in it stops a second call
from winning the dedup script. `HoldersLock` adds that a call that holds a key
finds it set, or else expired or stolen; then SET NX excludes a second holder, and a release
deletes the key of a call that was the only holder. `DoneIsLocked` adds that a key
whose work is done is set and has no holder. `NoSilentLoss` needs a witness:
`LossInv` says that once an undone key is set, or an entry of it settled, some entry
of it vouches for the work (`Vouches`: it is dead-lettered, or pending with its dedup
script behind it). An entry handed out once has one call, so the call that would
take that entry for a duplicate is the one whose script already ran.

**Audit log.** `Linked` needs `TailSeen` (an open append still holds the hash of
the row it took for the tail) and that a commit sees the chain as long as its
snapshot. `ForkFree` needs that a prior event other than `None` is that of the head at the
moment of the write, and that a head is never an event's prior already.
`NoDarkPeriods` needs that a call past its append has a row; `RowsCounted` counts
them. `HistoriesLinear` is the refinement. Its mapping walks a recursion, and
`WalkInv` carries through every step that exactly one function solves it: a new event
is named by no row, so a solution after the write is one before it with one value
more. Every event being written over the head it read (`WritesOverHead`), its actor's
history grows at its end. This is where `OneBeginsChain` is needed, that no two
emissions begin one actor's chain; `audit_fork` is what happens without it. Of a sweep,
`VerifyInv` says that the rows behind it link up to the hash it carries (`Underway`),
which appends leave true and damage does not reach, for rows are damaged only
while no sweep runs.

**Anchoring.** `FollowInv` ties the four places where a range can be: the table,
the chain, the mempool and the signer's queue. Ranges are formed from the row
after the last one in the table, so every range under way starts there or
earlier; rows divide the numbers between them like commitments do
(`RowsDivide`), so two lists that agree on a prefix and start at the same
number can differ in one element only. `StayWedged` follows because the contract
accepts one start only, and no loop asks for it again. `OneTx` counts the
transactions of a range, sent or asked for: one if the loop is at that range or has
it behind it (`Claimed`), and one per fault (`Paid`); a loop waits for the request of its
own range only (`OwnRequest`). `ContractImplemented` is the refinement of the contract:
the worker touches its storage through its functions.

**Governance.** `Mirrors` is inductive as it is. `QuorumOfPillars` counts:
the tally of a choice is the cardinality of the votes cast for it (`TallyInv`), and
the map from votes to pillars is injective as long as no seat changed hands
(`OneVotePerSeat`, which needs `VoterStillSeated`: whoever voted still sits).
`TallyCorrect` adds the VoteCast events to the counting (`Balloted`): the contract
accepts no vote of an account that has one, nor on a proposal that is decided.

**Adapters.** `PublishInv` adds to `PublishedOnce` who may publish: an event in
hand is in one run's hand (`HolderShape`), with as many envelopes out as its place in
the loop says, and an event without a row has none (`StoredFirst`). That a run
that inserts finds no row is then what keeps two runs from one event.
`CutsBoundLosses` bounds what is unpublished by a set of one event per run under
way, so a crash adds at most as many as it ends. `SignOffHolds` rests on
`DecidedInv`: the sweep's branch for critical sources leaves a proposal to the
operator, and a proposal that is decided changes no more, so neither can the live
selector's.

**Federation.** `EveryWaiterResolvable` needs `CallShape` (what the open call may
still answer is in its batch, and what is not live has nothing to do). For
`EventsBounded` each envelope has an allowance: one event for its present attempt
once that has been answered, one per break so far and one per repeated XADD; events and leftovers together
stay within it (`BreaksInv`), for a break that leaves something behind pays for it.

**Evidence.** Every action of a handler either moves it, or writes rows and moves
it, or ends it; the lemma about each shape says what happens to the rows and to
the locals of the others, and the five theorems are instances. `Locals` says what
a handler has in hand at each of its points; `Progress` that each name of its
envelope is in one of its hands or has been dealt with; `Unseen` that no row its
lookup had seen has a name it left for the model.

**Router.** What the calls under way may still spend is a number of answers times
the dearest one, so `OverrunBounded` counts answers: a call passes the check below the
ceiling and allows for its own, and an answer moves its cost from one side to
the other. The sums are a recursive function over the records. What it returns is
proved for every sequence all the same, with the principle of the least element
(`Least`, of `WFMin` for the order on the naturals): the least
index without partial sums would have a predecessor with them.

**Delivery.** `IInv` is `TypeOK` and five parts: a handler under way has a body
and keeps it (`Settled`); a request under way has a reference of its own, of
which there is no envelope yet (`UnderWay`); a row was asked for and its envelope
is for whom it was printed (`RowsSound`); handler, directory and manifest fit each
other at every point of the upload (`DeliverySound`); and while an operator's decision
stands, every event that is deriving a body is counted as overtaken (`RoutingSound`).
An action of the renderer is shown to keep what deliveries rely on once
(`RowsKept`), and an action of the delivery changes one handler, so its lemma is
about that one alone.

Only model-checked: liveness (`EventuallySettled` of both modules and
`FirstTierIsTriedAgain`), which is out of the prover's reach, as is ENABLED. The
violation of `HeadReachesAll` is a run's; the theorem is about the instances
without two first events.

## 5. Disagreements

Met while modelling; `PROJECT.json` quotes the lines. Those of the first two
groups bear on what the models assume.

Where the code falls short of its promise for good:

1. Redelivery after a crash is not safe: the entry is taken for its own
   duplicate (`packages/queue/src/worker.ts:370`), and a retry answered by a handler
   slower than `idleReclaimMs` is never redelivered, for the same reason (`:438`).
   Both are in `LossNeedsRedelivery`.
2. Two first events of an actor fork its chain, against the compare-and-set that
   the repository's comment promises (`audit_fork`).
3. `verify` starts its running hash at null wherever it starts, so a window that
   does not begin at row 1 is reported broken.
4. High-significance events are sent to a contract that must refuse their range,
   and are recorded as anchored; the retry after a failed insert does not raise an
   error, and inserts the hash of a transaction that reverts.
5. Over the daily ceiling, no record is made that would trim the history the
   ceiling is summed over: the process refuses until it restarts.
6. Rows republished for the witness lack the field its bridge requires;
   pattern envelopes name findings that have no row; `worker-governance` stores a
   32-byte hash and an index in UUID columns; an escalation that arrives before its
   proposal is dropped.
7. The Vault layer of the key resolver is asked for cached keys only, and nothing
   fills the cache; the agent acknowledges envelopes whose handling at the core
   threw.
8. A document whose handler stopped between row and envelope is never announced,
   and what `worker-document` sends to the entities is acknowledged unread.

Where it does other than a comment says: both envelopes of a dossier deliver both
languages; `markDelivered` takes an acknowledged row back; the body in the row is read
by nobody; retries after a long poll are not redelivered; a renderer's failure
is dead-lettered, not retried; a retried upload puts dossiers beside a manifest
that is there; half-open breakers let every call through; the monthly cost circuit
is not in use; `maxRetries` is never read; the reclaim loop ignores the
concurrency bound; `LedgerVerifier` compares a Merkle root with a row's hash; the
shadow test has shims that make every fetched page a divergence, and a promoted selector
is read by no adapter; the daily cap is exceeded by overlapping runs; SQL folds names
less than the worker does; RCCM numbers keep their leading zeros.

## 6. Not modelled

- Fabric bridge, chaincode and reconciliation; pattern engine, score and
  counter-evidence: in the states this repository's code can reach, the messages
  they wait for are refused or name rows that do not exist (section 5). A model of
  them would have to begin in states the program does not get to.
- The projection of proposals and votes by `worker-governance`: its inserts fail
  on the types of two columns. Its escalations are in `DossierRender`.
- Text, layout, rendering, prompts, guards, OCR, images, graph statistics: data
  without protocol. Their outcomes are choices in the models.
- The posterior of the certainty engine: floating-point arithmetic.
- Cryptography, Shamir shares included: hashes are collision free, signatures genuine.
- Of `packages/llm`: the batch endpoint (no caller asks for it) and the monthly
  accumulator (read by tests alone).
- Deployment: that one worker-anchor and one worker-conac-sftp run, that the wallet has funds.
- Scrapers: network I/O; what they return is any part of what the source lists.
- Tips, MINFI API, boot guards: within reach, small, and left for later.

The map covers the parts with a protocol. Most of the repository's lines are
dashboard pages, extraction rules, patterns, adapters of single sources, metrics and
scripts, which no model of behaviour would cover.

## 7. Plan

Written in the order of what the system depends on: `WorkerQueue`, `AuditLog` with
`ActorHistories`, `ChainVerify`, `Anchoring` over `VIGILAnchor`, `VIGILGovernance`,
`FederationStream`, `AdapterRunner` with `AdapterRepair`, `SourceIntake` with
`EntityResolution`, `DossierRender` with `ConacDelivery`, `LlmRouter`. All are
checked and proved about.

What would add most from here:

- theorems about what liveness rests on: that some step of an unfinished call,
  envelope or probe is always enabled, stated by guards instead of ENABLED;
- one composition of `WorkerQueue` with a worker on top of it, in place of the
  delivery rule the modules above state in their headers;
- `CouncilProjection`, the witness and the score, once the messages between them
  fit: their hazards (an escalation before its proposal, a republished row that is
  there, a second score) are known;
- tips, the idempotency cache of the MINFI API and the boot guard.
