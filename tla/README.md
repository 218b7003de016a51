# Formal model of the VPN control plane

TLA+ modules for the parts of this repository where several processes meet: how
a change of access becomes a command, how the command reaches the node, when
the control plane may believe that the node has applied it, and how the node's
agent enforces it; how the Telegram bot's requests take effect and become
sessions; how probe results become health decisions. TLC checks the modules on small
instances; TLAPS proves their safety properties for every value of the
constants. `PROJECT.json` lists the runs, the mutants, the map from definitions
to source lines, the hazards, the findings and the theorems.

    tlc -workers 2 -config MCOutbox.cfg MCOutbox      # a run
    tlapm OutboxProofs.tla                            # a proof

## 1. The system

A monorepo of TypeScript services around one PostgreSQL database.

| Part | State it keeps | Operations |
|---|---|---|
| API, users' side (`apps/api/src/cabinet`, `trials`, `subscription-access`) | `Device`, `Subscription`, `NodeAccessGrant` | issue and revoke a device, activate a trial, render the connection feed |
| API, operator's side (`apps/api/src/orchestration`) | `Node.status`, `ConnectionRoute.activationVersion` | drain, disable, quarantine, restore, publish a route |
| Subscription access store (`packages/orchestration-store`) | the same rows, and `Node.desiredConfigVersion` | schedule and materialise expiry, cancel, reconcile a node |
| Outbox store and publisher | `OutboxEvent` with lease, token, attempts | reclaim, claim, mark published, retry |
| Node-sync store and processor | `NodeSyncJob` with lease, token, attempts | reclaim, claim, complete, retry |
| Worker (`apps/worker/src/main.ts`) | three loops and a BullMQ consumer | drives the stores |
| Node-agent API (`apps/api/src/node-agent`) | `NodeConfigDelivery`, `NodeConfigAcknowledgement`, `Node.appliedConfigVersion` | snapshot, acknowledge |
| Node agent (`apps/node-agent`) | a durable state file, a stop-only latch, the xray process | poll, apply, reconcile locally, fail closed |
| Bot authentication (`apps/api/src/auth`) | challenges, pending logins, sessions, nonces, idempotency rows | begin, confirm, complete, execute |
| Probes and health (`apps/api/src/probe-agent`, `packages/orchestration-store`) | evidence, decisions, incidents, operations | ingest, decide, materialise, resolve |
| Bot and web cabinet (`apps/bot`, `apps/web`) | the bot's credential, the browser's cookies | sign and send a request, begin a login, poll for its completion |
| Operator's credential command (`apps/api/src/cli`) | `BotServiceCredential`, the credential file | provision, rotate, revoke |
| Contracts, safe logger, tools | none shared | schemas, redaction |

**How they interact.** A transaction that changes access on a node locks the
`Node` row, increments `desiredConfigVersion`, writes the grants with that
version and inserts a `NodeSyncJob` and an `OutboxEvent`. The outbox publisher
hands the event to BullMQ; the node-sync processor claims the job row and
marks it SUCCEEDED, which only means "the agent may now be told". The agent
polls for a snapshot; if the job of the very latest version has SUCCEEDED the
snapshot asks for an acknowledgement and the delivery is recorded. The
acknowledgement raises `appliedConfigVersion` and confirms every grant of that
version or an older one. A maintenance loop looks for grants that are missing,
stale or whose delivery was lost, and issues a new version for them. On the
node, a control-plane loop applies snapshots and a local loop keeps xray in
step with the last durable one; they share an adapter that runs one operation
at a time.

The bot signs its requests with the credential in a file; the API reserves the
nonce in Redis and executes the request in a transaction that stores its answer
under the Telegram update's key. A login starts with a challenge the bot asks
for, continues in the browser that opens its link, is confirmed by a code sent
to the bot and is completed by the polling browser.

Probe sources report on a route. An evaluator turns the results of a cycle into
the next decision of the route's state, and a decision that excludes the route
is materialised as an incident with a replacement operation.

**What is hard.**

- Leases are taken and given back in separate statements; a process can be
  frozen past its lease, can die anywhere and can lose the answer to a commit.
- The row's attempts and BullMQ's deliveries are two budgets, counted
  independently, that must run out together.
- `claim()` of the node-sync store is several statements without a transaction.
- `reconcileOneNode` reads devices and subscriptions it does not lock.
- Restoring a node takes two transactions.
- Acknowledgements are late, repeated and of older versions.
- Only the latest version is ever delivered, so every older change depends on
  the fate of a newer command.
- The agent writes a state file, a latch and xray's configuration and restarts
  a container; it can die, or lose power, between any two of them, and each of
  them can fail while an enforcement deadline runs.
- A bot request is repeated after a lost answer, with a new nonce and perhaps a
  new credential; the credential is a row and a file that change one after the
  other.
- Several logins of one challenge are confirmed and completed at once.
- Probe results come late, twice or from sources that are not independent;
  several evaluators and workers act on the same state.

**What makes it correct**, per component: an event is published only if queued,
within an exact number of attempts, and gets a verdict in the end (outbox); a
stale execution never moves a row of somebody else, a settled row stays
settled, BullMQ never drops a command with attempts left (node sync); a grant
counts as applied only if the node acknowledged a snapshot that showed it,
quarantine leaves nothing served, a node returns to service converged, the term
of a renewal is not undone by a late expiry or a stale read, a revoke arrives in
the end unless a newer version died where no repair looks (access);
what the agent acknowledges survives a power loss, and an access that ended is
out when its SLA is over (agent); a request takes effect once and never under a
revoked credential, and the file never names a dead one (bot requests); a
challenge gives one session, to its owner, and no page waits for ever (login);
exclusion and recovery rest on enough independent evidence, and one decision
gives one incident (health).

## 2. The modules

| Module | Models | Uses |
|---|---|---|
| `OutboxContract` | what the outbox promises, without leases, clocks and processes | |
| `Outbox` | `outbox-store.ts`, `outbox-publisher.ts` | instantiates `OutboxContract` |
| `NodeSync` | `node-sync-store.ts`, `node-sync-processor.ts`, BullMQ as configured | |
| `NodeAccess` | the transactions on one node's access, versions, deliveries, acknowledgements | the outcomes of `Outbox` and `NodeSync` |
| `NodeAgent` | the agent's two loops, its adapter, files and container (`apps/node-agent/src`) | the snapshots `NodeAccess` delivers |
| `OnceContract` | what the signed bot API promises of one Telegram update | |
| `BotRequest` | signing, authentication and execution of bot requests; the credential command | instantiates `OnceContract` |
| `BotLogin` | challenges, pending logins, sessions, the browser's polling | `OnceContract` for the bot's two requests |
| `Health` | probe ingestion, evidence, decisions, incidents | |
| `OutboxProofs`, `NodeSyncProofs`, `NodeAccessProofs`, `NodeAgentProofs`, `BotRequestProofs`, `BotLoginProofs`, `HealthProofs` | theorems and their proofs | extend the module they are about |
| `MCOutbox`, `MCNodeSync`, `MCNodeAccess`, `MCNodeAgent`, `MCBotRequest`, `MCBotLogin`, `MCHealth` | instances for TLC | extend the above |

Definitions whose comment begins with "Mutant:" are deliberately wrong variants
of the definition that follows them. No specification uses them; put in place
of the original, each makes the property named in `PROJECT.json` fail.

### Outbox

*State.* One entry per `OutboxEvent` column that decides anything; the clock
columns are kept as time left. `pc`, `heldEvent` and `heldToken` are where a
publisher is in `processOne` and what `claimNext` returned to it. `queue` holds
the job ids BullMQ has accepted; `claimant` is history and remembers which
process made the current claim, which the row itself cannot say when two
processes share a `WORKER_ID`.

*Actions.* One per SQL statement: `ReclaimExpiredLeases`, `ClaimNext`,
`QueueAdd` (the call to BullMQ), `MarkPublished`, `Retry`. `QueueAddThrows` is
a rejected `queue.add()`, with or without the job having arrived, and a
malformed event; `MarkPublishedThrows` is an update whose answer is lost, with
or without effect; both lead to the catch block. `Crash` starts `processOne`
again with nothing in hand; rows keep their leases. `Insert` is the commit of a
business transaction; `Tick` is the database clock.

*Abstraction.* Payloads are "well formed" or "malformed". The tokens
(`randomUUID`) are consecutive numbers: all that matters is that none is used
twice. `SKIP LOCKED` needs nothing, since each statement is atomic.

### NodeSync

*State.* The `NodeSyncJob` row and whether its route activation is `closed`;
BullMQ's job (`bull`, attempts `made`, `stalls`, the slot that holds its lock,
lock and backoff time left); per execution `pc`, `task`, `heldToken` and
`frozen`.

*Actions.* `claim()` is four steps, as in the code: `Reap` (expired final
leases and expired leases of this row), `Claim` or `ClaimMisses`, `CloseRoute`
(the `ROUTE_ACTIVATION_CLOSED` update) and `Read` (the status that decides what
`process()` reports). `Complete`, `CompleteFenced`, `RetryRow` are the writes;
`ClaimThrows`, `CompleteThrows`, `RetryThrows` are their failures before or after
the commit. `Freeze`, `Thaw` and `Die` stop an execution while BullMQ's lock and
the row lease run on; `RecoverStalled` is the stalled check with
`maxStalledCount`. `Resolve` and `Reject` are what BullMQ does with the outcome:
an execution that has lost its lock reports to nobody. BullMQ is a library: it
is modelled from the options `main.ts` and the publisher pass.

### NodeAccess

*State.* One node; its status and both versions; devices, subscriptions and one
grant per device; `job[v]` for the fate of the command of version v (Outbox and
NodeSync say which fates there are: SUCCEEDED, FAILED, or LOST when the outbox
gave the event up); the route's activation; deliveries and acknowledgements
with the content their hash stands for; `reconciling`, what a running
reconciliation has read; `restoring`, a restore between its two transactions.

*Actions.* Each transaction that locks the `Node` row is one action. The
exception is reconciliation: it holds the row lock from `BeginReconcile`, where
it reads devices and entitlements, to `EndReconcile`, where it writes, and what
does not need the lock may happen in between. `NodeLocked` delays the others.
Every action takes the lock exactly where its code does: `RevokeDevice` only
where the device holds a grant, `ActivateTrial` on the nodes
`scheduleExistingDeviceAccess` locks. The triggers are part of the actions that
fire them (`ChangeStatus` closes the activation, `MayServe` guards HEALTHY).

*Abstraction.* One node, one route. A snapshot's hash is the snapshot itself
(no collisions). Batches and cursors over many nodes are a fair choice of this
node. PROVISIONING and DELETED nodes get no commands and are left out.

### NodeAgent

*State.* The control plane reduced to what one agent sees: both versions,
whether the snapshot carries a command, the grants. `disk` and `synced` are the
state file and the stop-only latch as they would be read now and as a power loss
would leave them; `config`, `up`, `users` are xray's file, whether the container
runs and whom it lets in. `failClosed`, `fingerprint` and `confirmed` are the
adapter's fields of those meanings; `ctl` and `snap` are where the control-plane
loop stands, `pc` where the exclusive operation does.

*Actions.* `Fetch` is `heartbeat()` and `configuration()` with the three-way
branch of `runCycle`. `applySnapshot` is `ApplyCheck` (clock, latch, state,
refusals, the stop before a deadline), `ApplyRun` (`applyClients` and its error
path), `Persist`, `ClearLatch`; `enforceSnapshotSecurity` is `EnforceCheck`,
`PersistLatch`, `StopLatched`; `reconcileLocalState` is `LocalStop`, `LocalCheck`,
`LocalRun`. Every write, sync, reload, verification and docker command may fail
with each effect it can leave behind. `Crash`, `PowerLoss`, `XrayDies`, `Corrupt`
are the faults; the container is not restarted by docker
(`infra/docker-compose.vpn-node.yml:23`).

*Abstraction.* A tick is longer than an operation and the intervals of both
loops, so each loop has a turn in every tick and deadlines are counted in turns.
A hash is what it hashes. A file that is unreadable only for a moment, a reload
that takes effect after its timeout, and a power loss that damages xray's own
file are left out, and so is the simulation adapter. A directory sync that
returns has happened: file systems that do not support it, whose error
`syncParentDirectory` swallows (`local-xray-adapter.ts:776-783`), are outside the
model.

### BotRequest and OnceContract

*State.* The bot's loaded key and the requests it has signed, which the network
keeps and may deliver at any time; credential rows, the file and the operator's
command; Redis' nonces; per handler how far its transaction is; idempotency rows
and what the operations left behind.

*Actions.* `Sign`, `RestartBot`; `Provision`, `Rotate`, `Install`, `InstallFails`,
`Compensate`, `AskRevoke`, `Revoke`, `CliDies` in the order of
`bot-credential.ts`; `Authenticate`; `LockCredential`, `LockScope`, `Perform` for
the statements of `execute()` that wait for a lock, `RollBack` for the end of a
transaction that fails. `OnceContract` has two steps: an effect, and an answer
that repeats it. Signatures and body hashes are taken to be sound.

### BotLogin

*State.* The rows of `AuthChallenge`, `PendingLogin`, `UserSession`; per browser
its init data and cookies; `completing`, the pending login its completion has
locked. The bot's requests (`Issue`, `Confirm`) follow `OnceContract`: one effect
per update, then `Replay`. `complete()` is two steps, the locked reads and the
commit. Rate limiters are a refusal, that is a step not taken; the lifetime of a
session and closing a page are left out. An answer is received or lost as a
whole: one whose cookie arrives and whose body does not (`auth-api.ts:111`) is
either.

### Health

*State.* One scope: probe results, the `AvailabilityState` row, the decisions in
order of version, what they consumed, the evaluators whose loaded version is
still current, incidents with their operation, and what each worker has locked.

*Actions.* `Ingest` with the source's credential; `DecideCycle`,
`DecideWithoutPolicy`, `DecideCriticalTrustFailure` are the three ways through
`evaluateAndApplyDecision`, with `Votes`, `Verdict`, `Evaluate` and `Finish` for
the decision function; `BeginMaterialize` and `CommitMaterialize` under the
decision's lock, `ResolveIncident`. The evaluator passes any subset of the
eligible results: no process of the repository calls these stores yet, so the
model takes whatever the schemas admit. A result keeps the independence key that
its source's row had at its receipt; nothing in the repository writes that key,
so it may change between two results. The unique index on incidents is left
out, so that `MaterializedOnce` speaks of the lock.

## 3. The runs

| Run | Distinct states | What it shows |
|---|---|---|
| `outbox` | 20 558 | fencing, attempt budget, refinement of the contract, and every event gets a verdict; deadlock checked |
| `nodesync_route` | 94 742 | a route command with two freezes and a failing `claim()` or write: budgets, fencing, final verdicts, and every command settles its row |
| `access` | 1 432 752 | all transactions around one device |
| `access_renewal` | 546 947 | a subscription that runs out and the trial that replaces it, against the late expiry and a reconciliation that read the old term |
| `access_live` | 153 222 | two users, an operation that fails or gets lost: a revoke is confirmed in the end, or abandoned behind a newer dead version until a later one comes |
| `access_race` | violated | finding 1 |
| `agent` | 1 051 958 | durable acknowledgements, expiry within the SLA without the control plane, no cycle that ends with a due revoke still let in, the latch; deadlock checked |
| `agent_revoke` | violated | finding 2 |
| `botrequest` | 1 364 399 | one effect per update (the refinement of `OnceContract`), one acceptance per nonce, no effect after a revocation, a live credential in the file |
| `login` | 612 414 | one session per challenge, for its owner and in its browser, and every wait ends |
| `health` | 988 674 | two sources, one of which changes its key to the other's and back: exclusion and recovery are backed by a quorum in enough cycles |
| `health_series` | 994 188 | two evaluators and two workers over three decisions: cooldown, incidents, resolution, quarantine |

### Bounds

- **Outbox.** Two publishers under one `WORKER_ID` (what a rolling restart
  has, and the hardest case: only the token tells them apart), two events of
  which one is malformed, two attempts, a lease of two ticks so that it can be
  half over, one crash. An event's rows do not interact except through
  `ClaimNext`'s order, so two events and two publishers give every conflict;
  `OutboxProofs` removes the bound for the safety properties.
- **NodeSync.** Two executions in one process, one command, two attempts.
  Freezes and errors are finite resources of the protocol itself: as many
  freezes as attempts and one failing statement is the most `NeverStranded`
  bears, and the run is exactly at that limit. `NeverStrandedHolds` proves the
  property up to it for every attempt budget. It is *false* beyond: with
  MaxAttempts = 2 three freezes before a claim, or one claim error and one write
  error together with freezes, let BullMQ give up while the row has an attempt
  left; with MaxAttempts = 3 two freezes and two failing `complete()` calls do.
  The tests cover the limit itself ("recovers every permitted BullMQ stall and
  fails exactly at the shared attempt limit"); what follows for a stranded row
  is in section 5.
- **NodeAccess.** Three versions in `access`: an older change, a newer one that
  overtakes it, and the reconciliation that repairs both; three in
  `access_renewal`: the grant, the trial and one transaction that comes late. One
  tick per term that has to run out. Reconciliation that would need a version
  beyond the bound is blocked; the safety proofs show that the bound hides
  nothing. `access_live` has two users with one device each, so that a version
  of one overtakes a revoke of the other. It starts
  where both devices have been issued and confirmed, the first has just been
  revoked and the term of the second user is over (`LiveInit`, a state TLC reaches
  from `Init`), and the bound must block nothing:
  six versions are two issues, two revokes, one expiry and one repair, which is
  all that can happen there, since the loss of an operation is bounded by
  `MaxFailures = 1`.
- **NodeAgent.** Two grants, one that ends at the first tick and one that does
  not, an SLA of three ticks of which two are reserve, so that a deadline is
  near, over and long over within four ticks; two versions, so that a newer
  snapshot meets an older state; one fault beyond the failures any write and
  reload may have. `agent_revoke` needs neither a fault nor an unreachable
  control plane.
- **BotRequest.** One update signed twice, two handlers, two credentials and a
  clock that runs past a timestamp's window: a request, its repetition, a
  rotation and a revocation meet in every order. `NonceTtl > 2 * Skew` is an
  assumption of the module, as in the code (120 s and 30 s).
- **BotLogin.** One challenge, two pending logins of it in two browsers, two
  codes of the owner and one of somebody else.
- **Health.** `health` takes quorums of two, two decisions and one late result;
  `health_series` takes one source and more cycles, evaluators and workers. The
  two questions do not share state, and together they would not fit.

`NodeSync`, `NodeAccess`, `BotRequest`, `BotLogin` and `Health` may stop when the
bounded work is done, so their configurations switch the deadlock check off.

### Fairness

- `Outbox`: the loop of `main.ts` goes on after every error, so a publisher
  keeps taking its next step (WF), and time passes. No insert and no crash is
  promised.
- `NodeSync`: executions make their next step, a frozen one thaws or dies, and
  BullMQ promotes, delivers and recovers stalled jobs (WF): timers of a running
  consumer.
- `NodeAccess`: reconciliation, the worker and the agent keep running; the
  expiry loop need not.
  Fairness is strong for the steps that wait for the `Node` row, since
  PostgreSQL serves the waiters of a row in turn; it is weak for the rest. No
  user and no operator is obliged to do anything.
- `BotLogin`: time passes, a transaction commits or rolls back (WF), and the
  poll loop of an open page, which no error ends, looks at its deadline between
  two requests (SF). Nobody has to confirm and any answer may be lost or an
  error, but each fetch has to settle: `completeTelegramLogin` sets no timeout
  (`auth-api.ts:73-78`), so this is up to the browser.

## 4. What is proved

**Outbox**, for any number of events, publishers, attempts and ticks, from
`OutboxAssumption` alone (events are numbers, names differ from NULL, at least
one attempt and a lease that lasts):

- `TypeCorrect`, `PublishedWasQueuedHolds`, `AttemptBudgetHolds`,
  `FencedWritesHold`, and `OutboxImplementsContract`: the lease protocol refines
  `OutboxContract`.
- `PublishedWasQueued` is not inductive: it depends on a publisher at
  `markPublished` having called `queue.add`, and on the row it marks being the
  one it claimed. The inductive invariant adds `HeldClaim` (a publisher past the
  claim has an event and a token that was issued), `TokensNameClaims` (the holder of
  the token in a row is the row's claimant, and no token is newer than the last
  one issued) and `AddedBeforeMark`. Fencing follows from `TokensNameClaims`:
  tokens are never reused, so a publisher whose token is in the row is the one
  whose claim it is.

**NodeAccess**, for any devices, users, subscriptions, terms and bounds, from
`NodeAccessAssumption`:

- `TypeCorrect`, `RevokeConfirmedByNodeHolds`, `FeedConfirmedByNodeHolds`,
  `QuarantineRevokesAllHolds`, `RestoredConvergedHolds`,
  `RenewalNotCutShortHolds`.
- The argument: every step but a delivery and an acknowledgement is a
  `ControlStep` that leaves each grant as it is, or moves it to a fresh version
  that no snapshot has carried. A delivery adds a snapshot that shows
  everything as it stands; an acknowledgement confirms only what its snapshot
  showed. The invariant that carries this is `ShownBySnapshots`; it needs
  `VersionOrder` (no version, delivery or acknowledgement beyond
  `desiredConfigVersion`), `AppliedMeaning` (`appliedConfigVersion` is the
  version of an acknowledgement, and older grants are confirmed) and
  `LockedInSync` (a node under reconciliation takes commands, hence is not quarantined).
  `CredentialConfirmed` is the feed's half of the argument.
- `RestoredConverged` is an action property, proved from the same invariant, one
  step per action.
- `RenewalNotCutShort` is another, from an invariant of its own, `TrialInv`. A user
  has one ACTIVE subscription (`OneActive`), so an expiry that finds a trial
  running computes the trial's term. A reconciliation writes what it read before,
  and the `Node` lock is what makes that right: a trial that gives a held grant its
  term waits for the lock, so a reconciliation under way expects that term or does
  not look at the grant (`TrialRead`), nor at a held grant of a device that is gone
  (`GoneUnread`).

**NodeSync**, for any commands, executions, attempts, lease and backoff, from
`NodeSyncAssumption` (the backoff is no shorter than the lease, which the
worker's environment schema enforces):

- `TypeCorrect`, `TerminalStaysHolds`, `CompletedIsSettledHolds` and
  `FencedWritesHold`, with any number of freezes, deaths and errors. Fencing
  needs `TokensNameClaims`, as in the outbox.
- `AccountedHolds` and `NeverStrandedHolds` are about the two budgets. The
  invariant `BudgetInv` keeps an account. `Paid`: BullMQ's deliveries never exceed
  the row's attempts plus the statements that failed, with one to spare for a
  delivery that will end without a new claim (`Owed`: the row's term outlasts
  the queue's) and one for an execution that will still put the row off
  (`PutsOff`). `StallsPaid`: each stall has cost a freeze. Hence, without any
  bound, a command that BullMQ gave up has cost more than MaxAttempts claims and
  errors, or more than MaxAttempts freezes: `Accounted`. With at most one error
  and at most MaxAttempts freezes that leaves the row no attempt:
  `NeverStranded`. The hypotheses are the limits named in section 3, not a
  convenience: beyond them the property fails.

**NodeAgent**, for any grants, terms, versions and faults, from
`NodeAgentAssumption`:

- `TypeCorrect`, `AcknowledgedIsDurableHolds`, `CycleEndsRevokedHolds`,
  `LatchedStaysOutHolds`, and `ExpiryWithinSlaHolds` under `MaxFaults < Reserve`.
- A file, on disk or as a power loss would leave it, shows as revoked exactly
  what its version covers and is not behind `appliedConfigVersion` (`FilesOK`,
  `Truthful`); a cycle's snapshot is not behind either and shows as revoked what
  a latch names (`CycleOK`); from the write to the acknowledgement the files
  hold the snapshot unless damaged (`SnapshotHeld`). That gives durability and,
  since nothing that lets clients in works with a latch that names them
  (`PlacesOK`), the latch.
- `ExpiryWithinSla` is an account again. `OverdueHeld`: once the agent should
  have stopped a recorded client, every tick the client is still let in has cost
  a fault: a stop that failed, or a turn of the local loop cut short. Each
  step is shown to let nobody in whose access has ended, to record nobody whose
  access has ended, and a turn of the local loop to stop whoever is overdue or to
  cost a fault. A reserve of more ticks than there are faults is then enough,
  and not more than enough: with as many faults as ticks the stop may fail every
  time.

**BotRequest**, for any updates, handlers, credentials and faults, from
`BoundsAssumption` (a nonce lives for more than twice the skew):

- `TypeCorrect`, `InstalledIsActiveHolds`, `NonceAcceptedOnceHolds`,
  `NoEffectOnceRevokedHolds` and `TakesEffectOnceHolds`: the API refines
  `OnceContract`.
- The locks carry the refinement. `ScopeHeld`: one transaction per update is past
  the scope lock and found no idempotency row; `CredentialHeld`: a credential
  whose row is locked is not revoked. Nonces: a reservation outlives the last
  moment its request would pass the timestamp check. `CliSafe` says what the
  operator's command may count on at each stage, which makes `InstalledIsActive`
  inductive.

**BotLogin**, for any users, browsers, codes and terms, from its three
assumptions (`CodesAssumption`: no code equals the text of a message without one):

- `TypeCorrect`, `OneSessionPerChallengeHolds`, `SessionIsOwnersHolds`.
- `SessionsHeld` (a session's challenge is consumed) and `LocksHeld` (a completion
  in progress has its challenge to itself, and it is not consumed) make one
  session per challenge inductive; `PendingsHeld` and `CookiesHeld` say the same
  of owners and browsers one step earlier.

**Health**, for any sources, evaluators, workers and every policy the schema
admits, from `PolicyAssumption` and `EvidenceAssumption`:

- `TypeCorrect`, `ExclusionIsBackedHolds`, `RecoveryIsBackedHolds`,
  `CooldownHoldsAlways`, `MaterializedOnceHolds`, `ResolvedIsSettledHolds`,
  `QuarantineHoldsAlways`.
- `CountersBacked` is the heart: the failure and recovery counters of the state
  row never exceed the number of *different* decided cycles that a quorum backs
  since the last verdict that resets them, and the recovery window starts at one
  of them. It rests on the evaluator refusing a cycle that is not newer than every
  decided one, and on evidence only ever growing. Exclusion and recovery
  compare those counters with the thresholds; the decisions already made keep
  their backing. `CooldownCovers` relates the state's cooldown to every recovery
  so far, `TaskHeld` says what a worker inside its transaction may count on.

TLC has checked every inductive invariant on the instances of the runs as well,
`BudgetInv` also with three attempts, three executions and beyond
its limits.

**Only model-checked.** The liveness properties (`EventSettles`, `JobSettles`,
`RevokeConverges`, `WaitEnds`): the prover has no fairness and no ENABLED. Every
safety property that a passing run checks is stated by a theorem. The proofs
keep the bounds of the actions (`MaxNow`, `MaxVersion` and the like) as arbitrary
numbers, so they hold with whatever bound.

## 5. Findings

1. **A device revoked during reconciliation gets a grant** (`access_race`). The
   expected devices are read without a lock, and `revoke()` locks only nodes
   where the device already holds a grant. Maintenance never revokes that grant;
   it stays until its term is over, the subscription is cancelled or the node is
   quarantined.
2. **The old access list comes back after a failed revoke** (`agent_revoke`). The
   agent receives the snapshot that revokes a client and fails to apply it: the
   reload or its verification goes wrong, xray is stopped or left alone, and
   nothing of the revoke is recorded. The local loop then brings xray back from
   the state file, which still lets the client in; as long as the cycles fail,
   that goes on past the SLA. The pre-consolidation specification
   (`docs/archive/vpn-application-implementation-tz-pre-consolidation-2026-09-09.md:441`)
   wants the node stopped for a received revoke "а не продолжение старого access
   list".

Observations made while modelling. They follow from the modules but no run
states them.

- *Outages* (`NodeSync`). If `claim()` rejects MaxAttempts + 1 times, BullMQ gives
  the command up while the row is PENDING with all attempts left.
  Reconciliation (`subscription-access-store.ts:492`) counts such a row as a live
  delivery, so the version gap stays. The journal
  (`docs/archive/vpn-project-journal-through-2026-09-09.md:973`) promises a new
  version for a lost operation.
- *A dead expiry starves a revoke* (`NodeAccess`). The revoke of one user has
  version v and its job SUCCEEDED; before the agent acknowledges it the expiry of
  another user takes v + 1 and its job fails. The agent is offered the latest
  version only (`node-agent-configuration.service.ts:46`), and reconciliation
  finds nothing to repair: it looks at the devices of entitled users and at
  REVOKED grants (`subscription-access-store.ts:522-559`), the expired grant is
  neither, and the revoke's own job counts as under way (`:484-491`). The revoke
  waits for an unrelated change of the node, although the journal (`:973`) says
  that a FAILED or lost operation gets a new version. `access_live` meets this
  case: `RevokeConverges` names it as `Abandoned`, says that there is no other, and
  is violated on the same instance when the exception is left out. A route
  published at v + 1 and closed before its job runs has the same effect.
- *Variants of finding 1* (`NodeAccess`). Cancelling the subscription of a user
  without a held grant locks no node either, and a reconciliation under way then
  creates a grant for the cancelled user. Likewise the reconciliation of a restore
  may create a grant with the term of a subscription that a trial replaced
  meanwhile; the next reconciliation corrects the term.
- *Expiry of what was never recorded* (`NodeAgent`, adapter 260-266, 389-405). A
  snapshot that was applied but not recorded may leave a client served whose
  deadlines nobody counts; `ExpiryWithinSla` speaks of recorded ones.
- *One version, two contents* (`NodeAgent`). A snapshot shows a credential until
  it expires, so the same version hashes differently before and after; the
  agent refuses the second one until a newer version comes (journal:1433).
- *Old expiries* (`NodeAgent`, adapter 251-261). A grant that expired long ago
  and is still ACTIVE in the state file keeps its deadline due, so each check of
  the local loop stops and restarts xray.
- *Uncertain cycles* (`Health`). A MIXED or UNKNOWN cycle does not reset the
  count of failed cycles, and each further failed cycle beyond the threshold
  triggers another incident.

## 6. Not modelled

- The rate limiters: one atomic Redis counter each; where the modules meet one,
  a refusal is a step that is not taken.
- Device limits, trial campaign limits and the idempotency of issuance and
  activation requests; ranking and rendering of the connection feed.
- Location pools, the policy schema and operator tools (bootstrap, closed test,
  local harness): validation and scripts.
- Pages, texts and forms of the cabinet; contracts, logger, environment parsing,
  images, backups and secrets: pure functions or I/O.
- Heartbeats as data, credential rotation of node agents, shutdown of the worker
  and of the agent, BullMQ's job retention, the agent's simulation adapter.

## 7. Plan

The order follows the importance of the behaviour.

1. *Done:* `Outbox` with its contract and proofs; `NodeSync`; `NodeAccess` with
   its proofs; `NodeAgent`; `BotRequest` with `OnceContract`; `BotLogin`; `Health`.
2. *Done:* the safety properties of all modules as theorems, with the refinements
   of `OutboxContract` and `OnceContract`.
3. Composition: `NodeAccess` with `NodeAgent`, to ask of the whole chain what
   `RevokeConverges` asks of the control plane.
4. Limits: devices per user, trial campaigns, rate limiters.
