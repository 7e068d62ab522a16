# A formal model of Hermes Teams

TLA+ modules, model-checking configurations and machine-checked proofs for the
server of Hermes Teams (`src/apps/worker`, a Cloudflare Worker over Postgres,
Workflows and Durable Object hubs), in two groups. The first is the part
everything else depends on: how a run of an agent is admitted, launched, driven,
stopped, retried and cleaned up, by processes that can be lost between any two
steps. The second is the workspace around its runs: what people approve and
decide, the mail and the budgeted runs that follow, invitations and the capacity
held for them, rotating tokens, and the live updates that reach a browser.

Contents: [inventory](#inventory), [how it interacts](#how-the-parts-interact),
[modules](#modules), [correspondence](#correspondence-with-the-code),
[runs](#runs-and-bounds), [fairness](#fairness), [proofs](#proofs),
[disagreements](#disagreements-with-the-documentation),
[not modelled](#what-is-not-modelled), [plan](#plan).

To repeat the checks: `tlc -config RunControl.cfg RunControlMC` (and likewise for
each row of the table of runs; the second group is `tlc -config Workspace.cfg
WorkspaceMC`), and `tlapm` on each of `RunControlProofs`, `RunHermesProofs`,
`RunLegacyProofs`, `JobsProofs`, `RunQueueProofs`, `ApprovalsProofs`, `PeopleProofs`
and `WorkspaceProofs`.

## Inventory

Paths are relative to `src/apps/worker/src`.

| Component | State it keeps | Operations | What makes it correct |
| --- | --- | --- | --- |
| Run control plane (`routes/turns.ts`, `routes/recovery.ts`, `runs/*`) | `runs` rows: status, attempt, `stop_requested`, recovery columns, `updated_at`; `run_sweep_observations` | create a turn, Stop, Retry, cancel recovery, schedule and run a recovery, sweep (look up, commit, terminate) | a terminal status and a requested stop survive every race; a dead run is noticed; a promised retry happens or is withdrawn; only what a person still wants is retried |
| Hermes adapter (`runtime/adapter.ts`, `runtime/store.ts`, `runtime/bridge.ts`, `runs/workflow.ts`) | Workflow checkpoints; `runtime_request_*`, `runtime_attempt` columns; the native run (external) | start, submit, bind, poll, interrupt, finalize; tool calls that park and resume | an attempt writes only its own outcome; the native profile is never shared; a replay repeats nothing that matters |
| Enterprise engine (`engine/engine.ts`, `engine/pg-agent-db.ts`) | Workflow checkpoints; the conversation | the loop of turns, waiting for a person, refused keys, finish | the control plane's guarantees hold whatever it writes; a replay does not park an answered run |
| Durable jobs (`jobs.ts`) | `jobs` (done, lease, attempts), `job_ready` pointers | enqueue, claim, finish, fail, pause, drain | a committed job is run until acknowledged or refused for good, and only then done; a pointer exists exactly while there is work |
| Message queue of a run (`routes/turns.ts`, `runs/sweep.ts`) | `run_queue` rows | queue, edit, remove, park on Stop, drain | each message is sent once, in order, and only while it is queued; and it is sent |
| Guidance of a running attempt (`routes/turns.ts`, `runtime/adapter.ts`) | guidance rows | submit, deliver between polls | delivered once or reported undelivered |
| Runtime bridge, budgets, paid searches (`runtime/bridge.ts`, `runtime/budget.ts`) | reservations, usage events | authorize a tool call, reserve, settle | a reservation is settled once, also when a stream is cut off |
| Decisions, approvals, effects (`domain/*`) | decisions, confirmations, approvals, effects | decide, confirm, expire, deliver an effect | one decision per request; an effect happens only after it, and at most as often as recorded |
| Approval continuation (`runtime/continuation*.ts`) | the intent committed with a decision | enqueue, admit the continuing run | a decision leads to at most one continuing run |
| Outbound email (`outbound-email/*`) | outbox rows, settlement | approve, commit `sending`, call the provider, settle | no mail twice on a lost answer, no mail lost silently |
| Inbound email, inbox triage (`inbound-email/*`, `inbox-triage/*`) | received messages, triage rows | intake, deduplicate, classify | a message is taken in once |
| Live-update hubs (`hubs.ts`, `auth/tickets.ts`) | sockets, authorization windows, event sequence | connect by ticket, publish, evict | no socket outlives its authorization; per-session order |
| Invitations, member provisioning (`routes/invitations.ts`, `member-provisioning/*`) | invitations, provisioning steps | invite, deliver, cancel, rebind, provision, pause | one active invitation per address; a removed member is not provisioned |
| Hermes Cloud capacity and lifecycle (`hermes-cloud/*`) | slots, quarantine, credentials | reserve, release, rotate | capacity is never exceeded; credentials never shared |
| Model keys, token refresh (`keys/*`) | keys, refresh tokens, refusals | add, verify, remove, refresh | a rotating token is never lost between the provider and the row |
| Long Workflows (`workflows-long/*`) | checkpoints, deletion requests, key versions | delete a workspace, rotate the KEK, validate nightly | a cancelled deletion deletes nothing; every row is under a live key |
| Queues and dead letters (`queues/*`) | messages, attachments' extraction state | consume, retry, dead-letter | at-least-once consumers are idempotent |
| Member-to-member handoffs (`handoffs/*`) | handoffs and their admission | offer, accept, revoke | one handoff per workflow |
| Partner workflow, screening, watch (`partner-*`) | applicants, evidence, invoices | screen, confirm, settle | an invoice is settled once |
| Wallets and spending, authentication, Slack, attachments and documents, shared intelligence, skills, operations, security helpers, schema | their own rows | see `PROJECT.json` | see `PROJECT.json` |
| Client, shared contracts, native plugin, scripts, motion components | none of the server's state | see `PROJECT.json` | see `PROJECT.json` |

### How the parts interact

* A **request** commits rows and jobs in one transaction (holding a lock on the
  agent's or the run's row), and only then performs side effects: it delivers the
  first event to the session's hub and creates the Workflow instance. The isolate
  may be lost at any point of this; the **jobs** committed with the row do what is
  left, possibly at the same time as the request does.
* A **Workflow instance** `run-<id>-<attempt>` drives an attempt. The platform
  checkpoints named steps, retries a step that throws, and replays the instance
  from its start after a loss. It writes the run's row through `setRunStatus`,
  whose only guard is that the status is not terminal, or through
  `finalizeRuntime`, which is fenced by the attempt.
* A **tool call of the native run** reaches the row from outside the instance.
* The minute **Cron** drains jobs, schedules recoveries, drains queued messages,
  and sweeps: it reads active rows, looks their instances up outside any
  transaction, commits a verdict only on rows whose `updated_at` it read, and
  terminates instances after that commit. Two Crons may overlap.
* A **person** may press Stop, Retry or Cancel between any two of these.
* A **decision** locks the row it is about; what it starts (mail, the run of a plan)
  is rows and a job committed with the final vote. The job calls the provider
  between two transactions, and the answer may be lost while its lease runs out
  under a worker that is only slow. How a send or a run ends is written back onto
  the approval, and may make it pending again for what was not sent.
* A **budget** is reserved before each model call and settled after its stream; the
  process that made the call may be gone by then.
* An **invitation** holds a seat of pooled capacity through its withdrawal, expiry,
  resend and acceptance, while its setup runs in a job and its email in another.
* A **hub** never asks the database: it trusts the window a socket was opened with
  and the tickets signed since. The **browser** merges what the hub pushes with
  what it fetches after a gap, by the ids of events.

The hard behaviours are therefore: decisions taken on rows read earlier; writers
that are fenced by less than one would expect; calls made after a commit; the same
work done by two actors; and whether anything at all will ever end a run that
nobody drives. `PROJECT.json` lists them one by one under `hazards`, each at its
line with the properties that would catch it going wrong.

## Modules

The runs:

| Module | What it is |
| --- | --- |
| `RunControl` | the control plane: runs rows, hand-off, jobs of an attempt, recovery, sweep; and `Engine`, the most an engine may do to them |
| `RunHermes` | extends it with the Hermes adapter in place of `Engine` |
| `RunLegacy` | extends it with the Enterprise engine in place of `Engine` |
| `JobPromise` | what the durable jobs promise, abstractly |
| `Jobs` | the durable jobs in detail; implements `JobPromise` |
| `RunQueue` | queued messages, Stop's parking, and the Cron's drain |
| `RunControlMC`, `RunHermesMC`, `RunLegacyMC`, `RunQueueMC` | instances for model checking: constants and the bounds of the runs |

The workspace around them:

| Module | What it is |
| --- | --- |
| `Approvals` | one approval: votes under a policy of steps and quorums, routing, revisions, expiry, members who leave |
| `OutboundEmail` | extends it with the mail that an approval sends, and the settlement that may reopen it |
| `RunPlan` | extends it with the run that an approved plan continues, its budget, retries and outcome |
| `Decisions` | the decision of an application, invoice or agreement and its effects, when several people confirm |
| `Invitations` | the invitations of one address, their setup, their email and the capacity held for them |
| `TokenRefresh` | a stored OAuth token whose provider rotates it |
| `HubAccess` | who may listen to the hubs: sockets, windows, tickets, eviction |
| `LiveUpdates` | committed events from the outbox to a browser: publish jobs, fan-out, replay, the client's cursor |
| `WorkspaceMC` | one instance that composes all of these |

The proofs:

| Module | What it proves about |
| --- | --- |
| `RunControlProofs` | `RunControl` |
| `RunHermesProofs`, `RunLegacyProofs` | the two engines, and that each implements `RunControl` |
| `JobsProofs` | `Jobs`, and that it implements `JobPromise` |
| `RunQueueProofs` | `RunQueue` |
| `ApprovalsProofs` | `Approvals`, and on top of its invariant `OutboundEmail` and `RunPlan` |
| `PeopleProofs` | `Decisions` and `Invitations` |
| `WorkspaceProofs` | `TokenRefresh`, `HubAccess`, `LiveUpdates`, and the types of their composition in `WorkspaceMC` |

`RunControl` is an abstract specification for the engines: its `Engine` lets an
instance write any status its guards admit at any time, and the two engine modules
are proved to take only such steps (`ImplementsControl`). So what is proved of
`RunControl` holds of either engine. `Approvals` plays that part for mail and run
plans: both conjoin their own effects to its actions. Its decisions are every step
that a run plan takes on those variables, whereas mail also reopens an approval,
which is why `MailDecisions` proves its two properties again for `OutboundSpec`.

A definition that says "mutant" in its comment (`FreedLater`, `RetryAllowedAnyway`,
`ExtendedFromNow`, ...) is a plausible bug, used to see that a property notices it;
nothing refers to it.

## Correspondence with the code

`PROJECT.json` maps every definition to its lines. In outline, first the runs:

**RunControl.** `row` is the runs table, one record per run, numbered in order of
creation; `age` is `updated_at` against the clock, reduced to the two comparisons
the code makes (startup grace, orphan minutes). `handoff` is the request after its
commit; `publish`, `launch`, `recovery` are the jobs of each attempt; `inst` is the
Workflow instance as the platform reports it; `sweep` is a verdict on its way from
lookup to commit to `terminate`; `seen` is `run_sweep_observations`; `declined` is a
history variable.

| Code | Actions |
| --- | --- |
| `createTurn`: transaction, delivery, instance, retirement of the jobs | `CreateTurn`, `DeliverInitial`, `CreateDirect`, and `HandoffLost` between any of them |
| the drain of queued messages, as far as a run is concerned | `DrainQueued`, `DrainCreate` |
| publish and `run_launch` jobs | `RunPublish`, `LaunchRead` / `LaunchCreate` (the read and the call are apart), `LaunchFail`, `LaunchUnwanted` |
| `requestRunStop`, `stopRun` | `RequestRunStop` |
| removal of a member or a key, deletion of a workspace | `AdminStops` |
| `retryTask`, by a person or a job | `RetryTask`, `RecoveryRetry` (both `NewAttempt`) |
| `cancelRecovery`, `scheduleRunRecovery`, `runRecoveryJob` | `CancelRecovery`, `ScheduleRecovery`, `RecoverySkip`, `RecoveryRefused` / `RecoveryGiveUp` (two transactions, `RecoveryLost` between them) |
| `sweepWorkspace`, `verdictFor`, `terminateInstance` | `SweepInspect`, `SweepLookupFails`, `SweepVersionChanged`, `SweepObserve`, `SweepReap`, `SweepTerminate` |
| `setRunStatus`, `failAutomaticRecoveryExecution`, `stopOtherRunsOnProvider`, the bridge | `EngineWrites`, `EngineFailsClosed`, `EngineStopsOthers`, `BridgeWrites` |

Every write of a row resets `age` and outdates a verdict in flight (`Write`): that
is the sweep's `updated_at` comparison, translated once.

**RunHermes.** `pc` is where `runHermesAttempt` is, `ckpt` the last checkpointed
step, `request` and `bound` the two columns that hold the attempt a request is
stored for and a native run is bound to, `native` the native run (external: it
finishes or fails on its own). `Startup`, `Started`, `Prepare`, `Submit`, `Bind`,
`SubmitLocked`, `PollStop`, `PollTerminal` and `Finalize` follow the function in
order; `StepRetried`, `Throw` and `Replay` are the platform.

**RunLegacy.** The loop of `runAttempt`: `Boot`, `Started`, `Turn`, `Park`,
`Answered`, `KeyRefused`, `Finish`, with `ReplayStarted` and `ReplayPark` for what
a replay executes again between checkpoints.

**Jobs.** `status` and `locked` are the job's row, `pointer` its `job_ready` row.
A worker claims, runs, and reports in separate steps, and may be lost in each; a
lease expires at any time. Delays are left out because `claimJob` does not read
them.

**RunQueue.** Requests are single actions since each holds its run's row lock; the
drain is two (`DrainSelect`, `DrainCommit`) since its SELECT takes no lock.

**Approvals.** `approval` is the request's row, `revisions` and `votes` its
revisions and their votes, `routes` the latest route of each step, `active` the
members who still belong, `lapsed` whether the current revision's expiry is past.
Every command locks the row and names the revision its sender read, so a command is
one action with a `read` parameter. `Feasible` is the check that the policy can be
met by distinct people and that no owner can be avoided; it is asked again by every
command that depends on it.

| Code (`domain/approvals.ts`) | Actions |
| --- | --- |
| `decideApproval`, `progress`, `finalizeApproval` | `CastVote`, `FinalVote` (the vote that completes every step), `Refuse` (decline or request changes) |
| `writeRevision` for an edit, a replacement after a requested change | `Revise` |
| `routeApproval` | `Route` |
| `markExpired` | `MarkExpired`; `Lapse` is time |
| membership | `MemberChanges` |

**OutboundEmail.** `outbox` and `job` are keyed by revision and recipient, `worker`
is what each execution of a send job is doing, `hook` the continuation job of each
revision. `Answer` is what the provider does and whether it says so: `lost` and
`unclear` look alike to the worker.

| Code | Actions |
| --- | --- |
| `queueApprovedEmail` in the final vote's transaction | `FinalizeMail`; `ContinueMail` is the job it leaves for the agent's work |
| the send job up to its commit of `sending` | `Claim`, then one of `PrepareNothing`, `PrepareInterrupted` (found `sending`: uncertain, for a person), `PrepareCancelled`, `PrepareUnavailable`, `PrepareSend`, `PrepareThrows` |
| the provider's call | `CallProvider` |
| the transaction that commits the answer, the report of the job | `RecordSent`, `RecordFailure`, `Finish`, `Fail` |
| a process lost, a lease that runs out | `Crash`, `Expire` (the worker may go on) |
| `completeSendingOAuth`, disconnection, suppression | `Connect`, `Disconnect`, `Suppress` |
| the settlement of an uncertain row, `reopenApprovalForResend` | `SettleSent`, `SettleNotSent` (writes a revision of the unsent and makes it pending) |

**RunPlan.** `intent` and `planJob` are what the final vote commits, `planRun` the
run, `budget` and `call` the rows of the reservations. What blocks or refuses an
intent is a choice; that the outcome is projected onto the approval is not.

| Code | Actions |
| --- | --- |
| `admitApprovalContinuation` | `AdmitNothing`, `AdmitRefused`, `AdmitBlocked`, `Admit`, `AdmitReplayed` |
| `project_approval_continuation_outcome`, from the two engines' final writes | `Project`, in `EngineEnds` |
| the sweep's end of a run, which projects nothing | `SweepEnds` |
| Stop and Retry of such a run | `StopPlan`, `RetryPlan` |
| `reserve_approval_model_budget` | `Reserve` |
| the provider's stream and `reconcile_approval_model_budget` | `Answered`, `SettleCall`, and `CallLost` |

**Decisions.** `asked` and `decided` are the request and its decision, `confirmers`
those who confirmed, `pressing` a press that passed `requireDecider` and waits for
the request's lock, `todo` and `carriers` the effects. Roles and the rule (`decides`,
`carries`, `needed`) change at any time. `Press` is the check; `PressTooLate`,
`Confirm`, `Approve` and `Decline` are the transaction; `CarryConfirm` and
`CarryOut` the presses on an effect, checked under its lock; `NewVersion` withdraws
a request and cancels what is pending of its effects.

**Invitations.** `invitation` is each row of the address, `operation` its setup,
`seat` the capacity, `sendDue` and `sender` the send job and its workers; `late`
rows are past their expiry, which every transaction that looks at them commits
(`Swept`). A seat whose grant is no longer as reviewed fails the transaction that
would reserve it, and a later one quarantines it (`reported`, `QuarantineSeat`).
WorkOS may have taken the email whatever it answers: `unavailable` stands for 429 and
every 5xx, after which the code sends again, `refused` for the other 4xx and for no
answer, after which it does not. `misled` counts, for each row, how often the code let
a row be sent again that WorkOS may have: each 5xx that followed an acceptance, and
each `SendUnconfigured` of a row that was being sent.

| Code | Actions |
| --- | --- |
| create, with or without a setup, and again | `InviteSetup`, `InviteNow`, `InviteAgain` |
| resend, withdraw, expire | `ResendSetup` / `ResendNow`, `Withdraw`, `ExpireInvitations` |
| the steps of a setup | `StepReserves`, `StepDelivers`, `StepCancels`, `StepRevoked`, `Wake` |
| `runWorkosSync` | `SendUnconfigured` (the claim that finds no WorkOS), `SendNothing`, `SendRefused`, `SendBegins`, `CallWorkos`, `RecordDelivered`, `RecordCommitFails`, `RecordFailed`, `SenderLost` |
| readiness proof and acceptance | `Prove`, `ProofTooOld`, `Join` |
| drift, quarantine, and the report that is lost | `GrantChanges`, `QuarantineSeat`, `ReportLost` |

**TokenRefresh.** Tokens are numbered as issued; `live` are those the provider still
honours. The refresh is one transaction under the row's lock, the provider's call
included: `NotNeeded`, `Unanswered`, `ExchangeRefused`, `Exchanged`, or, when its
store fails, `StoreFails` or `AnswerLost`. The later stores are transactions of
their own (`StoreAgain`, `StoreAgainFails`), and so is `Quarantine`; `Reconnect` and
`DisconnectAccount` come between. A COMMIT whose outcome is unknown, and a grant that the
provider revokes on its own, are left out.

**HubAccess.** Time is a count of ticks, a window is `Window` of them. The Worker
asks the members table in `Upgrade` and `MintTicket`; the hub in `Accept`,
`PresentTicket`, `Publish` and `Evict` does not. `Remove` commits the evict job.

**LiveUpdates.** `event` is each outbox row as it is drawn (its id), committed or
rolled back; `publish` its job; `wire` and `frames` the sockets; `client` the
variables of `createHub`, `replay` the catch-up in flight. `Draw`, `Commit`,
`RollBack` and `Deliver` are the server, `Receive`, `NextPage`, `LastPage`,
`AuditFails`, `Checked`, `Dropped`, `CatchUpFails`, `Dial`, `Opens`, `GoesDead`,
`Closes`, `Poll` and `Reconcile` the client, `AnswerReplay` the replay route.

## Runs and bounds

| Run | Instance | What it shows |
| --- | --- | --- |
| `run_control` | 2 runs of one session, 2 attempts | the control plane against an engine that may write at any time: terminal and stop flags, publication before launch, reaping only what is over, one active run, promised and wanted retries |
| `run_control_live` | 1 run, 2 attempts, fair | a Stop ends the run, an undriven run does not stay active, a promised retry is resolved, though no engine need ever act |
| `run_hermes` | 2 runs in two sessions of one agent, 2 attempts | the adapter refines the control plane's engine; outcomes are the attempt's own; the profile is exclusive |
| `run_legacy` | the same | the Enterprise engine refines the control plane's engine |
| `jobs` | 2 workers, 2 jobs, one pausable, fair | the queue implements its promise; pointers agree with rows; every job is done |
| `run_queue` | 2 sessions, 2 messages, 2 Crons, fair | sent once, in order, and eventually |
| `workspace` | the second group, see [below](#the-workspace-run); fair sends | approvals have their quorum; mail is not sent twice, not left `sending`; a plan runs once within its budget; a decision takes enough people; a seat is held for one live invitation; a token is spent once; a removed member hears nothing; no event is skipped |
| `hermes_stop`, `legacy_waits`, `jobs_lease`, `queue_removed`, `queue_starved` | the smallest instance | see [disagreements](#disagreements-with-the-documentation) |

Why these bounds are enough to be interesting: every hazard of the control plane is
between one attempt and its successor, or between one run and a newer one of its
session, so two of each exhibit it; a third repeats it. The theorems cover all
other values. The state constraints are named in the MC modules:

* `LaterRunIsPlain` (`run_control`): the second run is handed off without loss and
  is neither stopped, parked nor swept, so that it exists, ends or does not end
  while the first recovers. What it forbids the second run, the first one does.
* `FirstIsHandedOff` (`run_control_live`): a second attempt starts after the first
  hand-off is over. A constraint drops the behaviours that leave it, so the
  liveness properties are checked of those that stay within.
* `OneRunOrTwoPlain` (`run_hermes`, `run_legacy`): one run with everything that can
  happen to it, or two that compete for the runtime; in `run_legacy` two runs
  exist so that a refused key of one stops the other. Rows stay inside the grace:
  what the sweep does to older rows is `run_control`'s subject. `run_hermes` also
  publishes a second attempt before it launches it, sweeps it only once the
  instance of the first has ended, and cancels a recovery only by a Stop: the two
  instances still overlap at every one of their places.

Deadlock is not checked where the system may stop: all runs may have ended and the
bound on their number been reached. `jobs` checks it.

### The workspace run

The parts share no state but the approval of mail and of a plan, and never both in
one instance. `part`, chosen in the initial state, is the one that moves, so the run
explores their sum (some 358,000 distinct states) and not their product.

| Part | Instance |
| --- | --- |
| `mail` | 3 members, one of whom asks and may not review her own; two steps, each with a quorum of one, the first open to all three and the second to two; 2 revisions; one recipient, who may become suppressed; 2 workers, 2 attempts of a row, 1 crash |
| `plan` | the same policy; 2 model calls of at most 2 tokens against caps of 2 tokens and 2 calls; 1 retry |
| `decide` | 3 people, one of whom prepared the request; rules of one or two; one effect |
| `invite` | 2 invitations, 2 seats, 2 workers |
| `token` | 2 requests, 4 tokens, 3 attempts to store |
| `access` | 1 hub, 1 socket, a window of 2 ticks, 3 ticks |
| `stream` | 3 events, 3 sockets, pages of 1 event, 2 pages a catch-up, one frame under way |

Two of each exhibit the hazards: an old and a new revision, a worker and the one that
outlived its lease, a refresh and the one that waits for its lock, an invitation and
the one that supersedes it. `stream` needs three events, since what a cursor passes
is between one it has and one it gets; `decide` needs three people for two of them
to confirm a request of the third. The theorems cover all other values. The
constraints, named in `WorkspaceMC`:

* `DecisionOrSends` (`mail`): until a send has begun the approval may be decided in
  every way, that is, with members who leave, routes, expiry and refusals
  (`NothingSent`). After that the send may go every way, while each revision is
  decided plainly (`DecidedPlainly`) and some events keep an order that matters to
  neither (`EarlyEvents`): the agent's work continues before a send, a recipient is
  suppressed before the first one. The send reads of a decision only whether the
  approval is approved in the row's revision.
* `PlanDecidedPlainly` (`plan`): decisions are those of `mail`; here the plan is
  approved plainly and may lapse.
* `FewInvitations` (`invite`): there is one difficulty at a time around a send: two
  workers, or a second invitation, or late rows, or a drifting seat; and a row
  misleads the code once.
* `FewPress` (`decide`): roles change for the decision before it and for the effects
  after it, by one person, and two presses wait at most.
* `ShortStream` (`stream`): four events and sockets in all, so that three events are
  seen by one connection, two by two, one by three.

`NothingSkipped` says which events a cursor may pass (`exposed`); the property is
about every other. `CapacityIsHeld` and `SpentOnce` likewise name the one exception
each of them has in the code, by a history variable (`strayed`, `unstored`), and
`InvitedOnceUnlessMisled` the two it has, by a count (`misled`): an invitation is mailed
at most once more than the code was misled. Without either of the two TLC finds the
second email.


## Fairness

`RunControl`: the Cron runs every minute (`SweepFairness`), so a lookup that reaches
a verdict, the observation of an absence, the commit and the terminate each happen
if they are possible again and again. Strong fairness is needed for lookup and
commit because any write of the row outdates a verdict: if a run kept being
touched for ever no weak assumption would help, and in the code each minute brings
a new lookup. A lookup may fail, but not every time an absence waits to be
confirmed. A job is retried until it is done (`RecoveryFairness`). Of the engines
nothing is assumed but that an instance of an attempt ends some day; in particular
not that it reacts to a Stop, which is why `StopEnds` says something of the sweep.

`Jobs`: the Cron claims what it finds, a lease expires, a worker that is not lost
takes its next step, and a job that is run again and again is settled some day.
The flag of member provisioning is on some day, else a paused job rightly waits.

`OutboundEmail` (`SendFairness`): the Cron claims what is due again and again, a lease
that is held expires, a worker that is not lost takes its next step, and a row found
`sending` is not for ever found by a transaction that throws. `SendingResolves` says
that no row stays `sending`; it assumes that no worker outlives its lease into
another's, because with one that does the job is reported done over a row that is
`sending` (see [disagreements](#disagreements-with-the-documentation)). The other
parts of the workspace run have safety properties only.

`RunQueue`: runs end, which `run_control_live` shows of those that are stopped or
undriven, and a drain is not interrupted for ever.

## Proofs

`RunControlProofs` proves, for every number of runs, attempts and automatic
attempts and every assignment of sessions, of `RunControl!Spec`:

| Theorem | Property |
| --- | --- |
| `TypeCorrect` | `TypeOK` |
| `LaunchesAfterPublish` | `LaunchAfterPublish` |
| `ReapsOnlyTheOver` | `ReapIsOver` |
| `PromisesHaveJobs` | `DueHasJob` |
| `OneActiveRunPerSession` | `OneActiveRun` |
| `TerminalStays` | `TerminalIsFinal` |
| `StopStays` | `StopIsSticky` |
| `RetriesAreWanted` | `OnlyWantedRetries` |

The assumptions are those of the module: `NRun` and `MaxAttempt` are positive
naturals and `MaxAutomatic` is a natural. `SessionOf` is arbitrary.

None of the invariants is inductive alone. `IInv` adds:

* `Unborn`, `Born`, `Ahead`: nothing refers to a run without a row, or to an attempt
  the row has not reached. Without it a new attempt could find an instance left
  there, and `LaunchAfterPublish` would not survive a Retry.
* `VerdictIsFresh`: a verdict waiting for the sweep's transaction is about the
  attempt the row is at, and the row is active. It is what the `updated_at`
  comparison buys, and what makes `ReapIsOver` and `TerminalIsFinal` survive
  `SweepReap`.
* `CreatorsWaited`: whoever has decided to create an instance has already seen the
  publication acknowledged, so it does not matter that the call comes later.
* `DueIsRetryable`: while a retry is promised the row is neither stopped nor
  cancelled nor out of attempts, so `RecoverySkip` never drops a promised retry.
  `DueHasJob` depends on it.
* `DeclinedIsCancelled`: what a person declined is cancelled in the row, from which
  `OnlyWantedRetries` follows.

`NextKeeps` proves that each action keeps `IInv` and takes no step that
`TerminalIsFinal`, `StopIsSticky` or `OnlyWantedRetries` forbid. Actions fall in
four classes, each with a lemma: writes of one row within its attempt
(`RowStepKeeps`, with `WriteKeeps` for an UPDATE that outdates the verdict), steps
that leave the rows alone (`FrameKeeps`), a new attempt (`NewAttemptKeeps`), and an
admission (`AdmittedKeeps`); `AskToStopKeeps` is the one statement on several rows.
Three lemmas (`NextGoesOn`, `AttemptsGrow`, `InstancesStay`) say of any step of the
control plane what the engines' invariants need to survive it.

The engines are proved to be such engines, for the same constants:

| Module | Theorem | Property |
| --- | --- | --- |
| `RunHermesProofs` | `HermesTyping` | `HermesTypeOK` |
| | `HermesImplementsControl` | `ImplementsControl` |
| | `ProfileIsExclusiveAlways` | `ProfileIsExclusive` |
| | `OutcomeIsOwnAlways` | `OutcomeIsOwn` |
| | `HermesKeepsControl` | the properties of `RunControlProofs`, of `HermesSpec` |
| `RunLegacyProofs` | `LegacyTyping` | `LegacyTypeOK` |
| | `LegacyImplementsControl` | `ImplementsControl` |
| | `LegacyKeepsControl` | the properties of `RunControlProofs`, of `LegacySpec` |

They are about the modules' own specifications: the bounds of the runs (a plain first
hand-off, every row inside its grace, one run with everything or two plain ones; see
`RunHermesMC` and `RunLegacyMC`) are not theirs.

`HermesInv` is `IInv`, the types, `ProfileIsExclusive`, and three parts that relate
the adapter to the rows. `RequestReached`: no request is stored for an attempt that
the row has not reached; otherwise a Retry would give its run a request nobody
prepared, and `ProfileIsExclusive` would fail without any native start.
`NativeHasInstance`: a native run was submitted by an instance, so that a tool call,
which writes the row from outside any instance, is still a write of an attempt that
was launched, as `Engine` asks. `FinalHasOutcome`: an instance about to finalize knows its
outcome. `SameRequestsKeep` and `NewRequestKeeps` are the two ways in which
`ProfileIsExclusive` survives: a request that stays, under rows that become active
only by an admission or a Retry; and one that is stored by a guarded statement, while
no other run has one. For `OutcomeIsOwn`, `WriterIsCurrent` goes through every
action that writes a row of a live instance: the writes that can complete or fail a
row are fenced by the attempt, those that are not can only stop it
(`WriterMovesItself`, `WrittenStatus`). `LegacyInv` is `IInv`, the types, and
`FinishingHasOutcome`; the older engine has no fence, so nothing like `OutcomeIsOwn`
holds of it.

The refinement has one lemma per action of an adapter (`StartupOK`, `PrepareOK`,
`PollOK`, ...; `OnTheWayOK`, `FinishOK`, ... of the older engine): it takes a step
that `Engine` allows, or one that `RunControl` does not see. Actions which are
`RunControl`'s own are conjoined with what they do to the adapter
(`ForgetFacts`, `ForgetMoves`).

`RunQueueProofs` proves `QueueTyping` (`TypeOK`), `SentOnceAlways` (`SentOnce`) and
`SentInOrderAlways` (`SentInOrder`), for any number of turns, messages and Crons and
any sessions; `BoundsAssumption` says that the first two are naturals. `QueueInv` adds:

* `SentIsRun`: a message has been sent exactly once if the run with its id exists and
  never otherwise, which is the uniqueness that `drainRunQueues` relies on.
* `SelectedIsFirst`: what a Cron holds from its SELECT overtakes no message of its run
  that is still queued. It survives what happens before the commit because a message
  that is queued later comes after it (`NextPositionIsLast`, by `MaxIsUpper`, which
  finds the maximum of bounded integers by well-foundedness), and no status ever
  returns to `queued`.
* `OfItsRun`: a message keeps the run it was queued behind. `InTurn`: its position is
  below its number, so that positions stay within their type.

`JobsProofs` proves, for any workers and jobs:

| Theorem | Property |
| --- | --- |
| `TypeCorrect` | `TypeOK` |
| `PointersAreExact` | `PointerIffQueued` |
| `JobsKeepThePromise` | `ImplementsPromise` |

Its invariant adds `WorkersHaveJobs`, that a worker which is not idle works on a
committed job, and `ReportersSettled`, that a worker about to report a job done has
seen its side effect settled. The refinement then has one lemma per kind of step:
`EnqueueSimulated` makes the promise, `SettleSimulated` is the side effect,
`FinishSimulated` keeps the promise or, for a late report of a job that is done
already, changes nothing; every other step is invisible to `JobPromise`.

The workspace's theorems hold for any members, policy, recipients, workers, calls,
caps, seats, invitations, hubs, sockets, people and so on, under the assumptions of
each module (finite members and people, positive quorums and windows):

| Module | Theorem | Property |
| --- | --- | --- |
| `ApprovalsProofs` | `ApprovalsTyping`, `ApprovedByQuorumAlways`, `OutcomesStandAlways` | `ApprovalsTypeOK`, `ApprovedByQuorum`, `OutcomesStand` |
| | `OutboundTyping`, `NotSentTwiceAlways`, `ContinuesOnceAlways`, `MailDecisions` | `OutboundTypeOK`, `NotSentTwice`, `ContinuesOnce`, and the two of `Approvals` under mail |
| | `PlanTyping`, `WithinBudgetAlways`, `OneRunPerPlanAlways` | `PlanTypeOK`, `WithinBudget`, `OneRunPerPlan` |
| `PeopleProofs` | `DecisionTyping`, `TakesEnoughPeopleAlways`, `InviteTyping`, `InvitedOnceUnlessMisledAlways`, `CapacityIsHeldAlways` | `DecisionTypeOK`, `TakesEnoughPeople`, `InviteTypeOK`, `InvitedOnceUnlessMisled`, `CapacityIsHeld` |
| `WorkspaceProofs` | `TokenTyping`, `SpentOnceAlways`, `DisconnectStandsAlways` | `TokenTypeOK`, `SpentOnce`, `DisconnectStands` |
| | `AccessTyping`, `RemovalTakesEffectAlways` | `AccessTypeOK`, `RemovalTakesEffect` |
| | `StreamTyping`, `NothingSkippedAlways` | `StreamTypeOK`, `NothingSkipped` |
| | `WorkspaceTyping` | `WorkspaceTypeOK` |

Their invariants, and why each part is needed:

* `ApprovalsProofs!IInv`. `VotesAreBound`: a vote was cast by someone who had read
  the revision it counts for, and nobody has two in one revision; without it the
  votes of two steps might be one person's. `RevisionIsCurrent`: the request shows
  its revision's status and later revisions are blank, so that writing one cannot
  touch a decided one. `PendingIsUnrefused`: the votes a final vote completes
  contain no refusal.
* `ApprovalsProofs!MailInv`. `RowsInv` says of each row what has been delivered
  by its state (fresh and cancelled rows untouched; one worker at the call), and of
  the rows of one recipient that a later one exists only
  when the earlier ones were cancelled: this is what `NotSentTwice` rests on across revisions.
  `HookFollows`: a revision's work has been continued only if it was approved, and a
  revision after it exists only because rows do, so a later final vote finds them.
* `ApprovalsProofs!PlanInv`. `SpendInv` is the budget: at most one call is held, what it
  may use is reserved, what is billed is covered by what is settled and held, and the
  calls are counted. `IntentInv` ties the one run to the one intent and the approved
  revision; `OverInv` says what an intent that is over implies, and survives a retry
  because `RetryAllowed` asks for the admitted intent.
* `WorkspaceProofs!TokenInv` adds `HeldMeansUnstored`: a request holds an answer only
  after a store failed. `WorkspaceProofs!AccessInv` adds `Reach`: no ticket and no window
  lasts beyond a window from the removal, or from now while there is none.
* `PeopleProofs` has three. `DecisionInv` adds that the request's status is the
  decision's. `MailFits` is a count: the emails of a row that WorkOS accepted, the
  workers that ask it or have yet to record that it was unavailable (`Asking`), and one
  if a send may still begin (`SendsLeft`), come to at most one more than the code was
  misled; each action moves a unit from one of these to another, or pays for a new one
  with `misled`. `CapacityFits`: a
  seat has a holder exactly while reserved or assigned, the holder's row agrees, and
  no two seats have one holder.

The longest argument is that of `NothingSkipped`, in `WorkspaceProofs!StreamInv`. Call
an event *owed* while it is committed, neither applied nor `exposed` (`Owed`). The
client may receive an event later than an owed one from three places: the frames on
their way, its buffer, and the page a catch-up has read. Each has an order:

* `FramesInOrder`: an owed event before a frame is either earlier on that socket, or
  *accounted for*: in the buffer, or still to come by a catch-up (`Caught`).
* `Handed`: a socket that the hub has will bring every owed event that is published, or
  it is accounted for. This is what opening a socket must establish, by the catch-up
  that starts with it, and what a fan-out keeps.
* `BufferInOrder`: an owed event before a buffered one is accounted for, so that the
  end of a catch-up applies the buffer without passing any.
* `PageFirst`: a page leaves out no owed event before one of its own.
* `Beneath` is what these rest on. `OutboxInOrder`: an event that commits or is
  published after a later one is exposed, so a new owed event is the latest.
  `Known`: what anybody holds was committed, and what is live was published. `Phases`:
  nothing is sent before a socket opened, and live events are buffered while a
  catch-up asks for pages.

The exposures of the section below enter as the steps that exempt an event from being
owed: each is a step at which one of these orders would otherwise be lost.
`StreamTypeOK` is not inductive either: that a client counts one refused handshake a
socket at most is `SocketInv`, a bound on the count by the sockets that are closed.
`WorkspaceInv` says of the composition that the part in use satisfies its own
invariant, from which `WorkspaceTyping` follows.

TLC was given each inductive invariant before it was proved, as an invariant of a
run over the module itself: among the latest, `QueueInv` (1,454,958 states),
`HermesInv` (656,378), `LegacyInv` (301,595), and `StreamInv` with three events, three
sockets and two frames (6,557,245 states with a hub that reconciles a reconnection,
2,935,685 with one that does not).

Every invariant and action property of the passing runs is thus stated by a theorem.
Only model-checked are the liveness properties (`StopEnds`, `UndrivenEnds`,
`RecoveryResolves`, `EventuallyDone`, `SentUnlessUnwritable`, `SendingResolves`):
liveness under fairness, and the ENABLED it rests on, are out of the prover's reach.

## Disagreements with the documentation

Five runs end in a counterexample to a sentence of the repository; the sentences
are quoted in `PROJECT.json`.

* `hermes_stop`: an instance that read a Stop at startup writes `stopped` by the
  run's id; after a sweep and a Retry in between it stops the next attempt. The
  adapter's other terminal writes are fenced by the attempt.
* `legacy_waits`: a replay of an answered context question writes `waiting` again.
  Of the park before an operation approval the comment there is true.
* `jobs_lease`: `failJob` clears a lease by the job's id; a worker that outlived its
  own lease clears its successor's.
* `queue_removed`: the drain marks a message `sent` that was removed after its
  SELECT.
* `queue_starved`: messages of removed members stay at the head of the drain's
  page. `SentUnlessUnwritable` in `run_queue` is what holds instead.

Seen on the way, without a run of their own. Of the runs: the Enterprise engine's
`finish` is guarded by the terminal statuses alone, so an outlived instance may
complete its successor attempt; and either engine may write `working` or `waiting`
over `stopping`. The second is why a Stop is the flag and not the status, and why
`StopIsSticky` is about the flag.

Of the workspace; the first four are defined as properties (`CoversUnsent`,
`QueuedHasJob`, `HeldTokenIsStored`, `InvitedOnce`), and TLC gives the trace if one is added to
`Workspace.cfg`:

* `domain/approvals.ts:1687-1703` says that the revision written when an unsent mail
  is reopened covers every unsent recipient. A recipient who is being sent at that
  moment and is found unsent later is not covered (`CoversUnsent`).
* Connecting an account queues the rows that wait for it and readies their jobs; a
  send job that has read its row as waiting and has not finished yet
  (`outbound-email/send-job.ts:159-161`) then reports done over a row that is queued
  (`QueuedHasJob`).
* Between a failed store of a rotated token and the next attempt the row is free:
  another request spends the spent token and quarantines the account, although the
  first still holds the good one (`HeldTokenIsStored`). The late store may also
  overwrite the token of a reconnection made meanwhile, and the late quarantine mark
  that connection as broken.
* `jobs.ts:707-709` keeps an accepted invitation from being replayed, because that
  "could send a second email". Two other ways do send one (`InvitedOnce`). Every 5xx
  counts as unavailable and is retried (`ops/invitation-diagnostics.ts:221-228`), also
  the 502 or 504 of a gateway behind which WorkOS accepted. And a claim that finds
  WorkOS not configured (`jobs.ts:493-511`) makes a row found `sending` a retryable
  failure, although the send that left it so may have been accepted.
* A worker that outlives its lease while another takes its row over may leave the
  row `sending` under a job that is done, where `routes/outbound-email.ts:212-213`
  says a send finishes or becomes uncertain on its own; and its late failure may
  overwrite the effect `executed` by `failed` (`outbound-email/send-job.ts:254-266`).
* In `decideApproval`, a member routed to one step may still vote on another, a step
  routed to a member who left is closed to everybody else, and a vote counts for the
  first step open to its sender even if only another step needs that person.
* A run plan revised before its approval has no intent for the second revision, so
  the work is shown as completed without a run. A run of a plan that the sweep ends
  leaves the approval's work `admitted`, since the projection is called by the engines
  alone (`runtime/store.ts:65,101`). A process lost during a model call leaves its
  reservation held, and no later call of that run is admitted.
* Ids of events are drawn before their transactions commit, so a lower id may be
  committed, or published, after the cursor passed it (`hubs.ts:3-8` and
  `jobs.ts:1088-1090` say a client cannot miss one). In `apps/client/src/model/hub.ts` a catch-up of a dropped
  connection serves the next one, whose buffer was just discarded; a late `onclose` of
  an old socket forgets the new one; and a catch-up that ends at `MAX_REPLAY_PAGES`
  goes on to apply live events beyond the gap. These are the cases of `exposed`.
* A withdrawal or a resend while WorkOS is being called leaves an invitation live
  there, and may leave its address with two emails, of two rows. A repeated request
  for an expired row expires it and reserves a seat for it in one transaction
  (`strayed`). A drifted seat that is available makes every reservation fail until it
  is quarantined.
* `requireDecider` runs before the request's lock is taken, so a press whose role was
  lost while it waited still declines, and is still named as the one who decided.
* A queued message edited between the drain's SELECT and its commit is sent with its
  earlier text.

## What is not modelled

Text, events, prompts, usage, latency and wording; refusals that write nothing
(caps, rate limits, model and key checks); the contents of a conversation, an
approval, a document or a mail.

By component, with the reasons in `PROJECT.json`:

* *Guidance* of a running attempt, *handoffs*, *inbound email*, *attachments*,
  *agent configuration* and the *queues' consumers* change one row, or rows of one
  key, in one conditional transaction each: there is little for a model to find
  beyond their statement.
* *Deletion of a workspace* and *rotation of the KEK* go through idempotent
  statements over tables that no other module has, once a single check has passed.
* The *partner workflow* and its screening are evidence and scoring over their own
  tables; *Slack* has the shape of outbound email, and its tokens that of
  `TokenRefresh`.
* *Authentication*, *wallets* and the *lifecycle of Hermes Cloud* are guards and
  calls around services whose state is elsewhere.
* Of the modelled components, the notes say what is left out: OAuth handshakes, the
  agents' own address, simulated replies, previews and snapshots, provisioning after
  somebody joined, paid searches.
* A turn of a conversation is admitted by two further writers: the approval
  continuation is in `RunPlan`, with a run of its own that ends, is stopped or is
  retried, and is not composed with `RunControl`'s instances and jobs; the partner
  workflow's job (`partner-workflow/job.ts:47-57`) admits a run as a turn does.

The modules map some 7,600 lines of about 118,000. Most of the rest is presentation
(views, styling and mock data of the client, motion components), declaration (the
schema, shared types, migrations that only create tables) and transformation
(prompts, providers' formats, parsing, evidence and scoring), which have no behaviour
over time for a state machine to describe.

## Plan

Built so far: the runs (control plane, both engines, jobs, queue), approvals with
mail and run plans, decisions, invitations with their capacity, token refresh, hubs
and live updates. What remains worth doing, in order:

1. `RunPlan` over `RunControl`, in place of its own run: the continuation as another
   way to admit one, and the sweep's end of it.
2. An abstract specification of a call that follows a commit (at most once after it,
   and known or uncertain in the end), of which the send of a mail and of an
   invitation are two implementations.
3. Guidance between two polls of the adapter; provisioning after somebody joined,
   with the pause that `Jobs` has; the deletion of a workspace with its cancellation.
4. Handoffs, the intake of mail, and the invoice settlement of the partner workflow.
