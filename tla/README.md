# Verification of china-smm-os: durable publishing, its alerts, automation and ingestion

TLA+ modules, TLC configurations and TLAPS proofs for the part of china-smm-os
where concurrent processes share durable state: publishing a client's content
to social networks exactly when, and never more often than, somebody asked for
it; telling operators when that went wrong; working off failed automation; and
taking in the messages that content is made of. All paths below are relative
to `src/`.

## 1. Inventory

The program is a FastAPI backend over PostgreSQL with a set of worker
processes (`backend/app/workers/`), a web and a mobile front end. Most of its
500 service files read and write rows inside one request and have no protocol
of their own. The parts with a protocol are the ones below. Everything they
share is in the database: there is no message broker, processes meet only in
rows, row locks, advisory locks and unique indexes.

### The normal publish path and scheduled publishing (`PublishAttempts`)

`services/publish_service.py`, `publish_resilience.py`,
`publish_write_coordination.py`, `scheduled_publish_service.py`

| part | state | operations |
|---|---|---|
| `publish_content` | the content item's `status`, `published_at`, `updated_at`; the session's uncommitted rows; results in memory | recover what is stale, validate, mark `publishing`, go through the platforms, give the final status; on an exception the `finally` clause |
| claims (`begin_attempt`, `finalize_attempt`) | `publish_attempts` rows, `idempotency_key`, lease | look for a success, for a claim in progress and at the number of attempts; insert; write the outcome |
| destination coordination | a transaction-level advisory lock per destination, `PUBLISH_WRITE_COORDINATION_ENABLED` | lock, look for unresolved writes, claim in any version |
| recovery | stale attempts and items | read what is stale, write it by primary key |
| scheduler | `scheduled` items, `retrying` attempts | tick with recovery, claim a due item, run due retries, release to scheduled |

*Hard*: rows are read without a lock and written later by primary key; a claim
is committed early only for Meta platforms or with coordination; the call to
the provider stands between claim and outcome; cancellation, exception and
death each leave something different; a slow call outlives its lease; an error
answer may come after the post was made. *Correct* means: a Meta post that
exists is accounted for, unless the provider itself concealed it; a key is used
once; with coordination one claim per destination; "published" is true; nothing
stays in `publishing` or in progress.

### The retry-command pipeline (`RetryCommand`)

`services/publish_retry_command_*.py`, `workers/publish_retry_command_worker.py`

| part | state | operations |
|---|---|---|
| creation (`publish_retry_command_service.py`) | one `publish_retry_commands` row per request | find by idempotency key, insert, collapse on the partial unique index over *active* rows |
| claim (`..._claim_service.py`) | `status`, `lease_owner`, `lease_expires_at` | one transaction: reclaim stale `claimed` rows, then claim `pending` rows, oldest first, `FOR UPDATE SKIP LOCKED`, at most a batch |
| preparation, TX1 (`..._preparation_service.py`) | the linked `publish_attempts` row, `resulting_attempt_id` | check ownership and lease, look for a live success, create or reuse the attempt in `operator_review / retry_command_prepared` |
| write barrier, TX2 (`..._barrier_service.py`) | `provider_write_started_at`, the attempt's `failure_code` | check ownership, linkage and live success again, mark both rows |
| executor (`..._executor.py`) and provider port, classifier | outcome in memory | TX1, stop check, TX2, one provider call outside any transaction, classification, TX3; never a second call |
| finalization, TX3 (`..._finalization_service.py`) | terminal status of both rows | success with a post id, definitive failure, ambiguous |
| manual resolution (`..._manual_resolution_service.py`) | the same two rows, audits | an operator ends a post-barrier row as ambiguous or as a success with evidence |
| worker (`publish_retry_command_worker.py`) | stop flag, "drain territory", batch in memory | poll, hand each row to the executor, SIGTERM before and after the barrier, hard exit after the drain deadline |

*Hard*: leases that expire under a working owner, reclaim at every point before
the barrier, death at every point, three transactions around a call that cannot
be undone, an outcome that is only in memory, an operator acting on the same
row. *Correct* means: one command causes at most one provider call; a post that
exists is never reported as a failure or sent again; the two rows end once,
together, and agree; no row becomes unreachable; rows of dead workers move on.

### The write coordination registry (`WriteRegistry`)

`services/publish_write_coordination_registry_service.py` and its repository

| part | state | operations |
|---|---|---|
| registry row, one per publication intent of a destination | `state`, `generation`, `version`, owner type and id, lease | acquire, mark write started, record safe failure, success or ambiguity, surface a stranded write, resolve, supersede |

The service is dormant: a shadow observer and tests call it, live paths do not.
*Hard*: reservations that expire under their holder, processes that share an
owner name, answers that are lost or read after the row moved on, judgements
from old readings. *Correct* means: no second write without a verdict on the
first; only the caller that started a write says how it ended.

### The Telegram inbox (`WebhookQueue`)

`services/telegram_webhook_queue_service.py`, `workers/telegram_webhook_worker.py`,
and of `telegram_service.py`, `telegram_group_agent_service.py` and
`telegram_ingestion_service.py` what `process_update` keeps in tables

| part | state | operations |
|---|---|---|
| webhook (`api/v1/telegram.py`) | one `telegram_webhook_events` row per `update_id` | insert, or do nothing on a duplicate delivery |
| queue | `status`, `attempts`, `available_at`, `lease_owner`, `lease_expires_at` | claim a batch, mark completed, mark failed with backoff |
| `process_update` | `telegram_processed_updates`, `content_items.telegram_message_id` | skip what was processed, look for duplicate content, create it, record the update |
| worker | batch in memory, `worker_id` | claim, handle one row after the other, poll |

*Hard*: one lease for a whole batch that nothing renews; the content item, the
processed mark and the completed row are separate commits; the marks read the
owner without a lock and then update by primary key. *Correct* means: a
completed row was really handled; an update is given up only when its attempts
are used up; a message becomes one content item, or at worst one per claim; no
update is forgotten.

### The Telegram alert outbox (`AlertOutbox`)

`services/publish_alert_telegram_outbox_service.py` and its worker

| part | state | operations |
|---|---|---|
| outbox row, one per alert, recipient and kind | `status`, `attempt`, `max_attempts`, lease owner and expiry | enqueue, claim a batch, process (settings, quiet hours, send, outcome) |
| admin API | the same rows | cancel, manual retry, tenant settings |

*Hard*: the message is shown before the row says so; the worker and the
operator decide on rows they read without a lock. *Correct* means: "delivered"
is true, a second message has a cause, a delivery comes to an end.

### Automation jobs (`AutomationJobs`)

`services/automation_job_service.py`, `automation_scheduler_service.py`,
`automation_execution_service.py`, `automation_actions/executor.py`,
`workers/automation_scheduler_worker.py`, and of `crm_service.py` the commit in
`create_lead`

| part | state | operations |
|---|---|---|
| job, one per root execution, attempt number and requeue generation | `status`, lease, recovery counter | enqueue, recover expired leases, claim, process, cancel, requeue |
| execution | `running` or a result, and the retry number | decide, count the next number, execute or adopt, enqueue the next retry |

*Hard*: the lease is checked on a row that is not locked; a retry number is
counted before it is inserted; the action `create_crm_lead` commits the worker's
transaction in the middle of the execution, so that others see a job and an
execution that are running and may take the job over; an exception ends a job
and commits what was written before it; jobs, API and recovery meet in the same
chain. *Correct* means: a job runs once, its status tells what ran, a failure is
followed up unless that itself failed, results are never written over, every
job ends.

### Not modelled

- *Stranded detector and operator alerts* (`publish_retry_command_stranded_detector.py`,
  `publish_operator_alert_service.py`): they open, bump and resolve alert rows
  inside the sessions of others. No publishing decision reads an alert. What was
  seen while reading them is listed under "Disagreements without a run".
- *Intentional publication requests*: off by default; one transaction under the
  lock of the content row inserts a request that nothing carries out yet.
- *Manual retry eligibility* is a pure evaluation over rows of other
  subsystems; its refusal is a choice in `RetryCommand`.
- *Immutable media vault*: create-once storage, one atomic operation of the
  storage service per object.
- *Measurement jobs*: leased ingestion that publishes nothing; the claim and the
  lease have the shape of `AutomationJobs`.
- *In-process event bus, shadow auto-acknowledgement*: sequential inside one
  request, or observing only.
- *Provider adapters* are network I/O and appear as the answers they can give.
- The CRM, AI, listening, campaign and reporting services, the HTTP layer,
  permissions, the clients, migrations and scripts have no concurrency of
  their own.

## 2. Plan

Each item is a module with CONSTANTS and named assumptions, one action per
operation, invariants as conjunctions of named parts and no RECURSIVE operator.

| | module | state |
|---|---|---|
| 1 | `RetryCommand` with the abstract `RetryPromise` | checked, proved |
| 2 | `WebhookQueue` | checked, proved |
| 3 | `PublishAttempts` with the abstract `PublishLedger` | checked, proved |
| 4 | `AlertOutbox` | checked, proved |
| 5 | `AutomationJobs` with the abstract `RetryChain` | checked, proved |
| 6 | `WriteRegistry` with the abstract `WriteAuthority` | checked, proved |
| 7 | destination writes: `RetryCommand` and `PublishAttempts` on one destination | open. Today the retry pipeline sees the normal path as `OtherPathSucceeds`, and the normal path sees an unresolved retry command as a refusal (`UnresolvedWrite`). TX1 and TX2 do not take the destination lock, so the composition is known not to exclude two writes; the code names that as a prerequisite of enabling the pipeline |
| 8 | operator alerts and the stranded detector beside `RetryCommand` | open |
| 9 | intentional requests | open, once something carries them out |

## 3. What is modelled

| module | content |
|---|---|
| `PublishAttempts` | one content item: the runs of `publish_content`, their claims and outcomes, recovery, the scheduler |
| `PublishLedger` | what the publish path promises about each Meta attempt, without sessions, leases, versions or recovery |
| `RetryPromise` | what the retry pipeline promises about one command, without workers, leases or rows |
| `RetryCommand` | the pipeline: rows, workers, environment, properties, the inductive invariant, fairness |
| `WebhookQueue` | the Telegram inbox: webhook, queue, workers, what `process_update` keeps in tables |
| `AlertOutbox` | the alert outbox: deliveries, workers, operators, settings |
| `AutomationJobs` | the durable retries of one failed execution: jobs, executions, workers, operators |
| `RetryChain` | what automation promises about the retries of one failed execution, without workers, leases, locks or recoveries |
| `WriteAuthority` | what the write registry promises about one intent, without rows, leases, names or versions |
| `WriteRegistry` | the registry: rows, callers, judges, properties, the inductive invariant |
| `MC...` | per module: constants that are functions, symmetry sets and constraints for TLC |
| `...Proofs`, `PublishAttemptsSafety` | the theorems |

A *fault* in a module is an operator that stands before the one it spoils and
is marked `Fault:`; no specification uses it (section 4, mutants).

### PublishAttempts

| variable | code |
|---|---|
| `content` | the content item: status, "published_at is set", `updated_at` as a count of its writes, "older than the stale limit" |
| `att` | the committed `publish_attempts` row of a run and a platform: status, version, attempt number, "lease or stale timeout has run out" |
| `draft` | what a run has flushed and not committed |
| `lock`, `advisory` | the row lock of the content item, the advisory lock of each destination |
| `kind`, `targets` | who called `publish_content` (user, scheduler, due retry) and for which platforms |
| `pc`, `cur`, `version`, `results`, `answer` | control point and local variables of a run |
| `stale` | rows a session has read as stale or open and will write by primary key |
| `posts` | history: posts that exist, as run and platform |
| `hidden` | history: those whose adapter answered with an error that is no timeout |

    idle --Begin...--> recover --Recover--> validate --Validate--> mark --MarkPublishing-->
    next --CheckPrior--> lock --BeginAttempt--> look --LookForClaim--> insert
         --InsertClaim--> call --CallProvider--> answer --FinalizeAttempt--> next
    next --Finish--> done

A scheduled run has its item claimed by `BeginScheduled` and skips `mark`.
`Interrupted` (any exception) rolls back and leads to `abort`, `Cancelled`
(`CancelledError` at the adapter's await) does not roll back and leads to
`cancelled`; both run `ForceTerminal`, the `finally` clause. A scheduled run
that fails reads (`ReadForRelease`) and then writes (`Release`) its item back.
`Crash` is the death of the process at any point. `SweepRead` and `SweepWrite`
are the scheduler's recovery, `Expire` and `GrowOld` the clock.

The idempotency key hashes `updated_at` (`publish_resilience.py:104`), so a
version is the count of the item's writes. Abstractions:

- Rows that recovery and failure paths add *without* a key are left out; the
  publish path never reads them. Superseding older rows of the same key is left
  out because `KeysNeverRepeat` shows that there are none.
- There is one account per platform; test mode and mock accounts are left out.
- Other writers of the content item are not modelled. The read and the write of
  the status in `ForceTerminal` are one step, and so are claim and load of a
  scheduled run.
- Whether a refusal, an expiry or a failure happens is a choice. A call is
  answered "ok" (there is a post), or with a refusal, a transient failure or a
  timeout or connection error ("lost"), each with a post or without one: the
  adapter of Instagram publishes and then asks for the permalink
  (`meta_graph_client.py:397-410`), and an error of the second call, or an answer
  without an id, is an ordinary failure. `finalize_attempt` sends a Meta answer to
  `operator_review` only when it looks like a timeout or a connection error
  (`publish_resilience.py:125`); `Outcome` does the same.
- A lock cycle is broken as PostgreSQL breaks it, by an error in one session.

### RetryCommand

| variable | code |
|---|---|
| `cmd` | `publish_retry_commands` (`models/publish_retry_command.py`): status, lease owner, lease expiry as its position relative to the database clock, the barrier timestamp and the attempt link as "is set", the kind of `reason_code`, the order of `created_at` |
| `att` | the `publish_attempts` row with `retry_command_id` = the command: status, the kind of `failure_code`, `external_post_id`, "finished_at is set" |
| `request` | how far a creation request is between its lookup and its insert |
| `otherSuccess` | destinations where another path has a live success |
| `gates` | `claim` (commands, worker and claim switches together) and `execution` |
| `pc`, `cur`, `todo`, `stop`, `result` | a worker process: control point, command in hand, rest of its batch, stop flag, classified outcome in memory |
| `writes`, `effect` | history: provider calls per command, the post that really exists |

Control points of a worker and the code between them:

    poll --BeginPrepare--> preparing --CommitPrepare--> prepared
         --EnterDrainTerritory--> territory --BeginBarrier--> crossing
         --CommitBarrier--> crossed --CallProvider--> calling
         --ProviderReturns--> returned --Finalize / FinalizeFails--> poll

`PrepareRefused`, `StopBeforeBarrier` and `BarrierRefused` are the early
returns. TX1 and TX2 read rows they do not lock (successes of the destination)
and are two steps each, the checks and the commit, with the command row locked
between them, so that a success may commit in the gap. TX3, the claim and the
operator's transaction read only rows they have locked and are one step.
Transactions run at READ COMMITTED, the engine's default.

Lease expiry (`ExpireLease`) may happen at any step while a lease is held, also
inside an open transaction: the commit does not look at the clock again. A
worker id contains a random part (`build_worker_identity`), so a restarted
process is a new member of `Workers` and an exited one never comes back.

Abstractions, and why they are sound for the properties:

- Eligibility, lineage and provider configuration depend on other subsystems.
  A refusal is possible whenever the code evaluates them; an acceptance still
  needs every condition on modelled state.
- `blocked`, `superseded` and `cancelled` are declared statuses that no code
  path writes, and are not states of the model. The repair of an attempt that
  exists without its link cannot be reached, because TX1 writes both in one
  transaction.
- Audits, replays of an operator's request that change nothing, metrics and
  alerts are left out; so is the destination lock that manual resolution takes,
  because TX1, TX2 and TX3 do not take it and the command row lock orders them.
- A definitive failure is the adapter's assertion that no post was created; the
  model takes it at its word. Every other answer may come with or without a post.

### WebhookQueue

| variable | code |
|---|---|
| `event` | `telegram_webhook_events`: status, attempts, owner, `available_at` and `lease_expires_at` relative to the clock, the order of `created_at` |
| `processed` | `telegram_processed_updates` |
| `content` | the number of content items made of the update's message |
| `pc`, `todo`, `cur` | a worker: control point, rest of its batch, update in hand |
| `seen` | `attempts` as `mark_failed` read it |

    poll --ClaimBatch--> next --TakeUp--> handle --FindDuplicate--> create
         --CreateContent--> succeed --FindProcessed--> mark
         --InsertProcessed--> complete --CompleteRead--> completing
         --CompleteWrite--> next

An exception (`Raise`, or the primary key of the processed table in
`InsertProcessed`) leads to `failing`, then `FailRead` and `FailWrite`. A member
of `Workers` is a process slot: after `Crash` it polls again under a new
`worker_id`, and the rows of the old one have the owner `Gone`. A stop signal
is obeyed only at `poll` and changes nothing. The handlers of `process_update`
are represented by the one that makes content of a single message, between
whose duplicate check and commit there is no lock; handlers that make nothing
are `NothingToMake`. Albums, buffered groups, instructions and replies are left
out, and so is the fate of an edited message, which shares its message id.

### AlertOutbox

| variable | code |
|---|---|
| `row` | `publish_alert_telegram_deliveries`: status, owner, "lease has run out", attempt, max attempts |
| `allowed`, `quiet` | the tenant has an enabled, authorized recipient; its quiet hours |
| `batch`, `job` | a worker's claimed rows, the row it is at with what it has read of it |
| `request` | an operator's session between its read and its write |
| `shown` | history: messages Telegram has shown |
| `doubt` | history: times a message was lost sight of (lost answer, death or exception after the message, lease outrun, operator writing over a row being or been sent) |

    idle --Load--> loaded --Gate--> cancel | defer | send --Send--> answer --Settle--> idle

Only the claim locks rows. `Load` compares the owner it reads and nothing else;
`Settle`, `Cancel` and `Retry` write by primary key exactly the columns whose
value differs from the one they read (autoflush is off and nothing expires on
commit), which is why a cancellation of a row read without an owner leaves the
owner it has by then. Backoff and `next_attempt_at` are any subset of the
claimable rows; a batch is a set; a worker identity is used again after a
restart. The global kill switch is constant, the case of a missing alert and
the enrollment of recipients are left out, a test delivery is an `Enqueue`.

### AutomationJobs

| variable | code |
|---|---|
| `row` | `tenant_automation_jobs` by attempt number and requeue generation: status, owner, "lease has run out", recoveries |
| `exec` | retry executions of one root, by retry number: none, running, or the result |
| `flow` | enabled or paused, and its action: `create_crm_lead` or another |
| `lock` | the row lock a worker's transaction holds from its flush to its next commit |
| `batch`, `work` | a worker's claimed jobs, the job it is at and how far |
| `request` | an operator's cancellation between read and write |
| `manual` | retries a request of the API has begun, committed in the middle and not finished |
| `ran` | history: executions a job has brought about |
| `dropped` | history: failures whose follow-up could not be enqueued |

    idle --Check--> checked --Flush--> flushed --Decide--> evaluated --Evaluate--> numbered
    numbered --Adopt / Execute--> idle
    numbered --Start--> started --Finish--> idle

`Decide`, `Evaluate`, `Adopt` and `Execute` may each end the job and commit. Most
actions flush into the worker's session, and job, execution and action commit
together (`Execute`). `create_crm_lead` calls `CrmService.create_lead`, which
commits (`crm_service.py:360`), and the audit record after it may commit once
more: from `Start` on, job and execution are durable as `running` and no lock is
held. The lease may then run out, the job be recovered, claimed, cancelled or
adopted by another worker, while the first one goes on; `Finish` writes the
result and the job by primary key over what they have become. The same holds for
a retry of the API (`RetryExecution`; `StartRetry`, `FinishRetry`). A worker or
request that ends in between leaves the execution running for ever: the job of
its number adopts it and is given up ("unfinished" in the model, `failed` with
`execution_error` in the table). An action that failed in its own way, or before
`create_lead` commits, takes `Execute`; an error after it is a `crm_error`, which
is retryable, so that `Finish` has no "rejected".

Exceptions: within `_execute_automation_retry`, `process_job` catches them, ends
the job as `scheduler_error` and lets `run_once` commit (`SchedulerError`, and
`FollowUpError` when the failed execution is written already and its follow-up
raises). A session that is broken raises again in that branch, and a lost lease
raises before it: both leave `run_once`, as in `Crash` and the second half of
`Check`. A count that is taken a second time for the follow-up may see numbers
that others have used since the start: `Finish` and `FinishRetry` let it be any
between the two. The rest: backoff delays are any subset of the due jobs, the
retry limit is constant, dead-letter notifications are left out, and so are
leads. `disable_flow` and the heartbeat have no caller. Executions that events
and manual tests start are left out.

### WriteRegistry

| variable | code |
|---|---|
| `row` | the registry row of an intent: state, generation, version, owner name, "reservation has expired" |
| `held` | what a caller knows: intent, generation of its authority, version of the last answer, how far it is |
| `view` | what a judge (detector or operator) has read |
| `starter`, `author`, `starts`, `verdicts` | history: who started the last write and who said how it ended, writes started, writes judged to have created nothing |

    (none) --Acquire--> acquiring --Refresh--> reserved --MarkWriteStarted--> starting --Refresh--> started --RecordOutcome--> (none)

`acquire` and `mark_write_started` commit, then read the row again for the
answer: `Refresh` is a step of its own, and what it reads may be the row of
somebody else by then. A caller that joins a live reservation of its own name
(`Rejoin`) gets its answer from the locked row. `Answer` lets every commit be
answered or not; `Drop` is a caller that dies or gives up. A caller names in
each call the generation of its *authority* and the version of the last answer,
as `tests/test_publish_write_coordination_registry_r2.py:510` does. Callers with
`commit=False`, who carry the transaction further themselves, are left out. A
session is taken not to keep the row object between calls: the repository
selects FOR UPDATE without `populate_existing`, and an object kept would be
compared with its old attributes.

## 4. Checks

| run | instance | states | shows |
|---|---|---|---|
| `publish` | 2 runs, a Meta and another platform, no coordination, at most one post hidden by an error | 904,015 | posts are accounted for, keys are fresh, "published" is true, whoever calls, recovers, interrupts or dies; refinement of `PublishLedger` |
| `publish_live` | 2 runs, 1 Meta platform, coordination, fair | about 155,000 | one claim per destination; the item leaves `publishing` and claims end, also after cancellation, recovery of a live run and lock cycles |
| `publish_review_retried` | as `publish` with coordination | violation | finding 1 |
| `core` | 2 commands of one destination, 2 workers, batch 2 | 1,158,544 | the safety properties of the pipeline, for the row in hand and the one waiting in a batch |
| `live` | 1 command, 2 workers, fair | 22,808 | a crossed barrier is settled or let go of; rows of dead workers move; refinement of `RetryPromise` |
| `resolve_early` | 1 command, 1 worker | violation | finding 2 |
| `registry` | 3 callers under 2 names, 1 judge, 1 intent, 3 generations | 469,782 | a verdict before every further write, versions that name states, one writer, refinement of `WriteAuthority` |
| `queue` | 2 updates, 2 workers, 2 attempts, batch 2 | 170,380 | meaning of completed and failed rows, bound on duplicates |
| `queue_live` | 2 updates, 1 worker, 3 attempts, batch 2, fair | 34,861 | one content item per message, finished rows stay, every update settles |
| `queue_last_attempt` | 1 update, 1 worker, 2 attempts | violation | finding 3 |
| `alerts` | 1 delivery, 2 workers, 1 operator, 1 trouble, 2 requests, fair | 92,755 | meaning of delivered, account of duplicates, deliveries end |
| `automation` | 2 retries, 2 generations, 2 workers, 1 operator, either kind of action, up to 2 troubles and 3 requests, 3 in all, fair | 276,740 | a job runs once, its status is true, failures are followed up, jobs end; refinement of `RetryChain` |

### Properties

`PublishAttempts`
- `MetaEffectAccounted`: a post on a Meta platform belongs to an attempt that is
  claimed, a success or waiting for an operator. The one exception is a post
  whose own call was answered with an error that is no timeout; its attempt says
  retrying, exhausted or failed. No crash, recovery, cancellation or overwrite
  by another session loses one.
- `CoordinatedClaims`: with coordination one attempt of a destination is in
  progress, in whatever version.
- `KeysNeverRepeat`: no two attempts share a key. The deduplication by key and
  the limit of attempts per key therefore never act between runs.
- `PublishedIsReal`: a published item has a post on every platform some run
  was asked for.
- `ImplementsLedger`: every step of the publish path moves each Meta attempt as
  `PublishLedger` allows: its claim is durable before anything is posted and is
  never made again, one post at most comes of it while it is open or in review;
  only its own run, with the provider's answer, writes it off, and then it never
  gets a post and has none, unless that answer concealed it.
- `PublishingSettles`: section 5.
- `ReviewNotRetried`: what the runbook says; violated, finding 1.

`RetryCommand`
- `AtMostOneWrite`: at most one provider call per command, and only after the
  barrier is durable on *both* rows.
- `EffectAccounted`: a post that exists belongs to a row that says so or says
  "unknown"; never to a failed or a claimable row.
- `SuccessIsAuthentic`: a success written by the finalizer carries the real id;
  failures and ambiguities carry none.
- `RowsAgree`, `TerminalIsFinal`: command and attempt end together, agree, and
  are not rewritten by a late finalizer, a second operator or a reclaim.
- `NeverStuck`: every claimed row passes the guards of reclaim and barrier,
  every post-barrier row those of finalizer and operator.
- `BarrierIsFenced`: the barrier is crossed by the lease owner of that moment,
  who stays on the row. `OneDriver` (proved, not run) follows.
- `ImplementsPromise`: every step of the pipeline is a step of `RetryPromise`
  or changes nothing the promise speaks of.
- `CrossingSettles`, `AbandonedRowsMove`: section 5.
- `ResolvedIsNotExecuted`: what a document says; violated, finding 2.

`WriteRegistry`
- `WritesArePaidFor`: writes started never exceed one plus the verdicts that an
  earlier one created nothing.
- `VersionsNameStates`: a judge's calls name no generation; a version it has
  read is that of the row only if the row is as it read it.
- `OneWriter`: of the callers that were told of a start and pass the ownership
  test of the write under way there is one. Here the generation matters: with
  the version alone, a caller whose answer was read late holds the version of
  another's write under the same name.
- `ImplementsAuthority`: the registry is a `WriteAuthority`. In particular
  nobody but the starter reports, and no write of unknown outcome is withdrawn.

`WebhookQueue`
- `CompletedIsProcessed`, `FailedIsExhausted`: a finished row tells the truth,
  also when the worker that writes it has lost the row since it read it.
- `ContentIsPaidFor`: content items and workers about to make one never
  outnumber the claims, so `MAX_ATTEMPTS` bounds the duplicates.
- `OneContent`, `FinishedIsFinal`: hold with one worker, which is what the
  compose files start; with two both fail (see below). In the second case a
  finished row goes back to `retry` and is completed again because the update is
  in the processed table, or stays in `retry` if its attempts are used up.
- `UpdatesSettle`: section 5. `FailuresAreReclaimable`: violated, finding 3.

`AlertOutbox`
- `DeliveredIsShown`: a delivered row was shown, whoever wrote it last.
- `DuplicatesExplained`: messages shown are at most one plus the causes counted
  in `doubt`. A cause is counted where it arises, not where a message is shown,
  so the sum is an account and not a definition.
- `OnlyRequestsStrand`: no row is left sending without a lease unless an
  operator has asked for something.
- `DeliveriesEnd`: section 5.

`AutomationJobs`
- `OneExecutionPerJob`: a job brings about one execution at most, however often
  it is claimed and by whom.
- `EndedIsExecuted`: a job "succeeded" or "failed" with its execution names one
  that exists with that result, of the job's number or a later one. One that was
  given up for an execution without a result belongs to `create_crm_lead`, and
  the execution was begun. A `scheduler_error` claims nothing.
- `FailuresAreFollowedUp`: retries have no gap, and while retries are left, a
  retryable failure has the job of a later one, however late its result came.
  Excepted are failures whose follow-up raised.
- `ImplementsChain`: every step is one of `RetryChain` or changes nothing it
  speaks of. A result is never written over, not even by a worker whose count
  was overtaken by a request of the API, or that lost its job after `create_lead`
  committed; a retry that was begun gets one result or none; a failure is
  recorded in the same step as the job of a later retry, or as lost.
- `JobsEnd`: section 5.

Each module has one type invariant, `TypeOK`, which is proved, and checked except
in the publish runs, whose time goes to the other properties.

### Bounds, and why they are enough

- No action of a queue involves more than two workers and a row. A second row
  matters where rows meet: in a batch (`core`, `queue`) and in a destination
  (`core`). The theorems cover every number.
- `publish`: two runs are enough for every race of two readings; a Meta and
  another platform differ in when the claim is committed. `Brisk` leaves out
  cancellation and items that grow old under a live run; `publish_live` has
  both, on one platform. `TwoAtATime` keeps one of the two runs and the sweeper
  idle or done at a time: each two of the three meet at every point, and what
  the third does comes before or after. `OneHidden` lets an error hide one post,
  on the Meta platform, with nothing posted or given up on the other: what a
  hidden post does to an attempt does not depend on another one. The theorems
  have none of these bounds and any number of platforms. `Prompt` (no lease runs
  out) only shortens the search of `publish_review_retried`.
- `publish_live` looks at states through `WithoutHistory`, which drops `posts`
  and `hidden`, which no action reads, and the caller and platforms of a run that is done,
  which no action reads any more; neither is spoken of by the properties of the
  run. States that look the same have the same steps and satisfy the same
  formulas.
- `alerts` and `automation`: `Troubles` and `Requests` count crashes, exceptions,
  leases outrun and changes of settings, and operators' requests. In `alerts`, one
  trouble and two requests give a trouble that meets the aftermath of a request,
  and requests that meet each other's. In `automation` two troubles are needed for
  a worker that outlives its lease after `create_lead` has committed and then dies
  or errs beside the one that took its job; `Few` allows three events in all, two
  of them troubles at most. The theorems have no such bound.
  Two attempts give a first and a last one; one recovery gives a recovered job
  and a dead-lettered one; one requeue gives two jobs of one number.
- `registry`: two callers that share a name, a third with its own. Intents meet
  only in a caller, which is bound to one at a time. Three generations give a
  first, one in between and a last; `MaxGeneration` caps only the model.
- `queue`: the code allows 5 attempts; 2 and 3 give a first, a last and a middle
  one.
- Two post ids would only tell the provider's post from one an operator enters,
  which the model marks in `reason_code`; `core` uses one.

Symmetry is used only in runs without liveness properties. Deadlock is checked
in `core`, `live`, `queue`, `queue_live`, `registry`, `resolve_early` and
`queue_last_attempt`; in the others the system stops when its runs, its
deliveries or its jobs are done.

### Mutants

Each property is paired in `PROJECT.json` with a change to one operator that a
plausible bug would make (only one of two rows updated, a timeout taken for a
failure, a replay after a failed finalization, an ownership test without the
generation, a reclaim that does not pass through the compare-and-set, ...),
under which TLC finds the property violated.

### Findings

1. `publish_review_retried`. `docs/PRODUCTION_RUNBOOK.md:165` says that ambiguous
   Meta attempts "go to `operator_review` and are **not** auto-retried". A due
   retry of one platform calls `publish_content` for all platforms
   (`scheduled_publish_service.py:111`), and `begin_attempt` refuses on a success
   or a claim in progress, not on an attempt in review: the Meta platform is
   started again.
2. `resolve_early`. `docs/PHASE_E2_MANUAL_RESOLUTION.md:50` says that a command
   marked ambiguous "remains non-executable forever". `MARK_AMBIGUOUS` accepts
   every `provider_write_started` row; the executor calls the provider after
   the barrier without reading the row again. An operator who marks the row
   between the two makes it terminal, and the call is still made. The outcome
   is then dropped by TX3, which leaves the terminal row alone. Safety holds
   (one call, the row says ambiguous), the sentence does not.
3. `queue_last_attempt`. `telegram_service.py:1281` says that failures "leave the
   update reclaimable via the webhook queue lease". `claim_batch` reclaims an
   expired lease only below `MAX_ATTEMPTS`: a worker that dies on the last
   attempt leaves the row in `processing` for ever, neither completed nor failed.

### Disagreements without a run

Seen while modelling; the first five with TLC in variants of the runs above.

- *Alerts sent twice.* `docs/PRODUCTION_RUNBOOK.md:288` says that dedupe keys keep
  restarting workers from sending twice. The key is that of the row; a worker
  that dies after the message and before the commit leaves a row that is sent
  again. `DuplicatesExplained` is what holds.
- *A second command.* `publish_retry_command_service.py:329` says that after a
  failed command "automatic re-create is fail-closed". Lookup and insert are two
  statements and the unique index covers active rows only: a request that looked
  before the first row existed and inserts after it failed creates a second one.
- *Two content items.* `test_telegram_durable_ingestion.py:176` says "Content
  dedupe is handled by telegram_message_id". The check and the insert are two
  statements and the index is not unique: when a lease runs out during a long
  handling, a second worker makes a second item.
- *A publish started twice with coordination.* `begin_attempt` looks for a success
  (`publish_resilience.py:769`) and then for a claim in progress, both under the
  destination lock; but a peer commits its outcome at the end of its run, without
  the lock. An outcome committed between the two looks is seen by neither.
- *A stranded alert.* A cancellation decided on a pending row, which has no owner,
  is written over the row a worker has claimed since and leaves the owner. The
  worker then loads a cancelled row and, the recipient being withdrawn, decides
  to cancel it; an operator's retry reopens it and a second
  worker claims it; the first worker's "cancelled" equals what it has read and is
  not written, but the owner is: the row stays `sending` with no lease and is
  never claimable. `OnlyRequestsStrand` and `DeliveriesEnd` delimit it.
- *Recovery* writes items and attempts by primary key on an earlier reading
  (`publish_resilience.py:1150`, `publish_service.py:227`): an item that has been
  published since becomes failed, and a slow non-Meta publish becomes due for a
  retry while its call is under way.
- *A hidden post.* `publish_resilience.py:1013` says "if a provider-side post may
  already exist, never auto-republish". An error of the permalink request that
  follows a created post is written as retrying or failed, and a due retry posts
  again. TLC shows it when the exception of `MetaEffectAccounted` is taken away.
- *The retry budget* of the runbook (`:157`) is counted per key, and a key is
  never used twice.
- *A cancelled alert* may have been sent, and one whose recipient was replaced
  goes to the old one.
- *Automation.* `automation_scheduler_service.py:202` says "under explicit lease
  ownership"; the ownership is checked on an unlocked row and may be lost at the
  flush. `:41` says "without holding row locks during action work"; the lock of
  the flushed row is held until the next commit.
  `automation_execution_service.py:110` says "Uses flush() only — commit is owned
  by PlatformEventService.emit or API layer"; `create_lead` commits in the middle.
  What follows from it: an execution may stay `running` for ever with its job
  failed and nothing to follow up; a worker that had lost its job commits it as
  running without a lease, where no recovery looks (`JobsEnd` excepts such a
  row); and a retry after an error that followed the commit makes a second lead.
  A job requeued after its retry ran and failed adopts that retry and runs
  nothing. A cancelled job may have run.
- *A second write to a destination.* The barrier of the retry pipeline looks for
  live successes of the destination in rows it does not lock
  (`publish_retry_command_barrier_service.py:837`); item 7 of the plan.
- *A stranded alert row.* The detector reads commands without a lock and writes
  alerts later (`publish_retry_command_stranded_detector.py:371`): an alert may
  open for a command that was just resolved, until the next scan.
- *Operator alerts.* `publish_operator_alert_service.py:3-5` says that alert
  failures never roll back publish writes. Some flushes (`:566`, and the bump after
  an `IntegrityError`) stand outside the savepoint, and a database error there
  ends the publishing transaction. An occurrence may be counted on an alert
  that a concurrent success has just resolved, counts can be lost, and an alert
  inserted by a failure that commits late survives the resolve of runbook `:220`.
- *Registry.* The docstring orders the destination lock first "for mutating
  operations"; only `acquire` takes it. `acquire` looks at its own intent: two
  intents of one destination may both be `WRITE_STARTED`
  (`destination_has_unresolved_write` is a query of its own). A reservation that
  has expired may still be started, which is sound: nobody reclaimed it.

## 5. Liveness and fairness

Nothing is assumed of users, operators, signals, crashes, exceptions or gates in
any module.

*Retry pipeline.* `FairSpec` assumes, for each worker, strong fairness of its
orchestration steps and weak fairness of its claim, and weak fairness of lease
expiry per command. The poll loop of `run_forever` is the justification of the
first two; strong fairness is needed because a step can be disabled for a while
by a row lock of another worker's transaction, which always ends. Time passes,
hence the third. `CrossingSettles` then needs no further hypothesis: after the
barrier neither a closed gate nor a stop flag is read again. `AbandonedRowsMove`
assumes that some worker eventually runs for good without a stop signal and that
claiming stays enabled; it says that pending rows are claimed and that a claimed
row of a dead worker is reclaimed. With a batch of 1 and two commands TLC finds
a run that starves a pending row: `_reclaim_stale` comes first, a row that
preparation always refuses keeps its `claimed` status (`blocked` is never
written), expires, and is reclaimed for ever. As many such rows as the batch
holds block the queue; the limit is listed among the hazards.

*Inbox.* `UpdatesSettle` assumes weak fairness of claim and handling (the loops
of `run_forever` and `run_once`; handlers return or raise) and of the clock. Each
exception or crash costs an attempt, so the code bounds them. The property
excepts only a row on its last attempt that nobody holds, finding 3.

*Publishing.* Weak fairness of the steps of a live run (the event loop; an
adapter's call has a time limit), of a refusal where validation cannot succeed,
of PostgreSQL's deadlock detection, of the scheduler's recovery (its tick loop)
and of the clock. `PublishingSettles` then holds although a run may die anywhere:
from every state a moment comes when the item is not `publishing` and no claim is
in progress. The recovery is what ends a dead run's claim, and the mutant that
recovers the item and not its claims is found.

*Alerts.* Weak fairness of a worker's steps, of the claim of each due row (the
oldest are taken first, and they settle), of lease expiry, of an operator's
second statement and of the end of quiet hours. `DeliveriesEnd` excepts stranded
rows.

*Automation.* Weak fairness of claim and processing, of lease expiry and of the
second statement of a cancellation; none of a request of the API that has begun
a retry, which may be cut off. `JobsEnd` supposes that the flow is eventually
left enabled, and says that a moment comes when every job has ended, but for a
stranded one: committed as running by a worker that had lost its lease, which
then died.

*Registry.* No liveness is claimed: nothing scans it, and a write that nobody
surfaces stays as it is.

## 6. Proofs

Eight proof modules (`PublishAttempts` has three); the constants are arbitrary
except for one named assumption per module (`PublishAssumption`,
`ConstantsAssumption`, `QueueAssumption`, `OutboxAssumption`,
`AutomationAssumption`, `RegistryAssumption`): finite sets where cardinalities
are counted, positive limits, `None` a value of its own. TLC evaluates each.

None of the properties is inductive; each module has a strengthening.

**`PublishAttemptsProofs`, `PublishAttemptsSafety`**: `TypeCorrect`,
`KeysAreFresh`, `MetaPostsAccounted`, `PublishedHasPosts`, `ClaimsExclude`. The
strengthening conjoins:

| part | why it is needed |
|---|---|
| `InLoop`, `LetGo` | a run at a platform is there for the first time; an aborting run has no lock |
| `StaleRows` | what a session has read as stale exists, or is its own uncommitted row |
| `RealPosts`, `Published` | successes, committed, drafted or in `results`, have posts |
| `Stamped`, `OwnStamps` | versions are not above `updated_at`, except for the holder of the row lock, which is one ahead; no two runs use one stamp |
| `MetaSafe` | the attempt of a Meta post no error hides is accounted for, only an error answer hides one, and a Meta claim was committed before the call |
| `OneClaim` | from its look for a claim to its insert a run has the destination lock and nobody else has a claim |

**`PublishLedgerProofs`**: `PublishImplementsLedger`. The ledger needs two things
that the invariant above does not say, both in `FirstTime`: a Meta platform a run
has not come to has no attempt of that run, so that a claim is a first claim;
and while a run is calling, or has an answer it has not committed, the attempt
is in progress or under review. The second is the reason why the other sessions
may do what they do: recovery and the `finally` clause of another run put an open
claim under review, and nothing they write makes it closed while its call is
under way, so that only the run itself, with the answer, writes it off; that
answer is all that can conceal a post (`MetaSafe`). Lemma
`EntryMoves` goes from what a step may do to a row (`RowMoves`, `DraftMoves`) to
the ledger's moves; one commit may move the entries of several attempts, which
is why a step of the ledger is a conjunction over attempts.

**`RetryCommandProofs`**: `Inductive` (`IInv`), `TypeCorrect` ... `OneDriverAlways`
for the state invariants, `TerminalForGood` and `BarrierFenced` for the action
properties, `Implements` for the refinement. `AtMostOneWrite`, for one, survives a
step only if a worker at `crossed` is the only one there and has not called yet,
which depends on who owns the row, which depends on the row lock that TX2 held.
`RowInv` relates the two rows of a command, `HistoryInv` the rows to the calls
made, and `WorkerInv` says what a worker may rely on at each control point: in an
open transaction the row is claimed by it (the lock keeps reclaim away although
the lease may have expired), past the barrier it is the owner for ever (nothing
but the claim writes `lease_owner`, and the claim takes no post-barrier row), and
the outcome it carries matches the post that exists. One lemma per part
(`TypeStep`, `RowStep`, `HistoryStep`, `WorkerStep`) goes through the actions. The
refinement proof uses `IInv` at each call and each settlement, where the promise
has guards that the pipeline does not test at that moment.

**`WebhookQueueProofs`**: `QueueInductive` (`QueueInv`), `QueueTypeCorrect`,
`CompletedMeansProcessed`, `FailedMeansExhausted`, `DuplicatesBounded`, and,
if there is one worker, `OneContentOneWorker` and `FinishedForGood`. `WorkerInv` says what a worker
relies on when it writes without a lock: at `completing` its update is processed,
and the attempts it read are not more than those in the row, because `processed`
and `attempts` only grow. The bound on duplicates is a cardinality argument: a
claim adds one worker to `Pending` and one attempt, a creation takes one worker
away and adds one item. `FinishedForGood` rests on `Settled`: with one worker a
row it owns, or is about to mark, is in processing, and a finished row has neither
owner nor lease, so that no late mark falls on it; with two it fails, as section 4
says.

**`AlertOutboxProofs`**: `TypeCorrect`, `DeliveredShown`, `StrandedByRequest`,
`DuplicatesAccounted`. `RowInv` adds that a worker with Telegram's answer has had
the message shown and that no worker works from a reading of a delivered row.
`Undisturbed`: as long as nobody asked, a row is being sent exactly when it has
an owner. `Account` is the argument for duplicates: give a delivery one token at
the start; the messages shown, the token in the row (while it may still be sent)
and those of the workers about to send it never exceed one plus `doubt`. Every
step moves a token or pays for it.

**`AutomationJobsProofs`**: `JobsInductive`, `JobsTypeCorrect`, `JobsRunOnce`,
`JobsEndTruly`, `JobsFollowed`, `JobsImplementChain`. The invariant `Inv`
conjoins:

| part | why it is needed |
|---|---|
| `Counted` | the retries are an initial segment, so the count plus one is the next free number |
| `Reached`, `Asks` | a job stands for a number whose predecessors were run; what is being cancelled exists |
| `Relies` | from the flush to the next commit a worker has the row lock, the job it is about to run has not run, and its number is not below the job's and has no gap below it, because it was counted and executions stay |
| `Started`, `LeadsRun` | a running execution has one worker or one request at most that will finish it; only `create_crm_lead` leaves one |
| `RanIsFound` | who comes to a job after it ran finds the execution of its number and adopts it, running or over |
| `Followed` | the follow-ups, for any count between start and finish |

With `Started`, a worker or request that finishes late writes where nobody else
does, so no result is written over although the row lock is gone; with `Relies`
and `RanIsFound`, a job is run once although its lease is not what protects it.
`KindOfStep` sorts the actions into a few kinds (a worker moves on, lets go of
its job, writes an execution; the API writes one; the rest), each part of `Inv`
is proved per kind, and `Onward` (executions stay, results are final) carries
what was read earlier over the steps of others. `Recording` says what a step that
writes an execution does to the jobs, with `lost` for a follow-up that raised,
and `ChainStep` reads the moves of `RetryChain` off it.

**`WriteRegistryProofs`**: `RegistryInductive`, `RegistryTypeCorrect`, `WritesPaid`,
`VersionsFence`, `WriterIsOne`, `RegistryImplements`. `Fenced`: within the
generation of the row only the starter was told of a start. `Dated`: no reading is
newer than the row, and one of the same version is the row. `Account`: what is
started and judged in each state. The lemma `Steps` says once, for all actions,
what a step can do to a row (`Onward`: same sight or a higher version, and within
a generation a write and its starter stay) and what callers and judges can learn;
the invariant follows from it. `RegistryImplements` maps each operation to
`Begin`, `Report`, `GiveUp`, `Judge`, `Withdraw` or a stutter; `Report` needs
`Fenced`, since the registry compares names and numbers and not the caller.

Model-checked only: the liveness properties (`CrossingSettles`,
`AbandonedRowsMove`, `PublishingSettles`, `UpdatesSettle`, `DeliveriesEnd`,
`JobsEnd`), since fairness is outside the prover's reach, and the findings. Every
invariant, action property and refinement that a run checks is a theorem.

Open: an abstract specification of the inbox (an update is stored, handled,
given up) and of the outbox (an alert is due, shown, settled) with their
refinements, and the composition of item 7 of the plan.
