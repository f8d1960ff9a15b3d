# Verification of the UnionAgents backend

TLA+ modules, TLC configurations and TLAPS proofs about the server side of this repository: the
*manager*, which runs one AI engine ("agent") per instance on Kubernetes, and the services around it.
Paths below are relative to the root of the repository unless they start with a module name;
`worker/` abbreviates `services/manager/app/worker/`.

Contents: [inventory](#1-inventory) · [plan](#2-plan) · [modules](#3-modules) ·
[runs](#4-runs) · [fairness](#5-fairness) · [divergences](#6-where-the-code-and-its-documentation-part) ·
[proofs](#7-proofs) · [limits](#8-what-is-not-modelled)

## 1. Inventory

### 1.1 Engine lifecycle (`worker/lifecycle.py`, `worker/lifecycle_service.py`, `worker/_common.py`)

*State*: one row of `agent_deployments` per engine (status, `last_active_at`, `backup_at`,
`archive_path`), an in-memory counter of failed suspends, a PostgreSQL advisory lock per agent that lives
as long as the transaction that took it.
*Operations*: `POST deploy` (marks the row, starts a background task), `suspend`, `destroy`, `resume`,
`restart`, `GET status` (which also corrects the row).
*Interaction*: all handlers, tasks and loops run in one asyncio process (the manager has one replica,
`deploy/k8s/services/manager.yaml:6`) and interleave at every `await`. They share the row, the Kubernetes
objects and the object store. SQLAlchemy keeps what a session has read (`expire_on_commit=False`), so a
handler decides on the status it read, not on the one the row has.
*Hard*: stale reads across awaits; the lock ends with the first commit; three writers (request, task,
poll) of one status; a failure at every Kubernetes or storage call; a restart of the process.
*Correct if*: data a user had is never silently gone (volume, backups, archives); a volume is deleted only
under an archive and never under a running deploy; what the row says can be acted on (ARCHIVED has an
archive and no Deployment); a deploy settles.

### 1.2 Scheduler and loops (`worker/scheduler.py`, `worker/background.py`)

*State*: the date of the last daily backup. *Operations*: idle suspend (5 min), idle destroy (1 h), the
60 s sweep, daily backup and cleanup (1 h), finalizer reconciliation (10 s). Each is a task of its own;
its rounds do not overlap, different loops do. Daily backup and finalizer reconciliation take no lock.
*Correct if*: `backup_at` is honest, no Pod hangs Terminating, backups only age, one failing agent does
not harm another.

### 1.3 Backup store (`worker/minio_archiver.py`)

*State*: daily backups (one object a day), permanent archives. *Operations*: `save_daily` (written, then
verified), `archive_backup` (server-side copy), restore downloads, expiry after 30 days.
*Correct if*: the newest backup is the one used, and an archive outlives the dailies.

### 1.4 Kubernetes adapter (`worker/k8s_manager.py`)

*State*: none of its own; PVC, Deployment, Service, Pods of an engine. *Operations*: create or patch,
scale, delete, finalizers, exec of tar and untar, `_get_pod_status_sync`, two waits.
*Hard*: a Terminating Pod keeps phase Running and its Ready condition; errors are answers
(`phase: "Error"`); create means "create or reuse".

### 1.5 Profiles and their routing (`worker/profiles.py`, `engines/hermes/port_map.py`, `profile_isolation.py`, `entrypoint-v2.sh`; `services/gateway/app/profile_resolver.py`, `proxy.py`)

*State*: per engine Pod a port map file on the volume, a directory and a process per profile, the nginx
routes; in the database the rows of `agent_profiles` and `internal_port_map` of the deployment row; in the
gateway the targets resolved in the last 60 s and the set of profiles whose last message failed.
*Operations*: ensure (the gateway asks for it before a message), create, tear down; the entrypoint, which
reconciles the map with the directories, writes the routes and launches all processes.
*Interaction*: the manager does all of it by `exec` into the Pod, one call per step; each may fail, is
logged, and the handler goes on. Only allocation and insertion of the row are under the advisory lock.
*Hard*: six copies of one fact (map, process, route, row, mirror, and what a handler has read) and
no transaction over them; port reuse; a Pod that starts while handlers work.
*Correct if*: a port belongs to one profile in the map and in every copy; no message of a profile that exists reaches the process of
another; an ensure without interference repairs what failures have left.

### 1.6 Engine rollout (`services/manager/app/services/engine_rollout_service.py`)

*State*: a row of `engine_rollouts` with its items and summary; a background task in memory.
*Operations*: create (read the candidates, read their images, commit), patch and wait item by item, commit batch by
batch, finish. *Hard*: engines are suspended, destroyed, redeployed and patched by others meanwhile; what was
read at creation is old when its batch comes; the manager may die.
*Correct if*: no engine is silently left behind; READY means that the target image serves; the record adds
up at every commit; the rollout ends.

### 1.7 Reply streams of the gateway (`services/gateway/app/channel/router.py`, `dispatcher.py`, `wecom_bot_callback.py`)

*State*: streams by id, the active stream of each user, accepted messages, a queue and a worker
per agent, all in memory (without `UA_REDIS_URL`). *Operations*: a callback (opens a stream, accepts or drops
the message), the worker's turn (notices, reasoning, chunks, end), `POST /send` (an agent sends something unasked), the
polling of the bubble in the chat, for six minutes.
*Hard*: a stream is opened per callback, a reply is written per user, whatever the chat; redelivery; streams replaced or
ended while a worker writes; expiry; a time limit that counts from the callback, not from the turn; restart.
*Correct if*: what is for one user reaches no other, and what was asked in one chat shows in no other; who asks one
thing at a time gets the whole answer in the bubble of the question, if the six minutes suffice.

### 1.8 Gaia ontology, write path (`engines/gaia/src/ontology/`: `services/action_service.py`, `outbox_executor.py`, `sync_flush_scheduler.py`, `iceberg_client.py`, `layers/metadata/postgres_meta_store.py`)

*State*: in PostgreSQL `object_state`, the execution log, the outbox; Doris (the index) and Iceberg (the
archive); what the two workers have fetched. *Operations*: `execute_action` in one transaction; the executor
applies INDEX records one by one with retries and a DLQ; the flush merges ARCHIVE records in batches.
*Hard*: at-least-once effects, crashes between effect and mark, two requests with one idempotency key,
optimistic versions, a row copied from Doris while it is modified, a deletion that looks at a row three times without a
lock, an order taken before the commit, a session that is used on after an error.
*Correct if*: a key takes effect once; rows and outbox tell the same story; no update is lost; Doris follows the
commits; a record is settled.

### 1.9 Other parts

| part | source | state | hard |
|---|---|---|---|
| instances, publishing | `services/manager/app/services/instance_service.py` | instance and deployment rows | external Dify rows set RUNNING without the lock |
| verification codes, captcha, alerts | `services/manager/app/services/` | counters, expiry, last sending | attempts at a limit |
| recycling, metrics, observability | `worker/recycle_scheduler.py`, `worker/metric_sampler.py`, `services/manager/app/api/observability.py` | none between passes | |
| Gaia definitions, data sources, object sets, index funnel, write-back | `engines/gaia/src/ontology/services/` | definitions; bulk loads | compilation of queries, drivers |
| hub | `services/hub/` | review status of items | approval order |

User interfaces (`apps/`, `packages/`, `engines/browser`), sidecars and `deploy/` hold no protocol of
their own and are left aside. `PROJECT.json` lists the components with what is modelled of each, and the hazards,
each at its line.

## 2. Plan

Done, in this order:

1. **EngineLifecycle** with **EngineVault**: one engine, all of 1.1 to 1.4.
2. **ProfileRouting**: 1.5, gateway and manager and Pod together.
3. **EngineRollout**: 1.6, against the operations of the lifecycle.
4. **OntologySync**: 1.8, the transaction with both of its consumers.
5. **ReplyStreams**: 1.7.

Left:

6. **IdleRecycle**: the idle policy with a clock (sweep, thresholds, `last_active_at`, `backup_at`).
7. **LockBatch**: several agents, the loops' shared session, the advisory lock after an exception.
8. Rows as a bag, for two first deploys of one instance.
9. The destroy of an engine composed with its profiles (`worker/lifecycle_service.py:321`).
10. The Redis mode of the streams (several gateways), the other channels, the engine sessions.
    Actions of several mutations.
11. Verification codes.
12. What a batch of actions keeps although an item that failed has left its row, and its proof.

Parameters are CONSTANTS with named assumptions, one action stands for one stretch
of code between awaits, and no module that is proved about uses RECURSIVE.

## 3. Modules

| component | model | properties | proofs | TLC |
|---|---|---|---|---|
| 1.1–1.4 engine | `EngineLifecycle`, abstract `EngineVault` | `EngineProperties`, `EngineClaims` | `EngineTypes`, `EngineProofs`, `EngineRefinement` | `MCEngineLifecycle` |
| 1.5 routing | `ProfileRouting` | `RoutingProperties` | `RoutingProofs`, `RoutingReach` | `MCRouting` |
| 1.6 rollout | `EngineRollout` | `RolloutProperties` | `RolloutProofs` | `MCRollout` |
| 1.7 streams | `ReplyStreams` | `StreamsProperties`, `StreamsClaims` | `StreamsProofs` | `MCStreams` |
| 1.8 ontology | `OntologySync`, abstract `OntologyLedger` | `OntologyProperties` | `OntologyProofs` | `MCOntology` |

A `…Properties` module holds the type invariant, the invariants and the action and liveness properties,
for the engine also the refinement mapping and the inductive invariant; a `…Claims` module a statement
of a document or comment that the code does not keep. The components are models of their own: they meet at narrow
interfaces (the status of an engine, its Deployment), and each model has the other side of its
interface as an environment that does whatever the other side may do.

### 3.1 EngineLifecycle

#### State

| variable | code |
|---|---|
| `status`, `idle`, `backupAt`, `archivePath` | the row (`services/manager/app/models/__init__.py:162`); times are abstracted to the thresholds the code compares them with; PENDING is also "no row" |
| `kdep`, `pod`, `fin`, `old`, `pvc` | Deployment, its live Pod, that Pod's finalizer, a Terminating Pod, the volume |
| `daily`, `archives` | objects in the store; daily backups by age: of today, older, older than 30 days |
| `ses` | what is under way: program counter and locals of each handler, task or loop round |
| `fails`, `dailyDone` | `_suspend_fail_count`, `_daily_backup_last_run_date` |
| `nextWrite`, `saved` | history: the next user write, what backups have covered |

A volume, a tar and an object are sets of user writes. Taking a tar copies the set, untar puts the volume
back to exactly that set. A volume that has just been created is `{}`; one that does not exist is `None`.

#### Actions

One action is what runs between two awaits (calls of the synchronous Kubernetes client included). A
session takes a request from its first read to its last write:

* `DeployRead` → `DeployMark` → `DeployLock` → `DeployCreate` → `DeployPodRuns` → (`DeployRestore`) →
  `DeployDone`; with `DeployCreateFails`, `DeployTimesOut`, `DeployRestoreFails`, `DeployAbort` for the
  paths that fail. `DeployFromArchive`, `DeployFromSuspended`, `DeployFresh` are the branches on `prev_status`.
* `SuspendRead` → `SuspendLock` → `SuspendBackup` → `SuspendMark` → `SuspendScale`, or `SuspendBackupFails`.
* `DestroyRead` → `DestroyLock` → `DestroyArchive` → `DestroyDelete` → `DestroyMark`, or
  `DestroyRefused`, `DestroyDeleteFails`.
* `ResumeRead` → `ResumeScale` → `ResumeMark`; `Restart` in one step.
* `PollRead` → `PollProbe` → `DriftWrite` and `SweepRead` → `SweepProbe` → `DriftWrite`: read the row, ask
  Kubernetes, write over whatever the row holds by then.
* `DailyTar` → `DailySave`, `FinalizerTar` → `FinalizerSave`, `FinalizerGiveUp`, `DailyCleanup`.
* Kubernetes, users, operators, time and `Crash` (the process restarts; the row, the objects and the store stay).

`SetStatus` is the ORM's write: an UPDATE is sent only if the value in the session's memory changes,
so that a handler that read SUSPENDED and "sets" SUSPENDED leaves a row alone that says RUNNING by now.
The advisory lock is a set of program counters (`LockedPc`): it is free when no session is at one, which
makes its end with the commit (suspend is out of the lock when it scales) part of the model.

`EngineVault` knows a volume, the contents of backups and archives, and copies under way. Its steps:
provision an empty volume where there is none, write, copy, store, forget, archive, reclaim (needs an
archive), restore (something stored). The mapping is in `EngineProperties`.

### 3.2 ProfileRouting

| variable | code |
|---|---|
| `map`, `dir`, `process`, `nginx` | in the Pod: `port_map.json`, the profile directories on the volume, the gateway processes with their ports, the routes (a profile without route reaches the base profile) |
| `row`, `mirror` | `agent_profiles.internal_port`; `internal_port_map["profiles"]` of the deployment row |
| `failed`, `cached` | `_failed_profiles` of the gateway; the profiles whose resolved target it has in its 60 s cache |
| `ses`, `boot` | the requests under way with what they have read; how far `entrypoint-v2.sh` is |
| `calm`, `handled`, `failures` | history and bounds |

Every `exec` into the Pod is a step, with a second disjunct in which it fails (`Failure`): `Ensure` →
`EnsureGet` → `EnsureDir` → `EnsureProbe` → (`Launch`) → `ReadAll` → `Mirror` → `Route` → `Answer`; without row or
directory `CreateAlloc` → `CreateInsert` (both under the lock) → `CreateClone` → `Launch` → `ReadAll` → `Route` →
`Mirror`; `Teardown` → `TeardownStop` → `TeardownRemove` → `TeardownRm` → `TeardownRead` → `TeardownRoute` →
`TeardownDelete`. `Restart` → `BootReconcile` → `BootNginx` → `BootLaunch` → `BootRegister` is the entrypoint.
`Resolve` caches a target (trusted from the mirror, or because the manager has answered, or has not within 20 s),
`CacheExpires` lets it go, `Answers502`, `FailureExpires` are `invalidate` and its expiry. A cached target is sent to without
a look at the mirror; the port is the one nginx has by then. Who listens on a port decides what a probe,
a launch or a message meets; a process cannot listen where another one does.

### 3.3 EngineRollout

`row`, `template`, `pod` are status, image of the Deployment and image of the ready Pod of each engine; `rollout`
the row of `engine_rollouts` with its items; `task` the request and then the background task; `touched` (history) the
engines whose Deployment somebody else has changed, `unseen` those called ready while the list of their Pods failed. `CreateRead` → `CreateCommit` is `create_rollout` with the
listing and the later reading of the images; `StartBatch`, per engine `SkipItem`, `PatchItem`,
`PatchFails`, `WaitSucceeds`, `WaitUnseen`, `WaitFails`, then `CommitBatch`, and `Finish` are `_run_rollout` and `_process_item`;
`TaskRaises` is the handler of its exceptions; `ManagerDies` ends everything in memory. `Suspend`, `Resume`, `Destroy`, `Deploy`,
`RivalPatch`, `PodReady`, `PodFails` are the rest of the manager and Kubernetes. A wait looks for a ready Pod of the target
image (`SeesTarget`); where the list of the Pods fails it goes by the replica counts, which the Pod before the patch
meets (`WaitUnseen`). The other way around the Pods, a Deployment without `match_labels`, does not occur: `create_agent_engine_sync` always
writes them.

### 3.4 ReplyStreams

`bubble` is the sequence of bubbles in the chats: robot, user and chat, the message and the fate of its turn, how the
polling ended (`told` that the stream is finished, that it is `unknown`, `stopped` by WeCom), what it says at last, and
whether it is `alone` (history); `streams`, `active`, `dedup`, `queue`, `worker` are the module globals of the gateway. `Send` and
`Redeliver` are a callback from `channel_webhook` to `dispatch` (one action: nothing in it yields without Redis), `NoUrl` one of an
image, file or video without url, which opens a stream and goes no further; entries that are too old go with them, as in
`_store_create` and `_dedup`. The chat is known to WeCom only: `chat_id` is the sender in a group too, and the active stream is
one per user. `Take` → `Refuse`, or `Prepare` → `Forward` → (`Think`, `FirstChunk`, `Chunk`)* → `EndTurn` is the worker, `Drop` an
exception before the turn has begun; `Push` is `POST /send`; `Refresh` the poll of a bubble, `PollingStops` the end of its six
minutes; `Crash` a restart. The text of a stream is abstracted to whose turn it belongs to, whom it is for, and whether it is a
passing notice, a part, all of the reply, a final notice, or something sent unasked.

### 3.5 OntologySync

`state`, `outbox`, `log` are committed tables; `tx[s]` is the open transaction of a request with
the rows it has written (their locks last until it ends); `index` and `archive` are Doris and Iceberg; `exec` and
`flush` what the two workers hold. A value is the position of the change that wrote it. `Begin` → `BuildCreate`, `BuildModify`
(→ `Hydrate`) or `BuildUpsert` → `Apply` → `Stamp` → `Commit` is `execute_action`, a deletion `BuildDelete` → `Snapshot` →
`SelectRow` → `DeleteRow` → `Stamp` → `Commit`: it reads the primary key for its record, selects the row, and deletes with a
later statement what row there is by then. `Stamp` takes `created_at`, the order of both consumers. `Refuse` is any error. An
element of `Batched` is a session that carries `execute_batch_action`: after an item that fails the next one goes on in the same
transaction, with what the failed one wrote. `Fetch` → `Execute` → `MarkCompleted` or `HandleFailure`, `BackoffEnds`
is the executor, `SessionBreaks` an error in its one session, after which only a restart helps; `Claim` → `MergeUpserts` → `MergeDeletes` → `MarkBatch` or `FlushFails` the flush; `Crash` a restart.

`OntologyLedger` knows rows, the changes made and the keys used, and no transactions: a creation, an update (of an
object only Doris holds: from version 1, which is entered on the way) and a deletion each
happen at once, from the row as it is; a deletion may record a primary key or none, and take a row or none. The mapping, in `OntologyProperties`, forgets the states of the outbox records: the
committed rows are the ledger's, every other step is a stutter.

## 4. Runs

`tlc -config <run>.cfg <MC module>`.

| run | instance | shows |
|---|---|---|
| `engine_requests` | 2 sessions, all requests, crash, 2 failed suspends allowed | `TypeOK`, `IInv`, `DeployKeepsVolume`, `ArchivedHasPath`, `ArchivedHasNoDeployment` |
| `engine_vault` | 2 sessions, deploy, idle suspend and destroy, daily backup, days, a write | `BackupAtMeansBackup`, `VolumeGoesOnlyArchived`, `KeepsTheVault` (refinement) |
| `engine_sequential` | 1 session, deploy, suspend, destroy, restart, poll, sweep, a write, days, crash, an operator deletes the Deployment | `NoLostBackup` |
| `engine_retained` | 2 sessions, volumes kept, suspends without backup, daily backups, a write, an operator deletes the Deployment | `WritesGoTwoWays` |
| `engine_settles` | 2 sessions, fairness, deploy, destroy, finalizer loop, evictions, months pass | `DeploySettles`, `TerminatingPodGoes` |
| `routing` | 2 sessions, 3 profiles, 2 ports, 3 requests, 1 failure of any kind, cached targets | `TypeOK`, `PortsUnique`, `CopiesUnique`, `ReachesItsOwn`, `EnsureHeals` |
| `rollout` | 2 engines, 2 images, batches of 1 or 2, 1 engine changed by others, failing Pod lists, fairness | `TypeOK`, `NoEngineLeftBehind`, `ReadyServesTarget`, `SummaryAddsUp`, `OneBatchUnrecorded`, `RolloutEnds` |
| `streams` | 2 robots, 2 users, private chat and group, 2 callbacks, messages sent unasked, 1 restart, fairness | `TypeOK`, `OwnUserOnly`, `AnswersItself`, `AnswerIsShown` |
| `ontology_actions` | 2 requests, 1 object, 1 fresh rid, 1 key, 2 changes, 3 stamps, 1 try, no flush | `KeyAppliedOnce`, `StateFollowsOutbox`, `WritesStampedInOrder`, `UpdatesSeeUpdates`, `ActsAtomically` (refinement) |
| `ontology_outbox` | 1 batched request, 1 object, 2 changes, 2 tries, fairness | `TypeOK`, `IndexInOrder`, `ArchiveHoldsNewest`, `IndexSettles` |
| `claim_destroy_spares`, `claim_own_bubble` | | violated: section 6 |

Each engine run enables some operations through `Ops`: what may start, not what may go wrong, which is always enabled.

Bounds of the engine. Two sessions: every hazard of the inventory is a conflict of two (one reads, the other commits,
the first writes), and the theorems of section 7 hold for any number. A property about data asks whether *some*
write is lost, and one suffices to tell a copy with it from one without. `SuspendMaxFails` is 1 or 2 instead of 3, so that the
limit is met at once or after one retry. One Terminating Pod at a time. Hours pass only while no
session works (`Resting`), as every await has a timeout of minutes; sessions that wait for the lock may wait
for hours. The first deploy, which inserts the row, has no rival. A daily backup has one of three ages, the
newest of an age stands for all of it. `NoLostBackup` is checked for one session only: with two it
fails, through the stale statuses of section 6. `engine_retained` is the mode that takes no backup with a suspend; the daily loop runs in
it as in every mode, so that there is something to restore over newer writes. The two other
ways to a backup in that mode, a suspend whose PVC probe fails (`"blip"`, `worker/lifecycle_service.py:193`) and the finalizer loop, make
the instance too large for a run; the theorem of section 7 has no such limit. In `engine_settles` Pods go by evictions and by destroys;
the same properties with suspends in place of evictions were checked once (453,347 states, too slow to repeat every time).

Bounds of the others. `routing`: three profiles and two ports meet exhaustion and reuse, three requests a profile that comes, goes
and comes again while another moves; one failure (an `exec`, a probe, an insertion, a process that dies, a restart) in each behaviour; the theorems hold for any number.
`rollout`: with two engines and batches of one, the second engine's turn comes after anything has happened to it; `MaxTouched`
bounds only what others do to Deployments. `streams`: two callbacks are a message and its redelivery, an image without url, or a message of the other user, to the
other robot or from the other chat. Users, robots and chats are interchangeable, so the first callback is a given one, and
the second differs from it in one of the three at most (`OneDifference`): in two or three it meets less of the first. A
third callback makes more than 20 million states; the theorems hold for any number. `ontology_actions`: two changes meet each conflict
of two (create and update, two updates, delete and upsert); the fresh rid stands for all generated ones; three stamps are two records and one that is rolled back. A request reads of the
two consumers only what Doris shows, so their retries are left to `ontology_outbox` (`Flushing`), where one session commits two
changes of one object, which the executor and the flush meet together or one after the other.

`X_Fault` beside a definition `X` is the same definition with a slip a programmer could make (a wait
without timeout, a status written before the archive is known, the lock not taken, a port taken from the
processes instead of the map). Nothing uses them; put in place of `X`, each makes the property it is meant for
fail, which shows that the property is about the code.

## 5. Fairness

*Engine* (`FairSpec`): a session that works takes its next step (WF: every await of these handlers has a
timeout or returns); a session that waits for the lock gets it if it is free again and again (SF:
PostgreSQL queues waiters); the kubelet and the controllers go on; the finalizer loop goes on (it
swallows every exception, `worker/background.py:68-78`). There is no fairness for `Crash`, and the liveness runs leave it
out: a deploy whose task dies with the process has nobody to finish it, and its row stays DEPLOYING until a poll
finds the Pod Ready.
*Rollout*: WF of the task and of each item; a wait has a deadline, so that `WaitFails` is always possible. `RolloutEnds` excepts
the death of the manager, after which nobody finishes the rollout.
*Streams*: WF of each worker, since every call it makes has a time limit and the stream from the engine a hard one of
300 s (`EndTurn`), and of the polling of each bubble as long as it polls. Nothing is assumed of chunks, and nothing keeps
`PollingStops` from coming first: `AnswerIsShown` excepts the bubbles whose six minutes were over, whose message was dropped with an
exception or lost in a restart, and those that a later callback or a message sent unasked has disturbed.
*Ontology*: WF of the passing of a backoff; SF of fetching, of executing and of marking or failing a record, because a
restart or a broken session may come before each, but not every time. Nothing brings a broken session back but a
restart, and no restart is assumed: `IndexSettles` says that records settle if the session, as often as it breaks, is
usable again at last (`[]<> ~ exec.broken`).

Nothing is assumed of users, of operators, of time, or of the choice between success and failure: a
step that may fail may fail always.

## 6. Where the code and its documentation part

Two have a run with a violated property; the counterexample is the scenario.

| run | statement | what the code does |
|---|---|---|
| `claim_destroy_spares` | `worker/lifecycle_service.py:258`: no destroy of what was just brought up | the status is not read again under the lock: a RUNNING engine loses its volume |
| `claim_own_bubble` | `services/gateway/docs/wecom_bot流程设计.md:309`, `:345`: streams are isolated by their id | replies are written to the stream the user opened last; the reply to the first of two messages ends in the bubble of the second |

The others were met while modelling; each is a behaviour of its model, and the properties are stated around it.

*Engine.*
* `worker/lifecycle.py:444`: a deploy after FAILED takes the fresh branch and forgets backup and archive, against
  "no silent serving on empty data" (`:495`).
* `worker/lifecycle.py:203`: `prev_status` is read before an await; a destroy in between goes unnoticed.
* `worker/lifecycle_service.py:231` commits SUSPENDED, which releases the lock, before the scale to zero at 241.
* `README.md:119` says that ARCHIVED is left by a deploy; a poll during the Pod's grace period writes RUNNING.
* `worker/lifecycle.py:134-137` falls back to the row when Kubernetes does not answer, but
  `_get_pod_status_sync` (`worker/k8s_manager.py:851`) answers phase "Error" instead of raising, and the poll
  commits FAILED.
* `worker/minio_archiver.py:174` keeps the newest backup of a day; a snapshot tarred before a suspend and
  uploaded after it wins (`worker/scheduler.py:171-172` holds no lock).
* `worker/lifecycle.py:433` restores nothing where the PVC exists; the branch above it (Deployment gone)
  restores without looking, over later writes.
* `worker/lifecycle.py:58` lets only the task decide while DEPLOYING; a poll may write RUNNING before the
  restore has begun.
* `worker/scheduler.py:254-256` counts a running Pod as activity every 60 s, so the 30 idle minutes of
  `README.md:134` do not elapse.
* `services/manager/app/models/__init__.py:165`: the unique constraint does not bind a NULL `scope_target_id`: two first
  deploys insert two rows.

*Routing.*
* A target cached for a profile that is deleted meanwhile (`profile_resolver.py:95-106`) is sent to for up to 60 s; where the
  teardown could not read the map its route stays, and the port may be the next profile's by then. `ReachesItsOwn`
  excepts cached targets of profiles without a row.
* `engines/hermes/port_map.py:10-11` says that no message reaches another profile. A stop that failed leaves the process
  of a deleted profile on its port; the port is given to the next profile, whose probe finds it alive, and its
  messages go to the old process. `ReachesItsOwn` therefore speaks of behaviours without a failed stop.
* An entry the map has lost stays lost while the row and the directory of its profile exist, until the Pod starts
  again: ensure goes on with the port of the row. `EnsureHeals` excepts it.
* The mirror that says "ready" is committed also when nginx could not be written.

*Rollout.*
* `interrupt_stale_rollouts` (`services/manager/app/services/engine_rollout_service.py:265`) has no caller: a rollout whose
  manager died stays RUNNING. `RolloutEnds` excepts the dead task.
* An engine whose Deployment was deleted after the listing is reported PATCHED; SKIPPED is decided on the image of
  the listing. `NoEngineLeftBehind` speaks of engines nobody else has changed since.

* A wait whose list of the Pods fails trusts the replica counts (`worker/k8s_manager.py:2056-2057`), which the Pod before the patch
  satisfies: READY is recorded while the old version serves. `ReadyServesTarget` excepts these engines.

*Streams.*
* `wecom_bot_callback.py:566` keeps the active stream by the sender, in groups too (`:575`): who writes in private and then in a
  group has the private reply shown to the group, and the other way round. `OwnUserOnly` excepts those who did not wait.
* `POST /send` (`router.py:115-168`, `wecom_bot_callback.py:923-928`) ends the active stream with what an agent sends, in the middle of a turn, or
  over a finished answer that the bubble has yet to poll; and it shows that in whatever chat the user wrote in last.
* An image without url (`wecom_bot_callback.py:510-512`) moves the active stream to one that no bubble polls: a reply that has not
  begun by then is seen by nobody.
* `dispatcher.py:82-84` says that an answer cut off at 300 s still arrives within the six minutes. They count from the
  callback: behind another turn of 300 s, or a cold start, the bubble has stopped and the answer is shown nowhere.
* A redelivery that is dropped as a duplicate has opened a stream and made it the active one: the reply goes to the
  bubble of the redelivery. `AnswersItself` and `AnswerIsShown` are about messages without a later callback.
* An exception before the stream is begun, also after the notice that the profile is being prepared, is only logged; the
  bubble polls until the six minutes are over (`Drop`).
* The active stream is kept per user, not per user and robot.
* `deploy/ci/deploy-gateway.yaml` runs two replicas; without Redis each has streams of its own.

*Ontology.*
* `action-sync-outbox-design.md:421` says that the archive has one row per key; a creation and a change of one
  object in one batch, or two creations, insert two.
* Two changes of one archived object in one batch are refused by MERGE, and `sync_flush_scheduler.py:257` retries the same
  batch unchanged.
* Deletes are merged after upserts (`sync_flush_scheduler.py:265`): DELETE, then CREATE, in one batch ends deleted.
* The result of the hydrating insert is not looked at (`action_service.py:1427`); the version check of the update after it
  decides.
* A deletion of an object only Doris holds has no effect there: its record has no primary key, and the executor skips it.
* `action_service.py:1848-1852` holds that an outbox record exists exactly if the change of `object_state` is committed. A deletion
  reads the row for its record (`:605-615`), selects it (`postgres_meta_store.py:1660-1666`) and deletes it with a later statement, where no
  row is a warning. If the row comes in between, the record has no primary key and Doris keeps what is deleted; if
  another deletion takes it, there are two records of one. `StateFollowsOutbox` and the ledger ask of a deletion only that one was
  recorded.
* `create_outbox_record` stamps `created_at` before the commit (`postgres_meta_store.py:1232`). Writes of one row are in order, since the row is
  locked by then (`WritesStampedInOrder`); deletions that take no row, and two rids with one primary key, need not be.
* The executor has one session for its life (`container.py:721-722`) and never rolls it back (`outbox_executor.py:121-144`): after a failed statement
  every later one is refused, and no record settles until the process restarts.
* An item of a batch that fails leaves its row in the common transaction (`action_service.py:921`). `StateFollowsOutbox`,
  `UpdatesSeeUpdates` and `ActsAtomically` are therefore checked, and proved, without batches.
* An INDEX record that failed once is applied after the later ones: `IndexInOrder` ends with the first failure.

## 7. Proofs

`tlapm <module>.tla`. They hold for every set of sessions, agents, users, profiles, ports, engines, objects and keys, and for
every bound.

| module | theorem | statement |
|---|---|---|
| `EngineProofs` | `InvariantHolds` | `Spec => []IInv` |
| | `TypeCorrect` | `Spec => []TypeOK` |
| | `VolumeKeptForDeploy` | `Spec => []DeployKeepsVolume` |
| | `ArchivedIsRecoverable` | `Spec => []ArchivedHasPath` |
| | `ArchivedIsDown` | `Spec => []ArchivedHasNoDeployment` |
| | `BackupAtIsHonest` | `Spec => []BackupAtMeansBackup` |
| | `VolumeIsArchivedFirst` | `Spec => VolumeGoesOnlyArchived` |
| | `GoesTwoWays` | `Spec => WritesGoTwoWays` |
| | `NothingSavedIsLost` | `Alone => (Spec => []NoLostBackup)` |
| `EngineRefinement` | `ImplementsVault` | `Spec => KeepsTheVault` |
| `RoutingProofs` | `TypeCorrect` | `Spec => []TypeOK` |
| | `PortsAreUnique`, `CopiesAreUnique` | `Spec => []PortsUnique`, `Spec => []CopiesUnique` |
| `RoutingReach` | `UndisturbedEnsureHeals` | `Spec => []EnsureHeals` |
| | `CalmReachesItsOwn` | `Spec => []ReachesItsOwn` |
| `StreamsProofs` | `TypeCorrect` | `Spec => []TypeOK` |
| | `RepliesStayWithUser` | `Spec => []OwnUserOnly` |
| | `AnsweredInOwnBubble` | `Spec => []AnswersItself` |
| `OntologyProofs` | `TypesHoldEverywhere` | `Spec => []TypeOK` |
| | `KeysApplyOnce` | `Spec => []KeyAppliedOnce` |
| | `DorisFollowsCommits` | `Spec => []IndexInOrder` |
| | `StampsFollowCommits` | `Batched = {} => (Spec => []WritesStampedInOrder)` |
| | `RowsFollowOutbox` | `Batched = {} => (Spec => []StateFollowsOutbox)` |
| | `UpdatesReadUpdates` | `Batched = {} => (Spec => UpdatesSeeUpdates)` |
| | `MarkedIsMerged` | `Spec => []ArchiveHoldsNewest` |
| | `ImplementsLedger` | `Batched = {} => (Spec => ActsAtomically)` |
| `RolloutProofs` | `TypeCorrect` | `Spec => []TypeOK` |
| | `ReadyIsServed` | `Spec => []ReadyServesTarget` |
| | `NobodyIsLeftBehind` | `Spec => []NoEngineLeftBehind` |
| | `SummaryIsTrue` | `Spec => []SummaryAddsUp` |
| | `OneBatchIsUnrecorded` | `Spec => []OneBatchUnrecorded` |

Assumptions. Engine: every setting the validator of `pkg/common/config.py` accepts (`SettingsAssumption`); "no volume" is no
content (`NoneAssumption`); the bounds are numbers. Routing: ports are numbers and None is none of them. Streams and
ontology: None is no member of the other sets; at least one try.

Five theorems have a hypothesis besides, because without it the property is false of this code:

* `Alone`: volumes are reclaimed (the default), and there is one session: any operation, loop and failure, a restart of the
  manager in the middle of each, but one handler at a time. With two, stale statuses lose backups (section 6).
* `Batched = {}`, in four theorems about the ontology: requests come one by one, not as the items of
  `execute_batch_action` (section 6). Three of the properties are false of batches; `StampsFollowCommits` is proved from the
  locks (`LockInv`), which are stated for single requests.

None of these properties is inductive by itself.

*Engine.* `IInv` is `TypeOK` and `Safe`, six parts:

* `LockHeldOnce`: at most one session is in a locked stretch. Everything below rests on it.
* `DeployKeepsVolume`: needs the lock, since the only step that removes a volume is inside it.
* `DeploymentOwned`: a Deployment has a volume; while a deploy body works the row is not ARCHIVED; when a
  destroy is about to write ARCHIVED the Deployment is gone. Together they give `ArchivedHasNoDeployment`:
  a resume only scales what exists, and a poll never writes ARCHIVED.
* `ArchiveKnown`: what `archive_path`, a restore plan and a destroy after its copy name is in the archives;
  a destroy without a copy exists only if volumes are kept.
* `BackupKnown`: a suspend that is about to mark has a backup of the day, and days pass for the
  backup and for `backup_at` together.
* `TarsTaken`: an unlocked backup carries a real content.

`EngineTypes` proves what the helpers return and `TypeOK'`, one lemma per group of actions, one step per
action, one leaf per part of the state it disturbs. `EngineProofs` does the same for `Safe`; sessions that
merely begin, end or go on outside the lock are dealt with once (`Rests`, `Begins`, `Corrects`).
`EngineRefinement` shows for each action which step of the vault it is; `Aside` is the case of a session that
carries no tar.

`GoesTwoWays` rests on `VolumeShrinks`, which lists the steps that take anything from a volume, in every setting. `NothingSavedIsLost` rests on `Sheltered`: what was saved and is
not archived is in the volume and in the newest backup (`Kept`), since a lonely deploy restores what the row lacks and
a lonely destroy archives the newest backup; a row that says ARCHIVED has no volume and everything archived; a session
that is about to drop the volume, or to put an archive in its place, knows the archives complete, and one that carries a
tar carries all that is not archived (`Sound`).

*Routing.* The map stays injective because the first free port is free (`FirstFree` is a CHOOSE over a set of numbers,
which the library's facts on least elements bound) and because `Reconciled` gives ports outside of those kept. The
copies are of an injective map. `EnsureHeals` is the last of the facts a clean handler accumulates step by step (`CleanKnows`), which hold
because a clean handler is the only one (`CleanAlone`). `ReachesItsOwn` needs `CalmHolds`: as long as it is calm, a process
listens on the port the map has for its profile, and rows, routes and mirror agree with the map but for what the one
handler under way, or the starting Pod, is about to change. A route that is out of date is `Harmless`: nobody sends to
its profile (`Unsent`: no row, and not in the mirror), or the profile that has got the port is only being created
(`Young`), so that a cached target does harm only where its profile has lost its row.

*Streams.* `IInv` says of every bubble, stream, active entry, queue and worker that what it refers to exists and belongs to
the right user (`InTurn`: what a turn says is in the bubble of its message, or in a later one of the user that was not
opened alone); a queue is in the order of the callbacks and the message at work older than it; the worker's target is a stream of the asker, and the fallback after its loss is the asker's active one.
`AnsweredInOwnBubble` adds `AInv`: a user who asks alone has one bubble that waits, it is the active one, the worker
began the turn in it, and stream and bubble of it speak of its own turn only; what a later callback or a message sent
unasked disturbs is no longer alone. `Unlost` says that a bubble that polls has its stream until the gateway restarts, because
entries go after 420 s and polling ends after 360 s.

*Ontology.* `KeysApplyOnce` keeps `LogKnows` (the keys of the outbox are in the log). `StampsFollowCommits` keeps `StampInv`:
stamps are not shared, and the stamp of an open transaction that has written a row is later than those of its committed
writes. `DorisFollowsCommits` keeps `OrderInv`:
the executor holds the oldest of the records that wait, and the one under way is what Doris shows. `RowsFollowOutbox` keeps
`HoldInv` (an open transaction has written at most the row of its own rid), and `UpdatesReadUpdates` adds `LockInv`: no
two transactions have written one row, and the version of a row tells whether a modification has read its value.
`TypesHoldEverywhere` has to know that the merges order what they append: `AscendingLists` shows it of the CHOOSE of
`Ascending`, from `CanBeSorted` (a least counterexample on the size of the set stands in for induction). `MarkedIsMerged` keeps `FlushInv`: a
batch is the oldest that waits, so everything marked is older, and behind each object without deletions the last row is the
newest marked change, or one of the batch under way, whose merge comes before its mark. `ImplementsLedger` keeps `LedgerInv`:
what a transaction has settled (its rid belongs to the object, the row it modifies is the one it read, a hydrated row has
version 1, a deletion takes no row but that of its rid) still holds when it commits; only `Commit` moves the ledger, and it does so in one of its steps (`CommitEnters`).

*Rollout.* `IInv` is `TypeOK`, `InStep` (state of the record and place of the task), for every engine `Recorded` (an item is
PENDING exactly as long as the task has it in hand; an archived row has no Deployment) and for every engine nobody else has
changed `Followed`: no item means no Deployment; until it is patched its Deployment has the image of the listing, which is what
makes SKIPPED right; afterwards the target; READY means that the Pod, if there is one, runs it, or that the engine is in `unseen`. `ItemKeeps` treats
all item steps at once. `SummaryIsTrue` adds that the items of a batch are counted in no other entry before. `OneBatchIsUnrecorded`
needs no induction over a batch: its last engine, with at most `size` up to it, bounds it, and what is patched and
unrecorded is among the engines the task has in hand.

Model-checked only: the liveness properties `DeploySettles`, `TerminatingPodGoes`, `RolloutEnds`, `AnswerIsShown` and
`IndexSettles`, which are out of the prover's reach, as is ENABLED. Every safety property a passing run checks is a theorem.

## 8. What is not modelled

*Lifecycle*: external Dify rows (no engine), deployments with a scope other than ALL, browser Pods, skills
and persona replay, engine configuration objects, error texts, node affinity, URLs. Deleting a PVC takes effect at
once. Tar and upload under the lock are one action, and so are download and untar. An upload that is cut short
is not modelled, one that is written and fails its verification is (`PutDaily`). A listing of the store that
fails is empty, never partial. Legacy `latest.tar.gz` counts as a daily backup. One engine: what a loop does to the next
agent after one raised is the plan's LockBatch. The `AgentProfile` rows a destroy deletes are not tied to 3.2.

*Routing*: the files and skills of a profile, secrets and isolation by user id, the Pod name whose
change drops a cached target, request rewriting, several engines. *Rollout*: listing and pagination; one rollout at a time, a second one is `RivalPatch`.
*Streams*: the other channels, cards (`send_card_message`), the contents of attachments, `response_url`, engine sessions, the Redis mode.
*Ontology*: Actions whose rules give several mutations (`action_service.py:577`; one object, one mutation here) and the legacy path
without rules (`:1033-1082`); edge attributes, which a link Action deletes and creates in one transaction; the lite edition, which
writes no outbox (`:1859`); a clock that goes back (`created_at` grows from one call to the next); links, validation and compilation of rules, permissions, notifications, WEBHOOK records, several object types in
one flush, the schema side of both stores.

Not modelled at all, with reasons in `PROJECT.json`: housekeeping and sampling, instances and publishing,
alerts, verification codes, the observability API, and of the Gaia ontology the definitions, data sources, object sets, bulk
loading and write-back. Most of these are forms over single rows, read-only queries, compilers of queries and drivers of other
systems: they have no protocol between actors, which is also why the share of the repository's lines the
models stand for is small.
