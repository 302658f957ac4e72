# Verification of the Range42 backend API

TLA+ models of the parts of the backend that keep state across requests,
processes and crashes, their TLC runs and TLAPS proofs. Paths below are
relative to the repository. `PROJECT.json` maps every definition to the lines
it models.

## The system

The backend is one FastAPI process (one event loop) over a SQLite database and
one workspace directory per deployment. Work on infrastructure is done by
detached `ansible-runner` processes, which outlive the API.

| Component | State it keeps | Operations | Hard behaviour | What makes it correct |
|---|---|---|---|---|
| Attempt lifecycle (`core/attempt_lifecycle.py`, `core/deploy_trigger.py`, `routes/v1/deployments/attempts.py`, `snapshots.py` cancel) | rows `Attempt`, `Deployment`; in-memory tasks | reserve, start, mark running, finish, cancel | steps of several coroutines between awaits; late and repeated completions; cancellation racing setup | one active attempt per deployment; results final; an accepted cancellation decides; the deployment shows its current attempt |
| Locks (`core/locks.py`) | row `WorkspaceLock`; flock on `provisioning.lock` | acquire, heartbeat, expire, take over, release; enter and leave the provisioning block | expiry while the API is down; descriptor inherited by a child | whoever works in a workspace holds its lock; one provisioning run per installation |
| Detached runner (`core/runner_detached.py`) | process; files `pid`, `process.json`, `rc` | spawn, publish identity, signal, kill, wait | crash between spawn and publication; PID reuse; no exit code | only a verified process is adopted or signalled |
| Orphan recovery (`core/orphans.py`, `main.py`) | none of its own; query result and task table in memory | boot and periodic pass, adopt, recover, stop observers | stale rows; passes cut short; shutdown in the middle of a launch | every attempt ends; live runners are not forgotten |
| Credential cleanup (`core/attempt_cleanup.py`, `core/ssh_agent.py`, `core/scenario_runtime.py`) | agent process, socket, temporary vault, variable files, `cleanup.json` | create, record, remove (from memory or from the record) | crash between creation and record; repeated cleanup | removed before the lock is released, and only what the attempt created |
| Event log (`core/events.py`, `core/events_watcher.py`, `events.py` route) | `events.jsonl`; a cached sequence number per writer | append, translate, replay, tail, download | several writers on one file; torn appends; restart | numbers identify events; no event is lost or repeated |
| Snapshot sets (`core/snapshot_sets.py`) | operations and members as rows | plan, review, execute, reconcile, retain | native tasks that survive the API; lost answers | a member is dispatched at most once; the lock is kept until every task is known |
| Allocation ledger (`core/allocation_*.py`, `core/deployment_allocations.py`) | leases and assignments | reserve, bind, ensure, release, expire | races between probe and insert; expiry | live claims of one target are disjoint |
| Maintenance gate (`core/maintenance.py`, `core/maintenance_guard.py`) | flock and an intent record in one file | shared entry per request, exclusive hold, drain | installer crash; background jobs | exclusive work meets no request and no active attempt |
| Deployment creation (`routes/v1/deployments/crud.py`, `core/workspace*.py`) | row and directory | create, seed the vault, remove on failure | partial failure, same codename twice | a row has a complete workspace |
| Runtime operations (`core/runtime_*.py`) | review digest, `operation_result` | review, run, read back | host or state changed since the review | a mismatch never becomes a success |
| Catalog cache (`core/catalog_snapshots.py`, `routes/v1/catalog`) | listings in the memory of each worker | list, refresh, change a credential | clones that end late, in another worker | nothing older than a refresh or read with an old credential is served |
| Authentication and audit (`core/auth.py`, `core/audit.py`, `core/access.py`) | audit rows | identify, allow, record, finish | storage that fails between intent and effect | no mutation without its record, no record that claims too much |
| Preflight and compilation (`core/preflight.py`, `core/scenario*.py`, `core/project.py`, `overlay/expand_replication.py`) | a checkout | check, validate, check out, compare, expand | remote reads that fail or hide things; git interrupted half-way | what is let through holds; what runs is the saved commit; teams are apart |
| Native scenarios (`core/native_*.py`) | a private copy per run | inspect, create, prepare | names that mean two files; the registry changes | every action runs its own entrypoint |
| Redaction (`core/redaction.py`) | audit rows | redact an event | order of layers, cut, rotated credentials | no secret of the run reaches the log |
| Projects, hosts, sources (`routes/v1/projects`, `proxmox/hosts.py`, `catalog/sources.py`) | rows | register, bind, remove | racing registrations | a deployment keeps what it was made from |
| Guest edits (`routes/v1/proxmox/vm_config.py`, `vm_hardware.py`) | none | review, send | everything may change between the two | only what was reviewed is applied |
| Credential store, other Proxmox routes, legacy routes, schemas | files and rows written by one request | CRUD, conversion, remote calls | little | left to tests |

The parts meet in four places: the `WorkspaceLock` row and
`Deployment.current_attempt_id` (requests, observers, recovery), the artifact
directory of an attempt (API, runner, next API instance), `events.jsonl`
(observer, setup failure path, recovery, readers) and the flocks (requests,
runners, installer).

## Modules

| Module | What it is |
|---|---|
| `DeploymentJobs` | What the attempt machinery promises: at most one job under way per deployment, a job ends once, an accepted cancellation is its result. No processes, locks or crashes. |
| `AttemptLifecycle` | Lifecycle, locks, runner, recovery, cleanup, shutdown, crash and restart in one module, because every property is about their interaction. |
| `MCAttemptLifecycle` | Symmetry of its instances for TLC. |
| `AttemptLifecycleProofs` | Theorems, for every set of deployments and attempts. |
| `EventLog` | `events.jsonl` of one deployment: writers, watchers, removal of raw files, recovery drains, one subscriber, crashes and power loss. |
| `MCEventLog` | Symmetry of its instances. |
| `EventLogProofs` | Theorems, for every set of attempts, number of event files and length of the log. |
| `RuntimeVault` | The empty `secrets/default_vault.yml` an attempt creates and removes, the user's own vault, reuse of inodes, crash and recovery. |
| `MCRuntimeVault` | Symmetry of its instances, for the run of finding 5. |
| `NativeJournal` | What the journal of native snapshot writes promises: each goes out at most once and a verdict is true. |
| `SnapshotSets`, `MCSnapshotSets` | Create, rollback, delete and retention of reviewed snapshot sets; shown to implement `NativeJournal`. |
| `SnapshotSetsProofs` | Its theorems, the refinement included, for every set of sets, operations and guests. |
| `AllocationLedger` | Leases and claims of identifiers: plans and probes that race, expiry, binding, release. |
| `AllocationPlan` | The plan of one allocation request, loop by loop (`_plan`). |
| `AllocationLedgerProofs` | Theorems of the two, for every set of projects, deployments and identifiers and for every request. |
| `MaintenanceGate` | Admission of requests, the helper's locks and proof, the installer's intent. |
| `DeploymentCreation` | Creates that share one name and one workspace directory. |
| `Registry` | A project's binding, a host name and the default Git sources, registered by racing clients. |
| `ScenarioReview` | Networks, identities, memory and storage of a pinned scenario against its target. |
| `ScenarioTopology` | Instances declared for teams and users, and the expansion per team. |
| `PreflightChecks` | The other checks of a preflight, on services that come and go (extends `ScenarioReview`). |
| `PinnedScenario` | Scope and revision rules, the checkout as single git commands, the baseline comparison. |
| `NativeWorkflow` | Discovery, contexts and the private copy of a native run (extends `PinnedScenario`). |
| `RuntimeApply` | A runtime operation: review, replans, runner steps, readback, with other administrators at work. |
| `RuntimeReadings` | The readings those plans rest on, request by request, while the cluster moves. |
| `RuntimeProofs` | Theorems of `PinnedScenario`, `NativeWorkflow`, `RuntimeApply` and `RuntimeReadings`. |
| `GuestEdits` | Reviewed edits of a guest and the tasks they start. |
| `ControlPlaneProofs` | Theorems of `DeploymentCreation`, `Registry`, `GuestEdits`, `ScenarioTopology`, `ScenarioReview` and `PreflightChecks`. |
| `CatalogCache` | Caches of several workers, shared clones, refresh and rotation. |
| `AuditTrail` | The middleware and the audit rows. |
| `SshAgent` | The agent process and its socket directory, with recycled PIDs and replaced files. |
| `SharedStateProofs` | Theorems of `MaintenanceGate`, `AuditTrail`, `CatalogCache`, `RuntimeVault` and `SshAgent`, for every set of requests, routes, workers, attempts, inodes and PIDs. |
| `EventRedaction` | Translation, redaction and cut of a raw event. |
| `EventStream` | Replay, tail, filter and download of the log. |
| `EventViewProofs` | Theorems of `EventStream` and `EventRedaction`, for any log, ranges, cap, secrets and raw events. |
| `MCSharedState` | The six components whose state several processes share, in one TLC instance: vault, agent, ledger, gate, catalog, audit. |
| `MCControlPlane` | The thirteen components of one process, from `AllocationPlan` to `EventStream`, in one TLC instance. |

### AttemptLifecycle and the code

*State.* `state`, `deployment`, `scope`, `cancelled` (`sub_reason =
"cancel_requested"`), `current`, `depState` and `lock` are columns; `stale`
says that a heartbeat expired. `runner`, `published` (both `pid` and
`process.json` identify the process), `exit` (what `rc` says), `signalled` and
`secrets` are the host. `api`, `task`, `flock`, `vetted`, `request`, `again`
and `pass` are the memory of the API and are lost in a crash. `task[a]` is the
program counter of the coroutine that handles the attempt:

    reserved -> starting -> preparing -> agent -> armed -> spawned -> launched -> running -> exited
                                                                   adopted -> recovering

with `failing` (an exception in setup) and `killed` (finished after a kill)
on the side.

*Granularity.* A database transaction is one step: SQLite serializes writers,
and every decision of the code that matters is taken by a conditional UPDATE
or inside a write transaction. Code between two transactions, two awaits or two
changes of the file system that a crash can separate is a step of its own. What
was read before an await is kept (`vetted`, `request.pending`,
`pass.cancelSeen`, `pass.todo`) and used, stale, after it.

| Code | Actions |
|---|---|
| `reserve_attempt` | `VetTeardown`, `Reserve`, `RefuseTeardown`, `FinishFailed`, `FinishAgain` |
| `start_attempt`, `_start_attempt` | `StartAttempt`, `StartRefused`, `AcquireLock`, `CreateSecrets`, `RecordCleanup`, `SetupFails`, `MarkRefused`, `MarkFails` |
| `DetachedRunner.start` | `Spawn`, `Publish`, `PublishFails` |
| `mark_attempt_running`, `finish_attempt` | `MarkRunning`; the operator `Finish` in every finishing action |
| `_run` | `ObserveExit`, `FinishRun`, `FinishAgain`, `MonitorFails`, `Heartbeat` |
| `cancel_current_attempt` | `ReadForCancel`, `Cancel`, `CancelRefused` |
| `reconcile_once` | `PassStarts`, `PassSkips`, `PassAdopts`, `PassRecovers`, `PassFinishes`, `PassAborts` |
| `_observe`, `_finish_recovered` | `AdoptedExit`, `FinishAdopted`, `FinishAgain`, `TaskDies` |
| `lifespan`, `stop_observers` | `Boot`, `BeginShutdown`, `Detach`, `Stopped` |
| environment | `RunnerExits`, `HeartbeatExpires`, `Crash` |

*Abstractions.* Time: a heartbeat may expire in any phase; the 90 second grace
of a recovery pass means only that it does not take an attempt whose request
has not registered its task. Requests may be served before the boot pass is
complete (it may have failed, and it is then only logged). The content of a
checkout, of preflight, of allocation and of the playbook is a step that
succeeds or raises. A runner writes `rc` as it exits. The four `Scopes` stand for the
ways in which the code treats a scope: `full` and `runtime` take the provisioning
lock, `runtime` has a readback, `teardown` is vetted, `configure` is none of
these. A second `finish_attempt` that never happens (its event could not be
written, or the API shut down) is not a separate action: in a correct model it
changes nothing. Attempt identifiers are random and never reused.

### EventLog and the code

*State.* `file` is the sequence of complete lines, sentinels left out;
`partial` says that an unfinished line follows, `synced` how many lines survive
a power loss. `raw`, `context` (`redaction.json`), `runner` and `published`
are the artifact directory. `writer[p]` is `EventsWriter._seq`, `seen[a]` is
`EventsWatcher._seen`; both are lost in a crash. `phase[p]` is the program
counter of the attempt's task and of the recovery pass; both run the same
closing sequence:

    setup -> started -> spawned -> launched -> watching -> stopping -> open -> cleaned -> ending
                                     adopted -> orphaned -> undrained -> drained -> open
    queued (pass) -> drained -> open -> cleaned -> ending

*Granularity.* What a coroutine does between two awaits is one step: a scan of
the event files with all its appends, one removal of raw files. An append that
raises (`WriteFails`) stops anywhere in its line or sentinel.

| Code | Actions |
|---|---|
| `EventsWriter` | `LastSeq`, `Write`, `WriteBoundary` (fsync), `WriteFails` |
| `EventsWatcher.run` | `Poll`, `FinalScan`, `WatcherFails` |
| `_start_attempt`, `_run` | `StartEvent`, `StartEventFails`, `SetupFails`, `Spawn`, `Publish`, `Watch`, `LaunchRefused`, `RunnerObserved`, `CleanOutput`, `FinishRow`, `EndEvent` |
| `reserve_attempt` | `Reserve`, `FailureEvent` |
| `cleanup_attempt_output` | `RemoveRaw` |
| `reconcile_once`, `_observe`, `_finish_recovered` | `PassSelects`, `PassSkips`, `PassAdopts`, `PassRecovers`, `Drain`, `OpenWriter`, and the closing actions |
| `EventsReader`, `tail_events`, the stream route | `Readable`, `Stream` |
| environment | `RunnerEmits`, `RunnerExits`, `Crash`, `PowerLoss` |

*Abstractions.* The lifecycle is reduced to what decides who writes when:
cancellation and the locks are in `AttemptLifecycle`. An event is its attempt,
its kind, the event file it came from and its number. An unfinished line cannot
be read; the code does read one that is cut exactly before its newline. A
stream without filters. A power loss keeps what the runner wrote. `lossy` is a
history variable for `EndIsLast`: attempts that gave up their event files (their
launch was refused, their own watcher failed, or the host failed after their
`redaction.json` was shredded, when recovery may not copy any more).

### RuntimeVault and the code

`vault` is the file (inode, first writer, whether it has a user's content),
`handle` the `RuntimeVaultPlaceholder` in memory, `record` the inode named in
`cleanup.json`. `Clean` is `cleanup()`: memory first, then the record; it runs
in `SetupFails`, `ObserveExit`, `Recover` and, after `Finish` has released the
lock, once more in `CleanAgain`. `Prepare` may give any inode to a new file, as
a file system does with that of a removed one. A user places, edits and removes
the vault at any time, but never writes just `{}`. A crash inside `cleanup()`
is left out.

### SnapshotSets and the code

`setState`, `opState`, `plan`, `row`, `reviewed` and `proof` are the rows of
`snapshot_models.py`; `owner` is the workspace lock, `provision` the flock.
`execution` is the program counter of `execute()` after its first commit,
`draft` what `plan_create` has read before it inserts. `native` and `task` are
Proxmox, `sent` counts the writes that left the API (history).

| Code | Actions |
|---|---|
| `plan_create`, `plan_existing`, `plan_retention`, `cancel_plan` | `ObserveMembers`, `PlanCreate`, `PlanRefused`, `PlanExisting`, `PlanRetention`, `CancelPlan` |
| `execute`, `_dispatch` | `Execute`, `GuardMember`, `GuardFails`, `NativeWrite`, `WriteFails`, `Accept`, `Unconfirm`, `Abandon`, `Leave` |
| `reconcile_operation` | `Reconcile` (`Readings`, `Outcome`, `SetOutcome`, `Close`); from `reconcile_once`: `Settle` |
| competitors | `DeployStarts`, `DeployEnds`, `RawWrite`, `TargetChanges`, `PolicyChanges` |
| environment | `Effect`, `TaskEnds`, `GuestChanges`, `Crash` |

A write through the raw Proxmox routes passes `_mutation_session`, which looks
for snapshot operations of the guest; `tampered` are guests whose snapshots were
removed outside the API. UPID validation and the "stopped" state after a
rollback are not told apart from success.

### The control plane

| Module | Stale or torn state it is about | Left out |
|---|---|---|
| `AllocationLedger` | occupancy read before the transaction; a probe of absence before the release | the "unknown" deployment state; an identifier stands for VMID and addresses together |
| `AllocationPlan` | fixed values that a later row claims | why a value is occupied |
| `MaintenanceGate` | a caller that leaves while its handler works; an API process restarted under the helper | requests that are exempt from the gate; the owner and mode checks of the file |
| `DeploymentCreation` | the directory shared by two creates; a write cut short; a stop of the process | the other files of the template |
| `Registry` | a SELECT before the UPDATE that repeats it | concurrent edits of a project's free fields (the last one wins) |
| `ScenarioReview` | guests a token may not see | CPU pressure beyond the one warning |
| `ScenarioTopology` | declarations that agree in part | identifiers of groups in an expansion |
| `PreflightChecks` | services that change between two checks | wording |
| `PinnedScenario` | what earlier attempts left in a directory | pack files, hooks: git is the five commands that are run |
| `NativeWorkflow` | registry and host changed after the creation | the SDN files, the launcher's environment |
| `RuntimeApply` | reviews, replans and rule positions | the generated plays, but for the effect of each step |
| `RuntimeReadings` | an answer older than the next | shapes and bounds of answers (a request that fails) |
| `GuestEdits` | a digest older than the guest; a task older than the next edit | fields beyond configuration, NIC and disk |
| `CatalogCache` | clones under way during a refresh or rotation | the content of an entry and its size (`max_bytes`) |
| `AuditTrail` | storage failing before or after the effect | the listing of records |
| `SshAgent` | a record older than a reboot or a reused PID | SSH keys themselves |
| `EventRedaction` | credentials rotated between start and recovery | forms that JSON escapes |
| `EventStream` | appends during replay and tail | counters |

What is external is stated by the modules: a guest's configuration, tasks,
clusters, servers and users' files change at any time within a counted bound.
`SshAgent` takes it that a process keeps its PID until the API has read its
identity, and that an inode is not given again to a replaced file.
`RuntimeReadings` takes a token's permissions as fixed during a reading;
`filtering_configured` is not a snapshot of one moment, and the property says no
more than that each of its parts was true at some moment. An agent whose keys
could not be loaded, or whose API process ended before `cleanup.json`, stays;
`AgentsAreOwned` says so.

`EventRedaction` takes a text as a sequence of numbers and a secret as one of
them; `str.replace` is the function `scan`, position by position. The code sorts
the secrets by length and leaves the order of equally long ones to the set they
come from: the model takes any order of `Needles`. What a runner emits is stated
by `Emits`: a letter of a secret occurs only inside a whole secret
(`Covered`), so that it can be told when one is left, and of two secrets in a
text one is part of the other or they are apart (`Laminar`). Where secrets
overlap in part the code may leave a fragment of one of them; that it never leaves
a whole one is proved without this assumption (`NoSecretIsLeft`).

### Faults

Operators introduced as "Fault" are the mutants of PROJECT.json: a
plausible bug in the definition that follows them. No run uses them by itself.

## Runs

Deadlock is not checked: when every attempt is used up and over, nothing has
to happen.

| Run | Instance | States | Shows |
|---|---|---|---|
| `lifecycle_workspace` | 1 deployment, 2 attempts, scopes runtime and teardown | 2.6 M | types, lock ownership, cleanup under the lock, deployment and attempt agree, cancellation, honest results, final results, refinement of `DeploymentJobs` |
| `lifecycle_provisioning` | 2 deployments, 2 attempts, scope full | 3.0 M | exclusion in a workspace and in the installation |
| `lifecycle_liveness` | 1 deployment, 1 attempt, scope full | 3.6 k | attempts end, locks are released |
| `lifecycle_teardown` | 1 deployment, 2 attempts, scopes configure and teardown | violated | finding 1 |
| `lifecycle_cleanup` | 1 deployment, 1 attempt, scope full | violated | finding 2 |
| `event_log` | 2 attempts, 1 event file each, lines torn up to length 3 | 3.7 M | types; every runner event is in the log once, and durable before its file goes; `attempt_end` after the copies; streams are prefixes |
| `event_log_numbers` | 2 attempts, no torn lines | violated | finding 3 |
| `event_log_end` | 1 attempt, no torn lines | violated | finding 4 |
| `runtime_vault_owner` | 2 attempts, 2 inodes | violated | finding 5 |
| `snapshot_sets` | 2 sets, 3 operations, 2 guests, 1 edit, 1 crash | 378 k | no write twice or forgotten, the lock is kept as long as a task may run, complete sets can be restored, retention keeps its count, operations conclude |
| `shared_state` | six modules, see below | 1.0 M | seven properties about state that processes share |
| `control_plane` | thirteen modules, see below | 0.6 M | eleven properties about single requests and what they read |

The last two are disjoint sums: a behaviour chooses one part at its start
(`part`) and follows it, the others stay in one initial state. The parts share
no variable, so their product would show nothing more. The properties of
`shared_state`:

| Property | What could go wrong |
|---|---|
| `UserVaultKept` | a vault that the user put into the workspace is removed as if it were a placeholder |
| `NoLeftover` | a placeholder stays after a closed attempt, through crashes and reuse of inodes |
| `AgentsAreOwned` | a foreign process killed, a foreign file removed, an agent left behind |
| `LedgerHolds` | two owners of one identifier after a race of probe, expiry and binding; a release that lets go of an existing guest |
| `GateIsSafe` | the helper holds the gate over an active handler, runner or attempt; a crash opens it |
| `CatalogIsFresh` | a late clone brings back an old listing or one read with an old token |
| `AuditCovers` | an effect without record, "denied" with an effect |

and of `control_plane`:

| Property | What could go wrong |
|---|---|
| `PlanMeetsRequest` | an automatic choice takes a value that a later row fixes or retains |
| `CreationHolds` | the create that fails takes the password of the one that won |
| `BindingsHold` | a deployment resolves another repository or host; two usable default sources |
| `ReviewsAreSound` | a report that does not block although the plan touches a hidden guest, overlaps a network or exceeds memory; a declared check that passes without its arguments |
| `TopologyIsSound` | two teams reach each other through a network or a handler |
| `RunsAreSaved` | files of an earlier attempt, another commit or another action are run |
| `RuntimeIsSafe` | a rule of somebody else is changed by its position; green without the effect |
| `ReadingsAreHonest` | a claim put together from answers of different moments that was never true |
| `EditsAreReviewed` | a stale edit is applied, a disk shrinks |
| `NothingSecretIsShown` | a secret, or its beginning, in the log after a rotation or a cut |
| `ViewersMissNothing` | an event skipped or sent twice between replay, cap, tail and reconnection |

*Bounds.* In `AttemptLifecycle` every state variable is bounded by the
constants alone; crashes, restarts, cancellations, passes and expiries may happen any number of times.
Two attempts are what the interaction needs: the code never relates more than
the current attempt of a deployment and one older one, and the provisioning
lock relates two holders. The theorems below are free of these bounds. For
liveness one attempt is enough to run through every way of being interrupted;
what a second attempt could do to the first is excluded by the safety properties.

`EventLog` bounds the event files of a runner (`MaxEvents`) and the log length
up to which an append may fail (`MaxLines`; each failure may add a damaged
line). One file per runner is enough for a copy, its receipt and its removal to
meet every crash, since the code treats files one by one; three lines are room
for a torn event, the line it spoils and the line after that.

`SnapshotSets`: two guests make a member fail while the other succeeds; two
sets and three operations are a create, a second one that retention counts, and
a delete; one edit and one crash come at any point. In `shared_state`, the
vault has three attempts and two inodes, one reused and one not; the agent two
attempts, one PID and three processes, so that the PID is used again; the ledger
two authors and one deployment or one author and two deployments over two
identifiers; the gate two requests and one restart; the catalog two workers, one
reader, a cache of one entry, two clones under way, two tokens and one refresh.
In `control_plane`, creation has three creates (two that lose); readings two
changes of the cluster; the checkout two faults; the stream three lines and a
cap of two; plans, reviews and expansions take one request out of a few dozen,
chosen so that every check is met by a request that passes it and one that does
not. Each is the least in which the mutants of the module are caught and every
action fires; the theorems below hold for the others too.

*Fairness.* A task's own steps are weakly fair: the event loop resumes
coroutines. `RunnerExits` is fair: a playbook terminates, or its operator
terminates it. `Boot` and `Stopped`: the service manager restarts the API. The
scheduler starts passes for ever, but a crash or shutdown may interrupt any of
them and an exception ends a pass; `PassStarts` and the steps of a pass for one
attempt are strongly fair: not every pass fails, for ever, before the same
attempt. Nothing makes crashes, failures or shutdowns stop. `FairSpec` of
`EventLog` makes the same assumptions; its counterexample needs one crash and
then a system that has nothing left to do. `SnapshotFairness`: the coroutine of an
operation and an attempt of the deployment go on (weak fairness), some native
task ends as long as one runs, and recovery passes settle some operation again
and again (strong fairness of `\E o : Settle(o)`, since a crash or a failed pass
may come between). `Concluded` is stated up to changes made
outside the API, after which the code waits for an operator.

## Findings

1. *A teardown can be reserved on an unknown state.* `attempts.py:82` demands
   to resolve the unknown state first; the check reads the row before the
   transaction of line 107, which does not repeat it. TLC: a request is vetted,
   the runner of another attempt dies with its API, recovery makes the
   deployment unknown, and the reservation succeeds.
2. *Cleanup with a live runner.* `attempt_cleanup.py:95` says "only after
   runner exit". If `pid` or `process.json` cannot be written after the spawn,
   `_start_attempt` has no handle to kill, removes the credentials and lets the
   attempt fail, which releases the lock while the runner works.

3. *Event numbers are not unique.* `events.py:3` promises a monotonic number per
   deployment. Every writer caches the last one; the request whose setup failed
   and a recovery pass, or a late `attempt_end` and the next attempt, append the
   same number, and a tailing reader skips the second event. `StreamIsPrefix`
   shows that streams are right as long as numbers are.
4. *An attempt can end without `attempt_end`.* `deploy_trigger.py:6` promises it.
   The row is finished before the event is appended, and a finished row is never
   recovered.
5. *Cleanup after the lock.* `docs/runner-lifecycle.md:40` says before releasing
   the workspace lock, and only the own file. `_run` cleans up once more at its
   end; the placeholder of the next attempt can have the same inode and content.

## Proofs

`AttemptLifecycleProofs` assumes only that `Null` is no attempt and no
deployment and that `Scopes` are the four known ones. The argument:

- `TypeCorrect`: every action keeps the types (`TypeInductive`).
- `Invariance`: `IInv` is inductive. `LockOwnership` and `WorkspaceExclusion` are not inductive
  alone: that a finishing step may release a lock depends on the process being
  gone and the files removed (`ClosingIsClean`), which depends on what each
  phase may assume (`ProcessesFollowSpawn`), on tasks and the pass never
  handling one attempt together (`TasksAreLive`), and on references between
  rows (`WellFormed`). One lemma per group of actions shows that it keeps the
  conjuncts; `FinishKeeps` is shared by everything that ends an attempt,
  `AgainIsIdle` shows that a repeated `finish_attempt` writes nothing.
- The first safety theorems are conjuncts of `IInv`.
- `ProvisioningExclusionHolds`: relative to `IInv`, exclusion is inductive
  together with `LaunchersHoldFlock`: every launching provisioning task has the
  flock, and a runner can only come from such a task.
- `RowSteps`: under `IInv` the rows' states change in four ways only (a
  reservation, the start of the runner, a cancel request, `finish_attempt` of
  an attempt that exists). `TerminalIsFinalHolds`, `CancellationWinsHolds` and
  `Implementation` (each such step is a step of `DeploymentJobs`, everything
  else stutters) follow case by case.

`SharedStateProofs`, on the vault, assumes that `Null` is no attempt and no inode and that
`"absent"` is no inode. `TypeCorrect` is inductive; `UserVaultKeptHolds` follows
from it, because every removal looks at the content. `NoLeftover` is not
inductive: `Owned` says where the inode of a placeholder is written down, in the
handle until the record exists and in the record until the attempt has cleaned
up, and that is kept also by a crash, which takes the handle.

On the agent: `AgentsAreOwned` says that no foreign process is killed although
PIDs are used again. `BirthsAreUnique`: a start time belongs to one process;
`IdentitiesNameAgents`: an identity that is kept fits no process but the agent it was
taken from; `KeptWhereNeeded`, `AgentIsKnown` and `DirectoryIsLeft` say what is kept
of it, in the handle or the record, at each point of a closing.

`EventLogProofs` assumes that `Null` and the recovery pass are no attempts and that the
bounds are natural numbers; its theorems hold for every value of both. What a step
does to the log is put in one statement first (`StepsOfTheLog`): it leaves the log
alone, adds a boundary line or copies files that have no copy yet, whole or torn; a
power loss cuts it instead. Then, one after the other:

- `CopiesInv`, for `CopiesAreExact`. That a scan copies nothing twice is not inductive:
  it takes what it has not seen, so what a watcher that still copies has seen must be
  just what has a line (`SeenIsCopied`); in a log with garbage it may have seen more,
  which is why a file is removed only when the whole log can be read and is synced.
  `GivenUp` keeps on record which watchers failed.
- `EndInv`, for `EndIsLast`: one task, or else the pass, works on a row (`TaskHasRow`,
  `PassAlone`); when the closing begins the runner is dead (`StoppedIsDead`) and
  `redaction.json` is there as long as somebody copies (`ContextKept`); so what has
  been drained is complete and stays so (`DrainedIsComplete`), and an end that is
  written later comes after it (`EndsAreLast`).
- `StreamKnows`, for `StreamIsPrefix`: as long as numbers identify lines, what a
  subscriber has received is all lines up to its number, in order. `InOrder` takes the
  members of a set by their rank, and the lemmas on ranks (`RankIsTaken`,
  `InOrderLists`, `InOrderContinues`) say that the lines after a number continue the
  list of those before it: no induction over sequences is needed.

`AttemptLifecycleProofs`, further: `OutcomeIsObserved` needs `ExitsFollowRunners`
(a runner has a result exactly if it ended, and a task that watches a process knows
which); `CancellationReachesRunner` needs `PassIsInformed`: a recovery pass works
with the cancel requests it read at its start, and one that came later signalled the
process itself, unless the attempt was still being launched, and then the launch
kills it.

`AllocationLedgerProofs` uses the two assumptions on `Nobody` and `Outsider`.
`LedgerHolds` is not inductive: that a new guest is claimed rests on
`ClaimIsManifest` (a claim is the whole manifest, and a running attempt has
one), and that a release lets go of no guest on `ReleaseSeesGuests`: as long as
no attempt was reserved since the release began, every guest of the deployment
is still to be probed. The provisioning lock that a release takes as well is
not needed for it: the comparison of the attempt at the commit is enough.

The same module proves `PlanMeetsRequest`. `PlanGoesOn` says how far the two loops
are, `FixedHolds` that what the first loop claimed agrees (`Agree`: with what
exists, and one VM with another), `IdsHold` and `IpsHold` that what is claimed is
fixed or given, and what is given is what was fixed or what nobody had.
`FixDecides` shows that the first loop refuses a VM exactly if the request is in
conflict, `IdChosen` and `IpChosen` what the second loop takes, and
`KeyKeepsAddress` that keys which identify old interfaces do so one to one. Assumed
(`AsksAssumption`, `HostsAssumption`): what `schemas/v1/allocation.py` demands of a
request (some VMs with some interfaces, keys for all interfaces of a VM or for
none, declared networks) and that identifiers and addresses are not 0.

`SnapshotSetsProofs` assumes that the null values are no identifiers, that
identifiers are positive and sets finitely many. In order:

- `JournalInv`: types (`Typed`), one ongoing operation, which owns the deployment
  (`Owned`), what a member's row says of its native write (`RowsAreTrue`) and where the
  coroutine is between intent, write and answer (`CoroutineKnows`). From it follow
  `OwnedWhileRunning` and the refinement `NativeWritesAreJournaled`: every
  step dispatches a write that was never sent, concludes what is true, or stutters.
- `SetInv`: `CompleteIsRestorable` is not inductive. A rollback deletes nothing but
  leaves its set in review, from where it can become complete again
  (`RollbacksKeep`); a creation becomes complete from its members' rows, which
  must be about guests that have the snapshot (`CreatedIsThere`) and about all of
  them (`CreationsAreWhole`); and no other operation has the set in its hands
  (`SetsFollowOperations`, `PlansAreUntouched`).
- `RetentionKeeps`: a retention deletion counts the complete sets again as it begins,
  and until it ends no other operation is ongoing that could take one away. The count
  is a cardinality, hence the finitely many sets.

`SharedStateProofs`, on what stands before the handlers: `GateIsSafe` becomes inductive with `GateExcludes`, no
request is inside from the moment the helper has the gate, which is why the
proof of idleness cannot become stale. `AuditCovers` rests
on four statements about a request at each stage: it has had no effect before
its handler (`QuietBeforeHandling`), an intent means the record that was begun
(`IntentIsRecorded`), no intent means none (`RecordNeedsIntent`), and a
permitted mutation has one (`MutationsHaveIntent`). `CatalogIsFresh` rests on
`CatalogInv`: every listing, kept or on its way, has seen what the refresh of its
stamp saw and was read with the token in its key (`ListingsAreFresh`); a refresh
is stamped later than everything committed (`RefreshesAreOrdered`); a reader asks
under a stamp it has read (`ReadersAsk`). That caches and clones do not pile up is
inductive by itself, once the key of a listing says which it is.

`ControlPlaneProofs`:

- `CreationHolds` from `CreationInv`: from its flush on a request is the only writer of
  its name (`OneWriter`), the password in the file has an owner that did not fail
  (`PasswordHasOwner`), so has the one that a reversal would put back
  (`PriorHasOwner`), and what a commit brings stays (`SeededIsApplied`). Assumed: the
  markers that stand for a file's content are no creates.
- `BindingsHold` from `RegistryInv`: `BindingsAreKept`, `SourcesAreNamed`, and, for two
  clients that race for a default source, `PlansAreNamed` and `KindsAreServedOnce`.
- `EditsAreReviewed` from `EditInv`: the database is the editor's until it has sent its
  edit (`DatabaseIsHeld`), the edit fits the version that was read as long as that is
  the version (`ReadIsChecked`), and one task works on a guest (`OneTask`).
- `TopologyIsSound`: `TopologyInv` says that the answer is of its input; the rest are
  lemmas about one input (`CohortsOfRows`, `ReplicasOfSource`, `CopiesOfNode`).
  `TopologyAssumption`: finitely many instances, a roster of non-empty identifiers,
  one node for an id of a document (compose builds documents so), some team.
- `ReviewsAreSound` from `ReviewInv` and `EarnedInv`, which keeps for every check what it
  found and the services as they stood when it was asked. `ReviewAssumption` and
  `PreflightAssumption`: sizes are natural numbers, a plan has finitely many guests,
  declared subnets have addresses, what may turn are the services. That the sums of a
  plan, folds over its guests, are natural numbers is proved (`SumsExist`, `SumsAreNat`).

`RuntimeProofs`:

- `ReadingsAreHonest` from `ReadingInv`: every answer a reading works with was true at a
  moment of the reading (`AnswersWereTrue`), and the history goes up to now
  (`PastIsOfReading`).
- `RunsAreSaved`, for the two ways to run: `PinnedInv` follows the checkout as single git
  commands that may fail (`CheckoutGoesOn`: a directory that is used again loses
  every file that git did not write; `FitIsKept`: nor does fetching the baseline touch
  it); `NativeInv` says what a run was prepared from, and a lemma about aliases
  shows that a name leads to the saved file it names.
- `RuntimeIsSafe` from `RuntimeInv`: the plan of a run is that of a world in which it
  was not refused, for a reviewed kind the reviewed one (`PlansAreSound`), and a run
  works it off in order under what its guard established (`RunGoesOn`).

The assumptions on constants in these modules give the shape of requests, worlds,
forms and commits; TLC evaluates each of them in a run.

`EventViewProofs`, on the viewers: `ViewersMissNothing` from `ViewInv`. The numbers in
the log are 1, 2, 3 ... in this order (`LogCounts`), so a subscription is
determined by one of them: it has been sent what it waits for up to `last`, in order
(`SentIsAwaited`), a replay has dealt with the lines before its position and with no
line after it (`ReplayKnows`), and that holds over the cap, the change to the tail, which
reads what the filter dropped once more, and a reconnection. A download has the events
of the lines it has read (`CopyInv`). Assumed: ranges are pairs of natural numbers.

On redaction, from the bottom up:

- *Induction.* `IntervalInduction` proves what the library states with an operator
  as parameter: a set that holds 0 and with each number the next one holds an interval
  (a first number outside of it would give an injection of a finite set into a
  smaller one). `FoldExists` derives that a function defined along an interval
  exists, which the recursive functions `scan` and `after` need in order to mean anything.
- *Replace.* `ReplaceCuts`: the result is a cut of the text into pieces that lie side
  by side, each the needle, now a mark, or one character that begins no occurrence of
  it. From cuts alone follow `OccurrenceWas` (what occurs in the result occurred in
  the text, and is not the needle), `OccurrenceStays`, `LaminarStays` and `CoverStays`.
- *Untainted.* `UntaintedHides`: after i needles every letter that is left still stands
  in a whole secret that has not been looked for yet. This needs the longer secrets first: a shorter one
  that is part of a longer would break it and leave the rest uncovered. At the end there
  is no secret left to stand in. `NoSecretIsLeft` needs neither the order nor
  anything about the text: a replacement never makes an occurrence.
- *The event.* `ValueIsClean` and `WrittenIsClean` follow the layers field by field;
  `RedactionInv` says that who watches knows the secrets of the attempt, through
  rotations, restarts and recoveries, which is `NothingSecretIsShown`. Assumed:
  secrets are finite sets of non-empty texts (`CredentialsAssumption`) and
  what `Emits` says of raw events (`RawAssumption`).

Every invariant that a run checks is the subject of a theorem, and so is every action
property. Only model-checked: `AttemptsEnd`, `LocksAreReleased` and `Concluded`, which
are liveness under fairness and, like ENABLED, out of the prover's reach. The
five properties that a run violates are false of the code.

## What the code does differently from its texts

Met while modelling, and not made into runs because nothing fails by it:

- `expand_replication.py:13` calls the handler namespaces "sorted"; their order is
  that in which teams and handlers are met.
- A nested group in a `per_team` group keeps the identifiers of its children.
- Native creation prepares its checkout from the binding it has read before; the
  host is checked again, the project is not.
- A create that fails without secrets leaves the template scaffolded; a retry
  with secrets of its own meets that set.
- A process that stops between the write of the password and the commit of the
  row leaves the password (`CreationHolds` excepts it).
- `preflight.py` says that its git check catches 404; 404 of git and of a
  registry pass. An attachment of an unknown kind passes.
  `run_declarative_checks` is called by tests only, `checkout_project` by nothing.
- A denied key whose value is a list or a document is not redacted by its name;
  the keys of a document are not scanned.
- `native_execution.py:87-91`: a scenario that declares `configure` as its own
  `<name>.setup.sh` would get a shim that runs itself; the model leaves such
  declarations out (`ShimLoops`).
- The cap of a replay ends the replay only: a tail delivers the rest.

## Not modelled

PID reuse inside the lifecycle (the identity check makes it equal to a dead
process; `SshAgent` models it), a second API process on the same database
outside `CatalogCache` (`core/subscribers.py` documents a single worker), loss of
committed database transactions, and the components marked so in
`PROJECT.json`: encryption of credentials, the routes that only call a playbook or
Proxmox and format the answer, request and answer schemas. Of the components
marked "partly", what is missing is validation and layout of documents
(`bundle_attachments`, `bundle_runtime`, `scenario_firewall`,
`scenario_preferences`, `native_sdn`, `catalog_index`): sequential functions
whose result depends on nothing but their input.

## Plan

Done: the modules above with their runs, and a theorem for every safety property
that holds. What could follow, if the code grows there:

1. Argument lists of bundles (`bundle_attachments`), if they get rules that two
   documents have to agree on.
2. Secrets that overlap in part, if the code joins overlapping occurrences before it
   replaces them; `Laminar` could then be dropped.
