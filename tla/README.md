# TLA+ models of CNF

CNF (`src/`) migrates VMs between OpenStack clusters. An agent runs on every
controller node; the agents elect a master through etcd; a migration moves a
VM's RBD images (Ceph mirroring), its addresses (BGP) and, live, its memory
(libvirt) from one cluster to another.

This directory holds the models of that code, the TLC configurations that check
them and the theorems TLAPS proves about them.

## Inventory of the system

| Component | State it keeps | Operations | Talks to |
|---|---|---|---|
| Cold migration engine (`cnf/migration/engine.py:157-326`) | `ctx` (VM as read in preflight, images, addresses), `_rollbacks`, the Migration row and its events | preflight, disk, cutover, bgp, cleanup; `_transition`, `_fail`, `_run_rollbacks` | Nova, Cinder, Ceph, FRR, database, the peers' agents through gRPC stubs |
| Live migration engine (`:333-499`) and QEMU tunnel (`:506-642`) | the same, and a tunnel with its monitor task | preflight, disk sync, memory, cutover, bgp, cleanup | the same, and libvirt on both hosts |
| Master election (`cnf/agent/raft.py`) | `state` (role, master_id, term), `_lease`; the key and the leases in etcd | loop, start, stop, force_elect | etcd; the agent's callbacks |
| Agent (`cnf/agent/agent.py`) | the Cluster row, references to the election, scheduler and servers | start, stop, `_on_become_master`, `_on_lose_master`, metrics loop | all of the others |
| Scheduler (`cnf/scheduler/scheduler.py`) | `_is_master`, `_running` | evaluate policies, create Migration rows | database, Nova |
| Migration API and tasks (`cnf/api/v1/vms.py`, `migrations.py`, `cnf/tasks/migration_tasks.py`, `cnf/grpc/server.py:129-162`) | Migration rows, background tasks, the Celery queue | migrate, live-migrate, abort, ExecuteMigration | engines, database |
| Ceph client (`cnf/storage/ceph.py`) | none; the image roles and journals are in Ceph | demote, promote, mirror status, wait_for_sync, preflight_check | `rbd` |
| BGP manager (`cnf/network/bgp.py`) | none; the announcements are in FRR | announce, withdraw, handoff, rollback | `vtysh`, the peers' agents |
| gRPC servers (`cnf/grpc/server.py`) | none | PromoteRBDImage, AnnounceIP, WithdrawIP, ...; SyncState | Ceph, FRR, database |
| OpenStack client, REST reads, OSC command line, configuration, logging, deployment | none that matters here | | |

What makes each of them hard, and what makes it correct:

* **Engines.** One coroutine, but every `await` is a call that may succeed, fail,
  or take effect and then fail; loops over images and addresses may stop half way;
  handlers are registered between those calls, run newest first and may raise in
  turn. Correct: never two writers of an image on the way forward; the source VM
  goes last; a failure is undone as far as a handler says it is; the row tells the
  truth and always reaches an end.
* **Live engine.** In addition a monitor task writes the row while the engine waits
  for libvirt, and after the memory phase the VM and its disks can be on different sides.
* **Election.** Calls run in threads that a timeout or `stop()` does not stop; leases
  expire by etcd's clock; agents crash and come back under the same name. Correct:
  mastership backed by a live lease is a lock, and a worker takes over an absent key.
* **Agent and scheduler.** Callbacks run inside the election loop and may fail; the
  election starts before the scheduler exists; metrics are old when they are used.
* **API and tasks.** Nothing serialises two migrations of one VM; abort only writes
  the row; a task is delivered again when its worker died, and also when it runs for longer
  than the broker waits for an acknowledgement; one that is killed is not.
* **Ceph and BGP.** Lag is parsed from a status line, of the cluster that does not show it,
  and compared with a default that a zero falls back to; answers with `success=False` are not looked at.

`PROJECT.json` lists these as hazards with their lines.

## Modules

| Module | What it is |
|---|---|
| `MigrationEngine` | state and steps both engines share: transitions, failure, rollback handlers, calls to Ceph, FRR, Nova |
| `ColdMigration` | the cold engine: its steps, next-state relation, fairness and properties |
| `MigrationLifecycle` | abstract: the lifecycle the code keeps to in the Migration row |
| `LiveMigration` | the live engine with the QEMU tunnel and its monitor task |
| `MCColdMigration`, `MCLiveMigration` | values of `Wirings` and `Percents` for TLC |
| `MigrationEngineProofs` | lemmas about the steps both engines share |
| `ColdMigrationProofs`, `LiveMigrationProofs` | theorems about the two engines |
| `RaftElection` | the election: agents, etcd's key and leases, late transactions |
| `LeaderLock` | abstract: a lock that is free between two holders |
| `RoleCallbacks` | abstract: what the election promises to the agent it runs in; `Agent` is built on it |
| `RaftElectionProofs` | theorems about `RaftElection` |
| `MigrationService` | who starts an engine, how often, and who else writes its row: REST background tasks, Celery, abort, scheduler rows |
| `MigrationServiceProofs` | theorems about `MigrationService` |
| `Scheduler` | the scheduler's rounds, over metrics that change under it |
| `Agent` | one agent from start to stop, with its `Scheduler`, its Cluster row and the role callbacks |
| `MCAgent` | two policies for TLC |
| `AgentProofs` | theorems about `Agent` and its `Scheduler` |
| `CephMirror` | one mirrored image, its journal, the guest that writes to it and the engines that try to move it |
| `CephMirrorProofs` | theorems about `CephMirror` |

Definitions keep the names of the code where they can. An operator introduced by a
comment "Variant" is a plausible mistake in the definition that follows it: it is not
part of any specification, and is there to show that a property would notice.

### Engine (`MigrationEngine`, `ColdMigration`)

`pc` is the `await` the coroutine is at and `i` the position of the `for` loop
it is in; an action runs from one `await` to the next. Every call to another system
has three outcomes (done; raised without effect; raised although done), unless the
code catches the exception, in which case both effects lead to the same place.

| Variable | Code |
|---|---|
| `row`, `events` | the Migration row (state, progress_pct, whether finished_at is set) and the MigrationEvent rows |
| `rollbacks`, `rolled` | `self._rollbacks`, and how far `_run_rollbacks` has got |
| `unrestored` | images for which `_rollback_disk` logged a failed promote |
| `seen` | `ctx.vm.status`; the steps after preflight use it and not `vm` |
| `wiring` | whether `ctx.source_grpc_client` and `ctx.dest_grpc_client` are set |
| `vm` | the VM in the source's Nova; its owner starts and stops it meanwhile (`OwnerActs`) |
| `src`, `dst` | mirroring role of each image in the two Ceph clusters |
| `volumes` | images registered as volumes at the destination |
| `routes` | prefixes announced by each cluster's speaker |

`vms.py` and `migration_tasks.py` start the engine on the source's agent, so
`self.ceph` and `self.bgp` act on the source. Without stubs a "promote on the
destination" is therefore a promote on the source. The repository never passes stubs,
but `MigrationContext` and the engine take them, so the models allow every
combination (`AllWirings`), and `NoStubs` is what the callers build today.

`MigrationEngine.abort` is left out because nothing calls it; the REST abort writes
the row from outside and is in `MigrationService`. In the engine modules `row` is
written by the one engine (and its monitor) alone.

### Live engine (`LiveMigration`)

The same variables and shared steps, and three more:

| Variable | Code |
|---|---|
| `at` | the cluster whose hypervisor runs the guest; libvirt moves it in `_do_migrate` |
| `monitor` | the task `_monitor_progress`: not started, waiting (asleep, or asking libvirt), writing (inside `_transition`), cancelled while writing, ended |
| `reports` | how often it has asked libvirt |

While the engine waits for `_do_migrate` (`pc = "migrate"`), the monitor may write the
row; it is the only place where two tasks do. `task.cancel()` ends a sleeping monitor
at once, but a transaction it is in may still be committed, so `CancelMonitor` leaves it
`cancelled` until `MonitorReports` has decided, and `MonitorJoined` is the `await` in the
`finally` clause. libvirt is external: `migrateToURI3` moves a running guest, raises, or
raises after the guest moved; none of the flags the code passes (`engine.py:514-520`)
pauses it, so it runs at the destination as soon as the call ends. `AbortTunnel` is the
tunnel's rollback handler: when a handler runs, the job is over and there is nothing left
to abort. What `abort()` would do to a job still under way is not modelled, because
nothing calls it then.

`_step_cutover` registers its handler after the last demote, like the cold disk step;
`_step_bgp` registers none, so a live migration that fails after the handoff leaves the
addresses where they are.

### Election (`RaftElection`)

`pc[n]` is where the election loop of agent `n` is; `_acquire` is two calls
(`GrantLease`, then the compare-and-swap) made in one executor thread. `late` holds the
transactions whose caller timed out, was cancelled by `stop()` or crashed; each may
still be executed or be lost. `Expire` ends any live lease at any time, because
neither the agent's clock nor the network is bound to etcd's. `refresh_lease` on a
lease that is gone answers TTL 0 without raising, and `_refresh_lease` throws the answer
away (`RefreshReturns`). The term counter and the heartbeat time are only reported and
are left out; so are the peer directory and the callbacks' contents (a callback is one
step that ends). etcd itself is taken to be one correct register with leases.

### Service (`MigrationService`)

An engine is reduced to what its row shows: RUNNING, for PREFLIGHT to CLEANUP, and its
end. `Step` is one await of such a run: a transition that commits, fails, or commits and
then fails; `_fail`; the rollback handlers. The runs are those of

| Variable | Code |
|---|---|
| `agent` | the FastAPI background task `_run_migration` of each migration; lost with the agent |
| `queue` | messages in the broker's queue: the migration, the retries behind it, and a number that tells two of them apart |
| `unacked` | messages that were delivered and not acknowledged, which the broker keeps |
| `job` | the task each Celery worker holds. `task_acks_late`: it is acknowledged (`Ack`) when it is over |
| `stray` | coroutines that `SoftTimeLimitExceeded` left in a worker's event loop; the loop turns only inside `run_until_complete`, so they go on while the next task runs |
| `abort` | abort requests between their two transactions |
| `ended`, `faults` | how runs have ended; how many workers were lost, tasks cut and messages redelivered: what the properties make exceptions for |

`_run_async` raises only if `engine.run()` does, which is when the commit of `_fail`
fails; an engine that returns False counts as a success and is not retried. A worker
that dies between publishing a retry and acknowledging leaves two messages. `ExecuteMigration`
looks up no row and may come twice. `SchedulerInserts` is the scheduler's commit: no
action hands that row to anyone, because no code does.

Four things that Celery does around a task are external, and follow from how the app is
configured (`migration_tasks.py:14-28`, `config.py:106-115`):

* `WorkerLost`: `task_reject_on_worker_lost` puts the message of a dead worker back.
* `HardLimit`: a task killed by `task_time_limit` is acknowledged, as one that failed is; its
  process dies, with every coroutine in its loop, and nothing runs it again ("killed").
* `Redeliver`: the broker is Redis, no `visibility_timeout` is set, and the default of one hour is no longer
  than either time limit. A message that is still unacknowledged then goes back to the queue,
  while its task runs on.
* `Forget`: what Redis keeps of a message is found by the message. Once it was delivered
  twice, the run that is over first acknowledges for both, and a worker lost afterwards has
  nothing to put back ("dropped").

Only workers in `Listening` consume the queue the tasks are sent to, Celery's default one.
The worker of `docker-compose.yml:131-132` is started with `-Q migrations` (those of
`docs/StartupGuide.md:284` and `docs/LLD.md:484` have the same queue) and takes none of them; the one of
`Makefile:90` takes all, and `Concludes` is about such workers.

### Agent and scheduler (`Agent`, `Scheduler`)

| Variable | Code |
|---|---|
| `pc` | how far `start()` or `stop()` has come; `electing` is the time before `_scheduler` exists |
| `role`, `callback` | the election's role, and the callback its loop awaits; they change as `RoleCallbacks` says, which `RaftElection` implements |
| `dbRole` | `Cluster.role` of the agent's row, which a restart does not touch |
| `scheduler` | `_is_master`, or "none" before there is a scheduler |
| `at`, `snap`, `k`, `dest`, `todo` | the round: its await, the snapshots, the policy, its destination, the clusters left |
| `metric` | the latest ClusterMetric of every cluster, which the agents replace at any time |
| `queued` | the row the round inserted last, with the loads the decision was made on |
| `since` | history: what has kept the views of the role apart since a callback last returned |

Loads stand for cpu, ram, disk and VM count, and a trigger for a limit on the load; a
policy that picks by something else than load, or the first candidate, may pick any.
`ReadMetric` reads the clusters in any order, where the code takes that of its query,
and each in its own transaction, as the code does. `stop()` cancels the election and
leaves the scheduler to the end of the process.

### Mirror (`CephMirror`)

`run[r]` is one engine in the disk step: its await, the polls of `wait_for_sync`, and the VM's
status as preflight saw it. Ceph and the guest are
external: `behind` counts the entries the destination lacks, `view` is the destination's
own idea of the image, which decides whether it accepts a promote. A status shows a lag
only where the image is replayed. The engine asks the source's cluster, where the image is
primary: `Status` is then 0 however far the mirror is behind, and `wait_for_sync` returns at
its first poll. A lag is shown to an engine only when another one has promoted the
destination; it is then the lag of the source's own mirror, which the model does not follow
and lets be anything. Several engines may be at work, and each may be followed by another:
that is what the API, retries and redeliveries can do (`MigrationService`).

## Runs

| Run | Instance | States | Shows |
|---|---|---|---|
| `cold` | 2 images, 2 prefixes, every wiring | 45 692 | all the properties of `ColdMigration` below |
| `live` | 2 images, 1 prefix, every wiring, progress 0, 50 or 99, 2 reports | 46 932 | all the properties of `LiveMigration` below |
| `election` | 2 agents, 3 leases | 175 392 | all the properties of `RaftElection` below |
| `service` | 1 migration, 2 workers that listen, 1 retry, 1 call, 1 fault | 142 224 | all the properties of `MigrationService` below |
| `agent` | 3 clusters, loads 0 to 2, 2 policies | 426 664 | all the properties of `Agent` below |
| `mirror` | 2 engines, up to 3 entries behind, threshold 1, 2 polls | 30 867 | all the properties of `CephMirror` below |
| `cold_partial_demote` | 1 image | violation | a demote that raises although it took effect leaves its image secondary in both clusters (`engine.py:252-255` against `:267`) |
| `cold_done` | the callers' wiring | violation | DONE, VM deleted, nothing promoted and nothing announced at the destination (`engine.py:262` against `:251`, `bgp.py:191` against `:185`) |
| `live_resume` | 1 image, 1 report | violation | the guest runs at the destination before its disks are promoted there (`engine.py:571` against `:452-454`) |
| `two_masters` | 2 agents, 2 leases | violation | two agents stay MASTER for good after an expiry (`raft.py:148` against `:4`) |
| `service_ends` | 1 migration, no worker | violation | DONE becomes FAILED when the answer of its commit is lost (`engine.py:196` against `docs/Architecture.md:317`) |
| `mirror_unsynced` | 1 engine, 2 entries, threshold 1 | violation | an image is demoted while the mirror lacks more than the threshold (`ceph.py:173` against `:159`) |

Why the bounds are enough: two images give a loop that fails on the first, between
the two and on the last; two prefixes likewise. The engine handles no third image
differently, and the safety properties are proved for any number. Two agents
give a holder and a rival; three leases give each its own and one that is leaked or left
over from an earlier life of an agent. Lease identifiers are reused when nothing
refers to them any more, which keeps the model finite without bounding the number of
elections. One prefix is enough for `live`, which shares the handoff with `cold` and
has no rollback for it. `MaxReports` = 2 bounds how often the monitor polls while libvirt
works: with two reports the progress shown can go up and back, and either may be cut off
by the end of the job; the proofs need no particular bound.

`service` has one migration, because rows and messages of two do not touch; two workers
let a task run beside its own copy. `MaxSends` = 1, as the second delivery of a message already
runs a migration twice; `MaxRetries` = 1 gives a first, a last and a used-up try (the cold task has
2, the live one 1). `MaxFaults` = 1 lets one worker be lost, one task be cut or one message be
redelivered, at any point; `HardLimit`, requests, aborts and agent crashes do not count as faults.
A message that is redelivered and whose worker is then lost ("dropped") needs two, which is
a graph too large for a liveness check: TLC does not meet that case, and the proofs, which have no
bound on faults, retries or calls, do. `agent`
has the cluster of the agent and two more, so that two clusters can be sources, or
candidates, at once; loads lie below, between and above the limits of the two policies.
In `mirror` the threshold has lags on both sides, the maximal lag of preflight is 0, which
means the default, or above it, `MaxBehind` = 3 bounds what the guest writes ahead of the mirror, and
two polls give one that is not the last.

Properties of the cold engine:

* `SingleWriter`: no image is primary in both clusters unless the migration failed.
* `DeleteIsLast`: when the source VM is gone, the disk handler is registered, all volumes
  are registered at the destination, and with a stub no image is writable at the source.
* `DisksRolledBack`: once the disk handler was registered, a failed run ends with each
  image primary at the source or logged, whatever the other handlers did.
* `NothingAfterFailed`: after FAILED the engine only goes backwards.
* `ProgressMonotone`: the progress shown never goes back.
* `ImplementsLifecycle`: the row implements `MigrationLifecycle`, one phase after the other, FAILED
  for good and `finished_at` at an end. This is the code's lifecycle and not the one drawn in
  `docs/Architecture.md`, `docs/LLD.md` and `docs/UMLs.md`, where nothing follows DONE and
  PENDING does not fail: DONE -> FAILED is what `EndsAreFinal` of `MigrationService` is violated
  by, and PENDING -> FAILED happens when the first transition raises.
* `IsServiceRun`: seen by its row and its end, the run is `AgentRuns` of `MigrationService`,
  from the row the REST handler inserted on: FAILED comes before the handlers, and an error of `_fail`
  is the only one that leaves `run()`.
* `Settles`: every run ends, with finished_at set unless the commit of `_fail` raised.

Properties of the live engine (`SingleWriter`, `DisksRolledBack`, `ImplementsLifecycle`,
`IsServiceRun` as above):

* `DisksUnderGuest`: while the guest runs at the source, every image is writable there.
* `DeleteIsLast`: when the source VM is gone, the guest is at the destination, both
  handlers are registered, and with a stub no image is writable at the source.
* `NothingAfterFailed`: after FAILED neither task writes the row or goes forward. It
  depends on the engine's waiting for the cancelled monitor.
* `Settles`: in addition, the monitor has ended.

Progress is not monotone here: a monitor that cannot reach libvirt reports 0, which is
25 on the row's scale, after any other value.

Properties of the election:

* `AtMostOneLeasedMaster`: one master with a live lease at most.
* `OnlyWorkersCampaign`: only a worker without a lease runs `_acquire`.
* `ImplementsLock`: the leased master implements `LeaderLock`.
* `ImplementsCallbacks`: to its agent each election is `RoleCallbacks`: a win only as a worker, a
  loss only as a master, each followed by its callback, none while another runs.
* `WorkersTakeOver`: while an agent keeps running as a worker, the key never stays absent.

Properties of the service:

* `NotLost`: an accepted task is in the broker or at a worker until a run of it has returned, its
  retries are used up or the hard time limit killed it.
* `NoSpontaneousRuns`: runs of one migration in the workers are never more than the calls, lost
  workers, cut tasks and redelivered messages that explain them.
* `EndShown`: when every run of a migration has returned and none can come back, the row is
  in a terminal state, whatever was aborted or redelivered on the way.
* `Concludes`: a queued task or a background task leads to `finished_at`, unless it was cut, killed or
  dropped, its retries are used up, its agent died or the commit of `_fail` raised.

Properties of the agent:

* `ViewsAgree`: between callbacks, the election's role, the Cluster row and the scheduler's
  flag agree, unless the callback came too early, failed, or the agent was restarted.
* `Downhill`: a row moves a VM from a cluster with more load to one with less, as the round
  saw them.
* `LoserFallsSilent`, `MasterSchedules`: an agent that stays a worker stops scheduling, a
  round under way included; one that stays master keeps evaluating.
* `EveryPolicyApplied`: a policy that raises does not keep the later ones from being applied.

`LoserFallsSilent`, `MasterSchedules` and `ViewsAgree` exempt what the code does not repair:
nothing tells the scheduler again before the next callback.

Properties of the mirror:

* `NothingLost`: a destination that became primary lacks no write, unless the source was
  promoted beside it or behind the mirror's back. Both exceptions happen: by the rollback
  after a promote whose answer was lost, by another engine without a stub, and by a retry
  after a rollback that a stalled mirror has not replayed.
* `RunsEnd`: every run ends although the guest keeps writing and the mirrors keep lagging.

That the mirror is near when the image is demoted is no property of the code: `DemotedInSync` is
violated with the default threshold, and with the zero that `engine.py:461` ("wait for zero lag")
asks for and `ceph.py:162` replaces by the default all the more.

### Where documents and code differ

The violation runs show the disagreements that take several steps. These were met on the way,
and can be read off the modules or the code:

* An end is not final (`docs/Architecture.md:317-319`): beside DONE -> FAILED, which
  `service_ends` shows, the next transition of a running engine overwrites ABORTED
  (`engine.py:97`), for `abort_migration` only writes the row (`migrations.py:93-97`).
* The drawn states have no PENDING -> FAILED (`docs/Architecture.md:305-310`); a first transition
  that raises takes it (`engine.py:180`, `:196`).
* `BGPManager.rollback` "re-announces on source" (`bgp.py:213`). The engine runs at the source: the
  rollback withdraws each prefix from the source's own speaker, and asks the stub it is given, the
  destination's or none, to announce it. With the callers' wiring the address is then
  announced nowhere, and a logged line is all that says so (`RollbackWithdraw`,
  `RollbackAnnounce` in `MigrationEngine`).
* `docker-compose.yml:131-132` starts its worker with `-Q migrations`; no code routes a task to
  that queue.
* "Migration tasks survive agent restarts" (`README.md:60`): those of the REST handlers are
  background tasks of the agent's process (`vms.py:70`).
* "Actual execution is picked up by Celery worker" (`scheduler.py:220`): nothing sends a task for a
  row that the scheduler inserts.

### Fairness

`ColdMigration` assumes weak fairness of the engine's steps: each call it makes has a
timeout or returns, and the event loop resumes the coroutine. Nothing is assumed of the
VM's owner.

`LiveMigration` assumes the same, that a libvirt job comes to an end, and that a
transaction of the monitor does (`WF` of `MonitorReports`); polling has no fairness.

`RaftElection` assumes that the event loop resumes a running agent (`WF` of its loop
and of `stop()`), that a lease nobody keeps alive expires, that a late transaction
arrives or is lost, and that etcd does not refuse one agent's calls for ever
(`SF` of `GrantLease` and `CasSucceeds`: the loop retries every heartbeat, and each
call is enabled again and again while the key is absent). Crashes, stops, expiries of a
lease in use and refresh errors have no fairness.

`MigrationService` assumes that a worker that is free and listens to the tasks' queue takes a
message (`make worker`, `Makefile:90`, starts such a worker), and that agents and workers go on through the transitions of a run, of which there are finitely many
(`WF` of the steps that leave an await). Requests, crashes, time limits, redeliveries and
suspended coroutines have none.

`Agent` assumes that the event loop resumes the scheduler and a callback (`WF` of `Schedule` and
of the callback's two ends): every transaction and sleep ends. Starts, stops, crashes,
wins, losses and metrics have none.

`CephMirror` assumes that each run goes on: `_run` and `_run_plain` give every `rbd`
command 60 seconds. The mirror, the guest and new attempts have none.

## Proofs

`RaftElectionProofs`, for any sets of agents and leases, from `NoneAssumption` (None
is none of them): `TypeOK`, `AtMostOneLeasedMaster`, `OnlyWorkersCampaign` and the
refinements `ImplementsLock` and `ImplementsCallbacks`. `AtMostOneLeasedMaster` is not inductive. The invariant adds that
the key is attached to a live lease; that a role of MASTER and a lease held go
together; that a winner who has not yet heard of it has its lease; that leases held,
asked for and sent late are distinct; and that a live lease of a master or winner is
the key's, so that two of them are one. `ImplementsCallbacks` also needs that only a master
is refreshing (`AwaitRole`). `Agent` takes its `Win` and `Lose` from `RoleCallbacks`, so what
is proved of `Agent` holds of an agent whose election is that of `RaftElection`.

`ColdMigrationProofs`, for any number of images and prefixes and any set of wirings,
from `CountsAssumption` and `WiringsAssumption`: every safety property of the cold run,
both action properties and the refinements `ImplementsLifecycle` and `IsServiceRun`. The
inductive invariant says what the row shows at each await (`RowAt`, `RowFailed`), what
the loops have done to the images (`DiskAt`), and which handlers are registered, which
one runs and what those that ran have restored (`UndoAt`). `SingleWriter` needs
`DiskAt`: on the way forward with a stub every image is secondary at the source before
the first promote, and without one nothing at the destination is ever promoted.
`DeleteIsLast` needs `DiskAt` and `UndoAt`. The step is proved phase by phase, one
case per action, one step per conjunct.

`LiveMigrationProofs`, for any number of images, prefixes and reports and any set of
wirings and percentages, from the same assumptions and `PercentsAssumption` and
`MaxReportsAssumption`: every safety property of the live run, `NothingAfterFailed`,
`ImplementsLifecycle` and `IsServiceRun`. The invariant has two parts the cold one has not. `MonitorAt`: the
monitor is alive at `migrate` only, and may still be writing only at the two awaits after
it; so what it writes always finds MEMORY in the row. `DiskAt` says that from `migrated`
on the guest is at the destination, from which `DisksUnderGuest` follows. One lemma
(`TransitionInv`) covers all eight transitions of the way forward.

`IsServiceRun` is what makes the reduction in `MigrationService` more than a claim: that module
has begin, running, failing and undoing for the engine's awaits and RUNNING for its five
or six states, and the theorems say that either engine, whatever fails in it, takes no
other steps. `ServiceStep` in `MigrationEngineProofs` lists the moves; each engine is
shown to make only those or none. An abort and other runs of the same migration are outside
one engine, and write the same row in `MigrationService`.

`CephMirrorProofs`, for any engines, thresholds, limits, polls and journals, from
`MirrorAssumption`: `TypeOK` and `NothingLost`. The invariant adds what the
destination's idea of the image is worth (`ViewTrue`: an orphan lacks nothing, and its source
accepts no writes; a destination that is primary and not forked is one), whatever the engines do beside each other.

`AgentProofs`, for any clusters, loads and list of policies, from `SchedulerAssumption` and
`AgentAssumption` (the agent is of one of the clusters, None is no role): `TypeOK`, `Downhill` and `ViewsAgree`.
`Downhill` needs to know what a round still knows after each `await` (`RoundAt`): from the
first policy on every snapshot is there, the clusters left to relieve violate the policy the
round is at, and the destination, picked once for all of them, does not, so that a source is
never the destination. `ViewsAgree` says nothing of an agent that is starting, which is
where it is decided: `ViewsAt` extends it to every stage of `start()`, `StageAt` ties the
scheduler and the callback to the stage, and `DownAt` says that a process knows of no
mastership before its election starts.

`MigrationServiceProofs`, for any finite sets of migrations and workers and any number of
retries, calls and faults, from `ServiceBounds` and `NoneAssumption`: every invariant of the
runs. `NotLost` counts a job that was retried as holding the task, but such a job is only
waiting for its acknowledgement. So `Alive` asks for more, a message that the broker has, queued or kept,
and that no worker has handed on. `Entries` adds that a message that is kept is held by a worker. An
acknowledgement may take the message of another run, but only when its own run has returned, used
up its retries, been killed, or published the retry that is alive instead. `EndShown` needs that as long
as the row is not at an end and no run has ended
otherwise than by returning, some run has yet to write (`Owed`); a stray
coroutine may write too, but only after a cut (`StraysCut`). `NoSpontaneousRuns` is a sum,
and induction over data is out of reach: `Counted` states it with the cardinalities of three
sets (messages queued, jobs that may run or be retried, strays), which each action
changes by at most one element. A retry and a lost worker then show as
an element that moves from one set to another, and a redelivery as one that is paid for by a fault.
That the number of a new message is new (`FreshNumber`) is the pigeonhole principle on the finite
set of messages known.

Model-checked only: every liveness property (TLAPS does not reason about fairness and
ENABLED here) and the violations.

## Not modelled

Wording, logging, Prometheus metrics, the OSC command line, configuration, schema
migrations and deployment: no state or none of interest. The numeric flags passed to
libvirt (`engine.py:514-520`) are constants of an external library. FRR next hops and kernel
routes do not influence control. `SyncState`, the REST reads and the peer service
only read.

The metrics a policy compares are one load; `window` of a policy is not evaluated by the code
either. Which VM the scheduler picks is left out: it is the first ACTIVE one of the local
cluster, whatever the source is (`scheduler.py:186` against the docstring before it).
`Scheduler.stop`, `MigrationEngine.abort`, `enable_mirror`, the snapshot calls of the Ceph client and
the `DemoteRBDImage` and `GetRBDMirrorLag` calls have no caller.

## Plan

Done: both engines, the election, the service, agent with scheduler, and the mirror. To come:

1. `BGPHandoff`: announcements with their next hops and kernel routes in both clusters, lost
   calls, the rollback that announces with an empty next hop. Instances: two prefixes, each
   call lost or answered `success=False`.
