# rivers: TLA+ models, model checking and proofs

This directory specifies the concurrency control of rivers, an asset
orchestrator: Rust core (`src/rust`), Python extension (`src/python`) and
SurrealDB storage. It holds one TLA+ module per protocol, an MC module with its
TLC configurations for each, and modules of TLAPS proofs. Paths below are
relative to `src/`.

| Module | What it is |
|---|---|
| `PoolClaims.tla` | Concurrency pools: claim, renewal, expiry and release of slots |
| `PoolService.tla` | What the pools promise, abstractly; PoolClaims implements it |
| `PoolClaimsProofs.tla`, `PoolServiceProofs.tla` | TLAPS proofs about PoolClaims, and of the refinement |
| `MCPoolClaims.tla`, `MCPoolClaims_*.cfg` | Its instances for TLC |
| `RunQueue.tla` | The run queue of a code location: dequeue, launch, execution, cancel, sweep |
| `RunService.tla` | What the queue promises, abstractly; RunQueue implements it |
| `RunQueueProofs.tla` | TLAPS proofs about RunQueue, the refinement included |
| `MCRunQueue.tla`, `MCRunQueue_*.cfg` | Its instances for TLC |
| `Backfill.tla` | One backfill: pickup, submission, children, settling, cancel, monitor |
| `BackfillProofs.tla`, `CancelProofs.tla` | TLAPS proofs about it; the second about cancellation |
| `MCBackfill.tla`, `MCBackfill*.cfg` | Its instances for TLC |
| `OperatorRun.tla` | One run on Kubernetes: daemon, operator, executor pods, storage |
| `OperatorRunProofs.tla`, `ExecutorProofs.tla` | TLAPS proofs about it; the second about executors and replicas |
| `MCOperatorRun.tla`, `MCOperatorRun*.cfg` | Its instances for TLC |
| `PROJECT.json` | Components, runs, mutants, definition-to-source map, findings, hazards, theorems |

To check: `tlc -config MCPoolClaims_mixed.cfg MCPoolClaims` (and so on), and
`tlapm PoolClaimsProofs.tla` (and the other `*Proofs.tla`).

## 1. Inventory

| Component | State | Operations | Hard because |
|---|---|---|---|
| Pools (`rivers-core/src/storage/surrealdb_backend/pools.rs`) | tables `concurrency_pools`, `concurrency_slots`, `pending_steps` | claim, renew, free, sweep, set limit | snapshot transactions, leases, stale `now` |
| Step lifecycle (`python/src/executor/dispatch`) | `PoolGuard`, renewal task, retry count | acquire, work, retry, back off, release | crash, cancel, late renewal, failed release |
| Coordinator (`rivers-core/src/concurrency`) | one tick's in-progress list, queue, picks | tick | decides on a read many awaits old |
| Run rows (`surrealdb_backend/{backend,run_queue,per_code_location}.rs`) | `runs.status`, `block_reason`, cancel flags | enqueue, status writes, conditional flips, delete | most writes are by `run_id` alone |
| Daemon loop (`python/src/daemon/subdaemons.rs`) | `active_runs` | launch, health check, stalled sweep, backfill pickup and monitor | crash between two writes |
| Local backend (`python/src/backends/local.rs`) | table of run threads | launch, terminate, health | terminate does not stop the thread |
| Run lifecycle (`python/src/executor/run_lifecycle.rs`, `repository/launch.rs`) | the run's thread | start, work, finalize | read of the flag and write of the status are two calls |
| User requests (`python/src/repository/{handle,results}.rs`) | — | `cancel_run`, `RunHandle.cancel`, `delete_run` | check-then-act |
| Backfills (`repository/backfill.rs`, `run_queue.rs`, `backend.rs`) | `backfills`, `backfill_runs`, `backfill_outcomes`, the in-process cancel flags | pick up, submit or run, link, settle, resume, cancel | five actors and no transaction that spans two of their steps |
| Executors (`executor/{in_process,parallel,async_exec,kubernetes}`) | ready set, step outcomes | schedule, skip, resume | step pods, partial failure |
| Migration (`surrealdb_backend/migration.rs`) | schema version, lease | migrate | several daemons at start-up |
| Automation conditions (`rivers-core/src/condition`, `daemon/automation_condition`) | condition state, caches | evaluate | incremental against full evaluation |
| Schedules, sensors (`python/src/daemon`) | cursors, ticks | tick, dispatch, batch write | crash between dispatch and cursor |
| Graph, partitions, staleness, time grid, plan, retry policy (`rivers-core`) | — (pure) | compute | boundary cases |
| Run controller, k8s backend, `rivers execute` (`rivers-operator/src/run`, `rivers-k8s`, `python/rivers/cli/run.py`) | Run resource, pods, status, outcome and flag in storage | launch, reconcile, restart, cancel, time out, delete | stale watch cache, merge patches, deletions that take effect later |
| CodeLocation controller, leader election, webhook (`rivers-operator`) | CodeLocation resources | reconcile, sync, admit | mostly manifests and git I/O |
| Runtime, UI, gRPC, CRDs, CLI, IO handlers, integrations | views and I/O | — | — |

How they interact. A submission writes a `Queued` row. The coordinator's tick
(inside the daemon loop) reads the queue, writes `NotStarted`, and the loop
hands the run to the run backend, which runs it on a thread (local) or as a
Kubernetes resource. The thread flips the row to `Started`, executes the plan
and writes the final status. Each step claims the slots of its pools through
storage and gives them back when it ends; the tick also sweeps expired leases.
Cancellation is a flag row (`cancel:<run_id>`), polled by the run between steps
and by a step that waits for slots, together with a conditional flip of a row
that is not under way yet. Apart from the claim transaction there is no lock or
transaction around any of this: every storage call is an await point between
which all other actors run.

What makes each part correct:

- pools: live slots never grow past the limit; conflicting asset scopes never
  work together; a holder keeps its slots; every wait ends;
- queue: limits on runs and on tags hold; a run taken off the queue does not
  execute; nothing executes twice; nothing stays queued or dequeued for ever;
- rows: only finished runs are deleted;
- backfills: a success means every key was materialized; a cancel reaches every
  child; no group runs twice; every backfill ends;
- runs on Kubernetes: one executor at a time; a success means every step was
  done; a stopped run starts nothing; a cancel ends.

## 2. PoolClaims

Models `pools.rs`, the pool operations of `backend.rs` and
`per_code_location.rs`, and the step around them (`pool_claim.rs`,
`step_lifecycle.rs`, `failure.rs`, the sweep at the end of `execute_plan`).

State. `limit`, `configured` are the rows of `concurrency_pools`; `row`, `ttl`
those of `concurrency_slots` (at most one per step and pool, its record id);
`pending` those of `pending_steps`; `cancelled` the cancel flags. Per step, `pc`
is its place in the lifecycle, `left` and `retries` the claim's deadline and
contention budget, and `age`, `todo`, `limited`, `blocked`, `admit`, `stale` the
locals of the attempt under way. An `AssetScope` is a record (exclusive, whole
asset, partitions).

Actions, in the order a step takes them: `acquire`; `precheck` (one read per
pool); `claim_unlimited`, `claim_pending` followed by `poll_cancelled` and
`poll`, or `txn_begin` and `txn_commit` / `txn_contended`; `start_attempt`;
`work_done` or `work_retry`; `release`; `backoff_done`; beside them
`renew_slot_lease`, `crash`, `resume`, and the actions of others:
`free_concurrency_slots_for_run`, `request_cancellation`, `set_pool_limit`,
`free_expired_leases`, `Tick`.

Two modelling decisions matter.

*Time is relative.* The code compares `lease_expires_at` with a `now` that the
attempt read when it began. `ttl` is the lease minus the present, `age` the
present minus that `now`, and `ttl + age > 0` is the code's comparison; time is
unbounded, the state space is not. An attempt takes at most `MaxAge` ticks.

*Transactions are snapshots.* The claim's `BEGIN..COMMIT` decides on the
snapshot (`txn_begin`) and commits only if nobody has written a record it writes
(`txn_commit`, `stale`). Write sets are the slot rows of the step and the
`claim_version` bump of each pool. This is what `build_claim_transaction` relies
on ("the shared `claim_version` bump keeps concurrent claims serialized"); the
conflict detection itself is SurrealDB's and external.

`TimelyRenewal` states the assumption every lease rests on: a live holder
renews before its lease runs out (the code renews every third of the lease,
`spawn_lease_renewal`). It constrains `Tick` only. With it the safety properties
hold; without it they do not (section 7).

The synchronous and asynchronous lifecycles (`run_step_sync_lifecycle`,
`run_step_async_lifecycle`) have the same control flow and are one model.

| Run | Instance | Shows |
|---|---|---|
| `pool_mixed` | materialize and exclusive action; asset pool with limit 1 or -1, counted pool with limit 2; a cancel, one retry or resume; `FairSpec` | `TypeOK`, `AssetExclusion`, `NoHolderPending`, `ClaimEnds`, `Implements` |
| `pool_counted` | steps of 1 and 2 slots on a pool with limit 2 or 3, one more on a pool lifted to -1 and put back | `PoolCapacity`, `HolderKeepsSlots`, `IInv`, `Implements` |

Bounds. Lease 2, age 1: a lease can lapse, be renewed and be compared with a
stale `now` on both sides of the boundary. Claim timeout 1 and one contended
retry: each can run out. Requests of 1 and 2 slots against limits 2 and 3 give
exact fit and overshoot by one. Initial states
range over every set of configured pools, so claims on a missing pool happen.

Fairness (`pool_mixed`). Weak fairness of each step's own next action and of its
renewal task (tokio keeps polling them), and of `Tick`. Nothing is assumed of
the sweep, the run-level cleanup or users: a claim ends even if nobody ever
sweeps, because the lease test is in the claim. `ClaimEnds` needs work to end,
which `StepNext` includes.

The abstract service. `PoolService` knows neither rows, leases, transactions nor
clocks: it has the limits, the set of `holders` and the taken `slots`. `Admit`
gives a step all the slots it wants at one moment, and only with room for each of
them at that moment; `Leave` ends a hold (done or dead) and leaves the slots
taken; `Lapse` takes slots back, but never a holder's; `SetLimit` changes a limit
and nothing else. PoolClaims maps `Holding` and the live rows to them, on the pools
whose limit is never lifted (`Guarded`: a pool at -1 keeps no rows, and a step
admitted while it was lifted is in nobody's count). `Implements == Service!Spec` is
checked in both runs and proved in general (section 8). On those pools it says
more than `PoolCapacity`, `AssetExclusion` and `HolderKeepsSlots` together: the
claim is atomic over several pools, although the pre-check read them one by one.

## 3. RunQueue and RunService

Models the coordinator's tick, the daemon loop around it, the local backend, the
thread of a run, and users who cancel and delete.

State. `status` (with `none` before and `gone` after the row), `cancelled`,
`reason`, `overdue` are storage; `cpc`, `seen`, `scan`, `picked`, `launching`
the tick; `todo`, `missing`, `active` the health check and sweep; `entry` the
backend's table; `thread`, `verdict` the run's thread; `cancelling`, `handling`,
`deleting` user calls between two of their storage calls; `works` and `stopped`
are history.

Actions. `enqueue_run`; `wake` or `health_begin`; `tick_query`, `mark_full`,
`select`, `select_done`, `write_not_started`, `write_error`, `tick_done`,
`launch`, `launch_done`; `check_run_health`, `mark_missing`, `sweep_begin`,
`sweep_stalled`, `sweep_done`, `start_timeout_passes`; `launch_prepared_job`,
`try_start_run`, `begin_work`, `end_work`, `finalize_read`, `finalize_write`,
`mark_run_launch_failed`; `request_cancellation`, `cancel_queued_run`,
`terminate_run`, `handle_cancel_read`, `handle_cancel_write`,
`delete_run_check`, `delete_run_rows`; `crash`, `restart`.

Each storage call is one action. A few calls send several statements in one
query (`coordinator_tick_query`, `try_start_run`, `cancel_queued_run`, the
deletes of `delete_run`). They are one step here: in each the statements after
the first either only read the row the first wrote or touch other tables, and an
interleaved write by another actor has the effect of an order of whole calls.

A tag limit counts a *group* of tags (`Group`): all values of a key, one value,
or each value by itself. `TagCount` is the counter's number for it.

Simplifications. One coordinator per code location, as the daemon starts it. A
run's steps are abstracted to `begin_work`/`end_work`: the cancellation probe
before the first step is kept. The probe of a level goes on when its read fails
(`executor/mod.rs:362`); that is not modelled, because each step probes again
before it works (`step_lifecycle.rs:119`) and it would take both reads to fail.
`launch_prepared_job` treats a failed look-up as
"found or created", which is what the unique index and `swallow_phantom_commit`
make of it. Direct `materialize()` calls never enter the queue. Recording of the
outcome on a backfill belongs to Backfill, and the
tick's lease sweep is `free_expired_leases` of PoolClaims.

| Run | Instance | Shows |
|---|---|---|
| `queue_core` | 2 runs, limit 1, `cancel_run`, a crash, `FairSpec` | `TypeOK`, `MaxConcurrent`, `StoppedNeverWorks`, `WorksAtMostOnce`, `QueueInv`, `EveryRunEnds`, `Implements` |
| `queue_tags` | 2 runs, limit 2, three kinds of tag limit, `RunHandle.cancel`, a delete, a crash, a failing call | `TagLimitsHold`, `TagSeats` |
| `queue_delete` | 2 runs, limit 1, `cancel_run`, `delete_run` | `DeletesOnlyTerminal` is violated |

Bounds. Two runs and one seat are the smallest instance in which a stale read
can oversubscribe, and the crash and the cancel can fall on any call: a run is
dequeued, canceled, launched, killed and swept in every order. In `queue_tags`
both runs carry the same tenant and the second another one too: the limit per
value refuses the pair, the one on the key does because it counts tags and not
runs, and the one on a value of `env` counts a single carrier. There the status of
a run under way is overwritten by `RunHandle.cancel`, and a call of the tick fails.
The proofs lift `MaxConcurrent`, `TagLimitsHold`, `StoppedNeverWorks`,
`WorksAtMostOnce` and `Implements` to any number of runs, limits, crashes, failing
calls and cancels of both kinds.

Fairness (`queue_core`). Weak fairness of the daemon loop, of each run's thread
(its steps end) and of the start timeout, and strong fairness of `health_begin`,
because the loop compares the health interval each time it wakes and the
interval keeps elapsing. `EveryRunEnds` stops at a run orphaned by a crash: with
the local backend a crash kills the threads of `Started` runs, nothing looks at
those rows again, and they keep their seats.

The abstract service. `RunService` has three variables: the `seat` of a run
(queue, inside, out), how often it was executed, and which runs were withdrawn.
Its actions are `Admit` (only while a seat is free, only a run that has not
executed), `Execute` (once, only a run that had a seat and was not withdrawn),
`Leave` and `Withdraw`. RunQueue maps `SeatOf(status)`, `works` and `stopped` to
them; `Implements == Service!Spec` is checked in `queue_core` and proved in
general (section 8). The mapping hides the tick, the backend, the threads, the
sweep and the crash: all of them stutter or are one service step. What the
service does not promise is as telling: a run that is out may be admitted again
(the tick writes `NotStarted` over a status it has not read again), so "out" is
not final until the run has executed.

## 4. Backfill

Models one backfill from `create_backfill` to its final status, in both modes
(`queued`: the children go through the run queue; otherwise the execution thread
runs them one after the other), with its four actors: execution thread
(`exec`), monitor, cancel request, children.

State. `bstatus`, `links`, `outcome` are the tables `backfills`,
`backfill_runs`, `backfill_outcomes`; `row`, `step_failed`, `flagged` what
storage knows of a child, `phase` where the child itself is, `missing` whether
the local backend has been made to forget it; `exec`, `rest`,
`current`, `stop`, `signal`, `canceled_keys`, `batch` the locals of the execution
thread; `settling` the locals of `try_complete_backfill` for each of its three
callers; `monitor`, `sighted` the monitor; `request`, `cascade`, `target` the
cancel. `result` (the status a child's own thread wrote) is what
`record_backfill_run_outcome` is called with, and together with `missed` (the
children the last cancel request failed to flag) the history the properties
speak of: the row may be rewritten later, what was materialized stays so. A child
is a group and the attempt that made it: every execution of a backfill mints new
run ids.

Actions. Pickup and submission: `pickup`, `exec_read`, `exec_register`,
`exec_flip`, `enqueue_backfill_runs`, `enqueue_check`, `enqueue_sweep`,
`exec_fail`. In process: `group_skip`, `link_backfill_run`, `link_commit`,
`link_check`, `run_child`, `run_child_error`, `child_done`, `exec_settle`,
`exec_final`. Settling, by each caller: `settle_read` (part of the caller's
step), `settle_runs`, `settle_write` (with what the caller does next). Children:
`child_picked`, `child_dequeued`, `child_started`, `child_ends`,
`child_recorded`, `child_error`, `child_swept`, `mark_missing`. Monitor:
`monitor_tick`, `monitor_idle_tick`, `resume_stalled_backfill`,
`monitor_settle`. Cancel: `cancel_backfill`, `cancel_settle`,
`cancel_write`, `cancel_read`, `cancel_links`, `cascade_flag`, `cascade_flip`,
`cascade_done`. `crash` takes the daemon process with all loops, threads and the
request it serves.

Failing calls, each a fault out of `MaxFaults`:

- of the execution thread: the flip, the submission and its repair, a link, the
  record of a failed group, settling, the final status;
- of a child: an error before its row exists (`run_child`); one after the row is
  `Started`, from its resources to the write of `finalize_status`. In process
  (`run_child_error`) the loop records the group as failed and goes on, and the
  row stays `Started` without a thread; a queued child (`child_error`) is failed by
  `mark_run_launch_failed`, or left as it is when that call fails too;
- of the cancel request: one before `Canceled` is written ends it without effect;
  a failing read after it (`cancel_read`, `cancel_links`; `handle.rs:795-803`)
  ends it without a cascade; in the cascade a failing `cancel_run` is logged and
  the next child is canceled (`cascade_flag`, `cascade_flip`;
  `handle.rs:818-826`), and the request returns Ok;
- of the health check and the outcome of a child, which are logged.

`cascade_flip` includes `terminate_run`: the local backend forgets a queued child
whose thread goes on, and the next health check finds it `Missing` and writes
`Canceled` over its row without reading it, a `Success` included
(`mark_missing`, `subdaemons.rs:202-219`).

Composition. The children are RunQueue's runs reduced to what a backfill can
see: the row, the flag and the outcome. `child_picked` and `child_dequeued` keep
the tick's read and its unconditional write apart, which is what the sweep races
with; seats and tags are left out, so a child may start at any time.

Abstractions. `group_into_runs` is the constant `Groups`/`Members` (disjoint
groups). Groups are taken in any order, the code takes them in one. The link
transaction is a snapshot: read (`link_backfill_run`), commit (`link_commit`)
and the read after it (`link_check`) are separate. `finalize_status` is one step
(RunQueue has its read and its write apart), and the probes between steps are
RunQueue's too. A call that only logs its failure and comes back on the next tick
(pickup query, monitor) is the tick that does nothing.

| Run | Instance | Shows |
|---|---|---|
| `backfill` | 2 groups of one key, both modes and policies, a cancel, a crash or failing call | `TypeOK`, `SuccessIsReal`, `CancelReachesChild`, `GroupRunsOnce`, and the invariants `SettleInv`, `OnceInv`, `ReachInv` of the proofs |
| `backfill_live` | 1 group of two keys, a slow submission, two crashes or failing calls, `FairSpec` | `BackfillEnds` |
| `backfill_sweep` | 1 group, a cancel | `NoChildOutlivesCancel` is violated |

Bounds. Two groups are the least with a group done and a group to do; one of
each actor's steps can fall anywhere between another's, and the two groups with
their keys are interchangeable (`Swap`). Two attempts are enough
for a resumed backfill to meet what the first left; `SuccessIsReal`,
`GroupRunsOnce` and `CancelReachesChild` are proved for any number of groups,
attempts, cancels and faults. Two keys in one group are needed for a success with a
failed key, and two faults for an error whose repair fails too.

`CancelReachesChild` says which child a cancel may leave running without a flag:
one that the request failed to reach (`missed`), and no other. A link committed
beside the cancel is not such a case. `missed` is emptied when a later request
reads the links, so a second request mends it.

Fairness (`backfill_live`). Weak fairness of pickup, execution thread, monitor
and request (threads and timers of one process that keeps running) and of every
child. Nothing is assumed of the user.

`BackfillEnds` stops at `Stranded`, the states in which a backfill stays
`InProgress` for good: a child whose row is `Started` and whose thread is gone,
by a crash or by an error of its own; in process, links whose runs were never
created, or keys nobody covers after the loop died. That the run passes shows
that, without a cancel, these are all there are in the model.

## 5. OperatorRun

Models one run executed by Kubernetes: the daemon's `K8sRunBackend`, the run
controller of the operator, the executor pods and storage.

State. `row`, `outcome`, `flag`, `good`, `done` are storage; `cr` the Run
resource (status, cancel annotation, finalizer, deletion timestamp); `pods`,
`killed` the pods of the run and those with a deletion timestamp; `stage`,
`result` the executor in each; `cache`, `pc`, `seen`, `draft` a replica of the
operator: what its watch delivered, where its reconcile is, the Run it started
from and the status it will patch; `daemon`, `user`, `asked` the others;
`timeup`, `drained` the two clocks.

Actions. Daemon: `launch`, `launch_retry`, `fail_unlaunched_run`,
`health_check`. Users: `annotate`, `delete_run`, `cancel_run` with
`cancel_queued_run` and `terminate_run`. Executor: `try_start_run`,
`execute_level`, `execute_step`, `finalize_status`, `finalize_write`, `report`,
`set_run_outcome`, `pod_succeeds`, `verb_mismatch`. Operator: one action per call
of `reconcile`, from `add_finalizer` to `remove_finalizer`, with `api_error` for
the calls whose failure ends the reconcile. Kubernetes (external): `pod_starts`,
`pod_dies`, `collect_pods`, `observe`.

Three modelling decisions matter.

*A reconcile starts from the cache*, which is any version of the Run the watch
has delivered, one older than the replica's own last patch included, and
`patch_status` is a merge patch without resource version: it overwrites what it
names and leaves absent fields.

*A deletion is a request.* `delete_pod` marks a live pod; it goes on until
`pod_dies`. A pending pod marked so does not start. Creating a pod whose name is
taken counts as success (409).

*Steps are a chain.* The plan is `Steps` steps with a cancellation probe before
each, as `execute_plan` does between levels; a resumed executor does not repeat
a step that succeeded.

| Run | Instance | Shows |
|---|---|---|
| `operator` | 1 replica, 1 step, no restarts beyond the progress rule, timeout, annotate or delete, a crash or failing call | `TypeOK`, `OneExecutor`, `SuccessIsReal`, `StoppedStartsNothing`, and the inductive invariants `HonestInv` and `ExecutorInv` |
| `operator_live` | 1 replica, `cancel_run`, an operator crash, executors that hang, `FairSpec` | `StopEnds`, and the inductive invariant `BudgetInv` |
| `operator_budget` | 1 replica, `max_restarts` 1, no faults | `BudgetResets` is violated |
| `operator_replicas` | 2 replicas, `max_restarts` 1, no cancels, no faults | `NeverReset` is violated |

Bounds. With one step and `MaxRestarts` 0 a run still restarts once (progress
resets the budget), so a second pod exists, old and new caches differ, and every
branch of `handle_executor_failure` is taken. One fault falls on any call.
`CHECK_DEADLOCK FALSE`: a run that is over stops.

Fairness (`operator_live`). The watch delivers, the controller requeues a Run
until it is terminal (`Action::requeue`, `error_policy`), and the grace period
passes. Nothing is assumed of executors and pods: steps may hang and a
deletion may never take effect, and the Run still becomes terminal.

### Operator replicas

The chart starts two replicas (`deploy/helm/rivers/values.yaml:114`), leader
election guards the CodeLocation side, and the run controller runs in every
replica (`rivers-operator/src/main.rs:172`). Nothing keeps two replicas from
acting on one Run at once. `operator_replicas` is the smallest such deployment:
a replica whose cache still holds the Run before its first patch runs
`reconcile_init` and patches its old status, `total_restarts` 0 included, over
that of a Run the other has restarted since, although
`rivers-crd/src/crd/run.rs:283` calls the count "Lifetime restart count — never
reset, so every restart pod gets a fresh `-executor-<n>` name". The next failure
then takes an old pod name, and two executors of the run can be live.

So `OneExecutor` is claimed of a deployment of any number of replicas for as long
as only one of them acts on the Run (`Alone(r)`: the others may observe; they
neither reconcile nor crash in the middle of it). That is what leader election
of the run controller would provide. In `operator`, with a single replica, it is
no restriction. The rest of what is proved of OperatorRun (section 8) holds for
replicas that act at once.

## 6. Mutants

Next to a definition `X`, a definition `X_Y` is `X` with a plausible bug (an
off-by-one, a dropped fence, a missing flag). `PROJECT.json` pairs every property
of every passing run with one, and the property is violated when the mutant
stands in for the definition. No specification uses them.

## 7. Findings

Each is a run that ends in a violation of a sentence of the repository's docs or
comments; `PROJECT.json` quotes it.

- `queue_delete`: the tick writes `NotStarted` over a run canceled since it was
  read, so a terminal status is not permanent, and `delete_run` can delete a run
  that is being launched.
- `backfill_sweep`: the race repair of `enqueue_backfill_runs` cancels children
  without their cancel flag, and a tick that read one revives it.
- `operator_budget`: progress that was polled before an executor died does not
  reset the restart budget.
- `operator_replicas`: with the two replicas of the chart, a lagging one takes
  `total_restarts` back to 0, and with it the name of the next executor.

Seen while modelling, without a run of their own:

- without `TimelyRenewal`, a late renewal revives an expired row above the limit
  (`backend.rs:1100`), and a renewal task that finds its rows gone stops while
  the step goes on (`pool_claim.rs:378`): capacity and exclusion are lost;
- claims and renewals use `DEFAULT_LEASE_DURATION_SECS` (`pool_claim.rs:270`)
  and never the `lease_duration` configured on the pool;
- the early return for unlimited pools (`pools.rs:326`) leaves the
  `pending_steps` row of a step that had waited;
- `RunHandle.cancel` reads the status and writes `Canceled` in two calls
  (`results.rs:97-118`): a run that finished in between is rewritten;
- the local backend's `terminate_run` forgets a run that still executes
  (`local.rs:113`), so more than `max_concurrent_runs` can execute although the
  count of statuses (`MaxConcurrent`) holds;
- `block_reason` is never cleared, while `docs/architecture/concurrency-flow.md`
  says "Cleared on dequeue.";
- `stop_on_failure` is read only by the in-process loop (`backfill.rs:515`): with
  the run queue the remaining partitions run, while
  `docs/concepts/backfills.md:183` has no such condition;
- a submission slower than two ticks of the monitor is resumed while it is under
  way (`subdaemons.rs:390`), and its groups are run twice (`GroupRunsOnce` is
  stated for `slow = 0`);
- a backfill none of whose in-process groups could be launched stays
  `InProgress` (`backend.rs:916`, `Stranded`);
- so does one with an in-process child that errs after its row is `Started`
  (`run_lifecycle.rs:85-89,138-144,191-203`): `backfill.rs:503-512` records the
  group as failed and nobody writes the row again (`Stranded`);
- a child that a cancel request fails to reach is only logged, and never tried
  again (`handle.rs:818-826`); a failing read after `Canceled` was written leaves
  all of them (`handle.rs:795-803`). The request must be repeated (`missed`);
- the health check writes `Canceled` over the row of a child that
  `terminate_run` made the backend forget, also when it has succeeded
  (`subdaemons.rs:202-219`): its keys are counted as canceled although they were
  materialized (`SuccessIsReal` is about what was materialized, and holds);
- the flip to `InProgress` (`backfill.rs:391`, `backfill.rs:574`) is
  unconditional: a cancel written between the read of the record and the flip is
  overwritten. In process the `signal` or the cascade may still stop it; with the
  run queue the backfill runs to its end, after the request answered that it was
  canceled. No property states the contrary, so no run shows it;
- when the outcome of a succeeded pod cannot be read, the Run is `Succeeded` and
  `Success` is written over the recorded `Failure` (`reconcile.rs:217`);
- a lost answer to the create of a Run is answered 409 on retry, and the daemon
  writes `Failure` for a run that will execute (`run_backend.rs:152`).

## 8. Proofs

All constants are arbitrary under the modules' `ASSUME`s (finite sets, types of
the tables; `MaxAge < Lease` when renewal is timely).

PoolClaims (`PoolClaimsProofs`):

- `TypeCorrect`: `Spec => []TypeOK`.
- `InvariantHolds`: with `TimelyRenewal`, `Spec => []IInv`. None of the three
  safety properties is inductive: a claim that will commit must be known to be
  admissible still. `IInv` adds `ClaimComplete` (no limited pool is lost between
  pre-check and transaction), `OpenClaimAdmissible` (an admitted transaction that
  is not stale would be admitted again now: the `claim_version` fence),
  `LiveRowsCompatible` (live rows of an asset pool do not conflict) and
  `RowsAreClaimed`.
- `HolderKeepsSlotsHolds`, `AssetExclusionHolds`, `PoolCapacityHolds` follow.
  The key lemmas: the admission test is monotone in the set of live rows
  (`BlocksMonotone`), so steps that only shrink it (`ShrinkKeeps`, `TickKeeps`)
  keep open claims admissible; `UnitsAdd` bounds what a commit adds; and live
  use grows only by a commit (`LiveOnlyByCommit`).
- `NoHolderPendingHolds`, when every step has a pool that is never unlimited
  (`EveryClaimCounted`), from `PendingInv`. The row of `pending_steps` is deleted
  by the transaction, which a claim that drops all its pools as unlimited does not
  run (section 7); `ClaimComplete` shows that this claim drops none of those that
  count, between pre-check and commit. It needs no timely renewal.
- `ImplementsHolds` (`PoolServiceProofs`): with `TimelyRenewal`,
  `Spec => Implements`. `ServiceStep` shows that every step is a step of the
  service or a stutter. `CommitAdmits` is the step that matters: the live slots a
  commit meets are among those its snapshot counted (`CommitRoom`), by
  `OpenClaimAdmissible`, so there is room now and not only at the snapshot;
  `UnlimitedAdmits` shows that a claim without a transaction wants no guarded
  pool. Ticks and sweeps only let slots of non-holders lapse (`Lapses`), because
  a holder's rows are live (`IInv`), and the rest moves one step or ends a hold
  (`MovesOrLeaves`, `Leaves`).

RunQueue (`RunQueueProofs`):

- `TypeCorrect`.
- `WorksAtMostOnceHolds`, unconditionally, from `OnceInv`: a run that the tick
  still may launch has no thread and has not worked (`Fresh`).
- `StoppedNeverWorksHolds`, for `DeleteRuns = {}`, from `CancelInv`: the flag is
  set before the flip and is never removed. `delete_run` removes it, and
  `launch_prepared_job` re-creates the row, hence the condition.
- `QueueInvHolds`, `MaxConcurrentHolds`, for `DeleteRuns = {}`, from `Admitted`
  (a thread that is about to start belongs to a run already counted, or
  canceled) and `Seats` (what the tick has seen, picked and written bounds what
  is in progress). The condition excludes the same re-creation as `Started`.
- `TagSeatsHolds`, `TagLimitsHolds`, for `DeleteRuns = {}`: `TagSeats` is the same bound
  for the carriers of each limit's tags. `CountBounds` relates the counter, which counts
  tags, to the runs that carry one; `SelectTags` is the step that uses
  `is_blocked`.
- `ImplementsHolds`, for `DeleteRuns = {}`: `Spec => Implements`. The initial
  states map to initial states; `ServiceStep` shows that a step of the queue is a
  step of the service or a stutter. Most actions leave the mapped state alone
  (`Invisible`) or move one run (`MovesOne`, `Leaves`). The two that need the
  invariant are the write of `NotStarted`, where `Seats` bounds the seats taken
  and `Fresh` says the run has not executed, and `begin_work`, where `OnceInv`
  and `CancelInv` say that it has not executed and is not withdrawn.

Backfill (`BackfillProofs`), for any groups, keys, cancels, crashes and failing
calls:

- `TypeCorrect`, with `AttemptFits` (an execution that is to mint run ids has ids
  left).
- `SettleInvHolds`, `SuccessIsRealHolds`. `SuccessIsReal` is not inductive: what
  `try_complete_backfill` writes it read earlier, three callers run it at once,
  and the write is unconditional. `SettlesReal` says that what a caller is about
  to write is true. The rows it read may have changed since: the health check
  turns a `Success` into `Canceled`. What stays is that the child's thread ended
  in success (`result`), and that it does not run again (`SuccessStays`,
  `MaterializedStays`); it needs `StoppedRows` (a row that says `Success` was
  written by the child's own thread, which has stopped) and `UnbornRows` (a row
  the thread has still to create is not there). `CallersWait`: the loop and the
  request do nothing else while they settle. The three invariants are inductive only together (`Sound`).
  `DerivedSuccess` is the argument for the derivation itself: the
  rows are over and account for every key, none failed and none was canceled.
- `OnceInvHolds`, `GroupRunsOnceHolds`, while no submission outlives two ticks of
  the monitor (`slow = 0`). `RequestedUnlinked`: a backfill that is `Requested`,
  or that the monitor is about to resume, has no child and no execution under
  way past the flip; `LinkedOnce`: every row is linked and is of the last
  attempt, so a second attempt begins only while there is no row at all.
- `ReachInvHolds`, `CancelReachesChildHolds` (`CancelProofs`), in process, for any
  cancels, faults and slow submissions, the failing calls of the request among
  them: a child under way below a `Canceled` backfill is flagged, or is one the
  request failed to flag (`missed`). The race itself is short: a
  link commits only while the backfill is `InProgress` and the status is read
  again after it, so either the cascade of the request finds the link or the loop
  finds the cancel (`CascadeReaches`). What makes it an invariant is that nothing
  else writes `Canceled` over a child under way. `BornForGood`: once a row exists
  the backfill is never picked up again, a resume by the monitor included, so a
  child under way belongs to the loop's present attempt (`RunningIsCurrent`).
  `SettlesOver`: the monitor and the request settle a backfill as `Canceled` only
  when every group has a terminal row, and the loop only when it is through. That
  needs `CanceledByRun`: a key counted as `Canceled` was canceled by a child and
  not by the record an earlier cancel left behind.

OperatorRun (`OperatorRunProofs`), for any replicas, steps, budget, cancels and
crashes:

- `TypeCorrect`, `BudgetInvHolds`. That a run has at most
  `(max_restarts + 1) * (steps + 1)` restarts is no property of one counter:
  replicas patch old statuses over new ones. It is one of each *version* of the
  Run: `total_restarts` is at most `max_restarts + 1` for every step the version
  has counted, plus its `restarts_without_progress` (`Paid`), and only a version
  that is terminal, or about to be, is over the budget (`Within`). A restart
  keeps it (`RestartPaid`), and so does a merge patch (`PatchPaid`), because the
  three counters travel together and the count of steps never falls below what
  any version knows (`DoneGrows`).
- `HonestInvHolds`, `SuccessIsRealHolds`, `StoppedStartsNothingHolds`, while no
  call has failed. `SuccessIsReal` is not inductive: the status comes from a
  draft, the draft from a cache or from the outcome, the outcome from an
  executor. `HonestInv` says that each of them is borne out by the steps and by
  the flag, which never go back (`Monotone`). An executor that carries a success
  it has not earned has still to read the flag (`HonestExecutor`), and a pod
  that succeeded has recorded an outcome, so the fallback of `succeeded_outcome`
  is not taken. `ReplicaMoves` and `RunMoves` reduce the operations to what they
  do to a replica and to the Run.
- `OneActsHolds`, `OneExecutorHolds` (`ExecutorProofs`), for any replicas, errors
  and crashes: `Spec /\ [][Alone(r)]_vars` implies `[]OneActs(r)`, and with it
  `[]OneExecutor`, for every replica `r`. `ExecutorInv`, which `operator` checks, is
  `OneActs` of its only replica. A cache may lag behind the
  replica's own patches by any number of steps, so "the cache is current" is no
  invariant; what holds is that the replica takes no step from a version it has
  not seen, and so the Run is ahead of each version it may still act on by at
  most one executor (`Follows`). `Fits` says which pods there can be for a version:
  the executor it names or the one that replaces it, and the second exists only
  once the first has stopped. `Knows` carries what a reconcile has found out (the
  pod is dead, the draft is one restart further) over the calls in between; a
  dead pod stays dead and its name stays taken until it is collected. A second
  replica that acts breaks `Follows`, as `operator_replicas` shows.

Every safety invariant and action property that a passing run checks is stated by
one of these theorems, and so are both refinements. Only model-checked: liveness
under fairness (`ClaimEnds`, `EveryRunEnds`, `BackfillEnds`, `StopEnds`), which is
outside the prover's reach. What would need induction over data (the counters as
recursive sums, the grouping of keys) is not proved either. Where a theorem has a
condition (`TimelyRenewal`, `EveryClaimCounted`, `DeleteRuns = {}`, `slow = 0`,
`errors = 0`, `Alone(r)`) the property is not claimed without it, and the sections
above tell why.

## 9. Not modelled, and what is left

Not modelled, and listed so in `PROJECT.json`: views, transport, manifests, git
synchronisation and integrations, which are I/O without a protocol of their own;
condition evaluation, staleness, partitions and planning, which are large pure
computations over data; schedules and sensors, the executors' dispatch, and the
migration lease.

Within the modelled parts: events, logs, hooks, tracebacks and metadata; the
queue position reported to a waiting step; the single-attempt claim
`try_acquire_blocking` of the in-process executor; `delete_backfill`; a
`backfill(block=True)` in user code beside a daemon; step jobs and their
cleanup; `direct` materialize() calls.

What is left, in order:

1. composition of RunQueue and PoolClaims: deletion and cancellation of runs that
   hold slots, and the slots `delete_run` frees (`backend.rs:1185`);
2. schedule and sensor cursors; executors: ready set, skip propagation, step-pod
   resume; the migration lease;
3. the condition evaluator and the tag counter as pure functions against
   reference definitions.
