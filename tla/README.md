# A verification project for LambdaForge

LambdaForge (version 0.18, `src/`) is a managed runtime for research in Python. A user describes
a *Work*; the control plane submits it as *Jobs* to a workstation, an SSH host or a Slurm cluster;
a *Study* of many *Runs* can be spread over a *fleet* of clusters. Most of its 124 000 lines are
numerics, configuration and presentation. What is hard in it is a handful of protocols between
processes that share files, crash, lose each other's answers and act on what they read a while
ago. This directory models seven of them, checks the models with TLC and proves their safety with
TLAPS.

Paths below are relative to `src/src/lambdaforge/` unless they start with `src/`.

## 1. The system

### 1.1 Components

| Component | State it keeps | Operations | Talks to | Correct when |
|---|---|---|---|---|
| **Study coordinator** `controlplane/StudyCoordinator.py` | `coordinator.json`: Run records, attempts, shards, members, lifecycle, spent budget; accepted and quarantined result files | `request_pause`, `begin_resume`, `finish_resume`, `set_member_state`, `update_fleet`, `enqueue`, `cancel_planned`, `withdraw_planned`, `replan_unstarted`, `retry_lost`, `plan_shards`, `submit_shard`, `reconcile`/`_observe`, `mark_unreachable`, `ingest` | the dispatch loop calls it; it calls executors between two of its transactions | a Run has one worker at a time and one accepted result, budgets and capacities hold, pauses are quiet |
| **Fleet placement** `controlplane/FleetPlacement.py`, `Fleet.py` | none | `exclusions`, `place` | called by `plan_shards` | no Run goes where it does not fit |
| **Prepared shard executor** `controlplane/PreparedShardExecutor.py`, `ShardPreparation.py` | manifest, `submission.json` intent, allocation receipt per shard | `submit`, `observe`, `offer`, `prune`, `pull_scalars` | provider or control plane below, coordinator above | an intent without acknowledgement is never sent again |
| **Dispatch loop** `work/coordinated_dispatch.py` | in memory: queued, delivered, complete streams | one loop: reconcile, pull scalars, deliver, refill, submit, plan | coordinator, executors, search | a result reaches the planner once, after its metrics |
| **Shard worker** `work/shard.py` | `worker.json`, owner lock | `execute_concrete_shard` | runner | an interrupted shard is never rerun |
| **Member allocation** `work/member.py` | inbox, `offer.json`, `member.json`, pruning requests, `shutdown.json` | enqueue wave, serve waves, heartbeat offer, prune, shut down | executor over files | accepted waves are served, once; capacity comes back; an interrupted member is not replayed |
| **Scalar stream** `work/fleet_stream.py` | mirrored bytes and `stream.json` cursor per channel | `cursors`, `ingest` | executor | the mirror is a prefix of the source, complete means equal |
| **Fleet Study service** `controlplane/FleetStudyService.py`, `FleetResourceService.py` | none of its own | status, pause, resume | coordinator | - |
| **Process supervisor** `controlplane/ProcessSupervisor.py`, `ProcessIdentity.py`, `jobs.py` | per Job `state.json`; per host CPU and GPU lease files | `launch`/`serve`, `control` (cancel, pause, resume), `inventory` | child process, storage admission, other supervisors through lease files | leases are exclusive, nothing runs without them, what outlives the supervisor's return is written down |
| **Schedulers** `controlplane/ProcessScheduler.py`, `SlurmScheduler.py` | none | submit, state, cancel, pause, resume | supervisor or Slurm, over a transport | - |
| **Job records** `controlplane/JobStore.py`, `JobService.py` | one JSON record per Job, event log | write, refresh, cancel, retry | schedulers | a cancellation is not lost to a refresh |
| **Submission** `controlplane/SubmissionService.py`, `SubmissionWorker.py`, `ControlPlane.py` | submission phase in the Job record | prepare, submit, recover | Job records, schedulers | a Job is submitted at most once |
| **Storage admission** `controlplane/StorageAdmission.py` | a lease file per Job and volume | `reserve`, `observe`, `release` | supervisors, transfers | free space covers the safety margin and what live owners may still write |
| **Storage maintenance** `controlplane/StorageOperations.py`, `StorageService.py`, `work/checkpoint_retention.py`, `work/retention.py` | deletion receipts and trash, pins | collect, prune, resume deletions, pin, unpin | environments, caches, runs | nothing pinned or in use is deleted; a killed deletion is finished |
| **Environment build lease** `controlplane/CacheBuildLease.py`, `ManagedEnvironmentProvider.py` | marker directory with `owner.json`; prefixes; the active-environment pointer | acquire, heartbeat, build, publish, reuse, activate, release | garbage collection | one builder at a time; a dead one can be recognised; what is used is not collected |
| **Locks, shared GPU admission** `runtime/` | lock files, a stamp per GPU | acquire, release; staggered launch | everything | launches on one GPU are staggered |
| **Work runner** `work/runner.py`, `study.py`, `managed.py`, `atomic.py`, `state.py`, `ResultStore.py` | run directories, attempt history, results | run, resume, import | training, cache | a finished Run is not repeated, a failed one is not called finished |
| **Checkpoints and recovery** `work/checkpoints.py`, `recovery.py` | checkpoint sidecars | publish, select, recover | runner | a resume starts from a complete checkpoint |
| **Dataset cache** `data/cache/` | record files under a quota, namespace manifest | read, write, remove, clear | datasets, many processes | never over quota, never a torn record |
| **Dataset registry and transfer** `data/DatasetRegistry.py`, `DatasetService.py`, `DatasetPublisher.py` | declared placements, transferred trees | register, retire, publish, materialise | clusters | a placement that is listed holds its bytes |
| **Products** `products/` | immutable product records | publish, select | results | a content identity names one content |
| **Search** `hpo/` | posterior state of an adaptive search | propose, conclude | dispatch loop | statistics |
| Training, models, metrics, analysis, diagnostics, plugins, tracking, identities, transports, CLI, TUI | - | - | - | numerics, input and output, presentation |

### 1.2 How they interact

A coordinated Study has three levels, each of them another process on another machine. The
*driver* (dispatch loop) holds the ledger lock only for the length of one transaction. It calls
executors **between** transactions: `submit_shard` writes "unknown" first, calls, and writes the
answer afterwards, so a crash or a lost answer leaves a record that promises nothing. The
*executor* writes an intent file before it calls the *provider*. The provider starts a resident
*member allocation*, and that starts *workers*. Evidence travels back when the driver polls.

On a host without a scheduler, `ProcessScheduler` starts one *supervisor* per Job. Supervisors know
of each other only through lease files, judged by whether the process a file names is alive.
`lf cancel`, `lf jobs pause` and the like run as further processes that write the same `state.json`.

### 1.3 What is hard in it

* **Lost answers.** Every submission can be accepted although the caller saw an error.
* **Acting on an earlier read.** Placement uses offers up to 15 s old; supervisors and control
  processes decide from a read and write later; plans of garbage collection are made before the
  lock is taken.
* **Crashes between two steps**, of the driver, executor, supervisor, builder or mirror.
* **Late and repeated reports.** An observation or result may arrive after the attempt was lost,
  replaced or settled.
* **Counters with refunds**: the Run budget, the slots of an offer, storage commitments.
* **Waiting**: a pause waits for owners, a Job waits for cores while it holds others' GPUs.

`PROJECT.json` lists each of these at its line under `hazards`, with the properties that watch it,
or the reason why none does.

## 2. The plan

| # | Modules | Models | Abstract specification | Proved for every instance |
|---|---|---|---|---|
| 1 | `StudyCoordinator` | the ledger; executors, operator and clock are its environment | `ExclusiveRuns` | every safety property its runs check, four more, the refinement |
| 2 | `ProcessSupervisor` | Jobs of a direct host and the processes that control them | `HostLeases` | type, four invariants, no circular wait and no standstill, the refinement |
| 3 | `ScalarStream` | chunks, cursors, lost and late answers, crashes between append and cursor | `PrefixMirror` | type, six properties, the refinement |
| 4 | `MemberAllocation` | an allocation between driver, provider, two threads and observers | `LeasedWaves` | type, five invariants, the refinement |
| 5 | `CoordinatedDispatch` | the dispatch loop over ledger, members, streams and planner | `AwaitedRuns` | type, five invariants, the refinement |
| 6 | `StorageAdmission` | the leases of one volume | - | type, two invariants |
| 7 | `EnvironmentCache` | builders, Jobs and collectors of managed environments | - | type, an invariant, an action property, when a launch finds its environment |

Each `X` has an `MCX` with the values of its small instance where the cfg cannot write them, and an
`XProofs`; `StudyRefinementProofs` holds the refinement of the first. `ExclusiveRuns`, `HostLeases`, `PrefixMirror`,
`LeasedWaves` and `AwaitedRuns` are the promises the others are shown to keep. `StorageAdmission` has none: an admission decides on an
older measurement, and an abstraction that hides the measurement would say no more than `MarginKept`.

The models meet at their promises instead of being multiplied into one state space.
`CoordinatedDispatch` sees the ledger through the transactions that matter to the loop, a stream through
how many chunks were acknowledged and whether it is complete (which `ScalarStream` shows to mean
that everything was copied), and a member through the three phases a Run has there (which
`MemberAllocation` shows to happen once). `StudyCoordinator` sees an executor through accepted, refused,
finished and dead. `ProcessSupervisor` sees storage admission as a wait that may be refused or
granted, which is what `StorageAdmission` gives it.

What is left, in the order of its worth: the durable submission queue (`SubmissionService.py`,
`SubmissionWorker.py`) over the Job records; the quota and repair of the dataset cache
(`data/cache/DiskCacheBackend.py`); the other categories of `StorageOperations.gc` and the retention of
checkpoints; the attempt history and recovery of one Run inside the worker (`work/runner.py`,
`work/recovery.py`).

All modules are written so that both tools can use them: parameters are constants with a named
assumption, every operation is one action, and no module uses a recursive operator.

## 3. `StudyCoordinator`: the ledger of a Study

### State

| Variable | Code |
|---|---|
| `lifecycle`, `expired` | `lifecycle` of `coordinator.json`; whether `max_time_seconds` has passed |
| `state`, `priority`, `last`, `accepted` | the record of a Run: state, priority class, length of `attempts`, digest of the accepted envelope |
| `attempt`, `place`, `shard`, `job` | an entry of `attempts`: state, cluster, shard id, whether `job_id` is set |
| `quarantined` | attempts with a file under `quarantine/` |
| `reserved` | `attempts_reserved` |
| `member`, `waiting` | member state; whether `retry_at` lies in the future |
| `inflight` | calls of `submit_shard` between fence and answer (stack of the driver) |
| `remote` | the truth about a lease beyond the provider: sent, refused, accepted, finished (with a result), dead (without one, or with one nobody has collected) |
| `overtaken` | history: was a lease replaced before it had a durable Job? |

A lease id is a fresh uuid, so the pair `<<run, attempt>>` stands for it. A shard id is the digest of
its leases, so the set of leases stands for it.

### Actions

Each action is one transaction and ends with `Commit`, the epilogue of `_transaction` that turns
`pausing` into `paused` once nothing is owned. `submit_shard` is four actions, because the lock is
released while the executor is called: `SubmitFence` or `SubmitWithdraw`, then one of
`SubmitAcknowledged`, `SubmitRejected`, `SubmitAmbiguous` - or `DriverCrash`, after which nobody
writes the answer. `PlanShards` has the whole greedy loop of the broker as a predicate on the
resulting choice (`Greedy`): in the order of urgency, every planned Run is placed on some member
that is not excluded, or all are excluded, or the wave or the budget is full. Which admissible
member the score prefers is left open. Offers are arbitrarily old, and all that `Honest` asks of them is that they neither offer
nor acknowledge more Runs than the member holds: `work/member.py:389` counts the free slots before line 412 lists
the acknowledged leases, so an offer may acknowledge one full wave beside the slots that wave is about to use.
The driver submits every shard that `unsubmitted_shards` lists or `plan_shards` returned (`Unsubmitted`).
`Observe` delivers any report that was true at some moment (`Reported`).

### Runs

| Run | Instance | Shows |
|---|---|---|
| `study_placement` | 2 Runs, 2 priorities, 2 clusters with different capacities and caps, 1 attempt | `TypeOK`, `NoOverbooking`, `UrgentRunsFirst` |
| `study_recovery` | 2 Runs with 2 attempts in shared shards on one cluster, budget 3 | `LiveIsOwned`, `FinishedIsAcceptable`, `BudgetCoversWork`, `SubmittedOnce`, `ImplementsExclusiveRuns` |
| `study_operator` | 1 Run, 2 attempts, 2 clusters, draining, catalog updates, time budget, `FairSpec` | `PauseIsQuiescent`, `AcceptedIsFinal`, `FinishedWorkArrives`, `PauseDrains` |

Most of what is said of the ledger is said while `overtaken` is false. The test of `unsubmitted_shards` and of the
submission fence (lines 379 and 687) compares the Runs of a shard and not its leases. When a lease that never got a durable Job
is replaced - by `retry_lost` after a loss that was proved before the submission was acknowledged, or after its withdrawal from a member
that stopped being online - the shard of the old lease passes that test again, and the loop sends it (`work/coordinated_dispatch.py:453`).
What follows from that is in section 11. Until such a replacement everything below is proved, whatever the driver submits. In the repository nothing outside the tests calls `retry_lost`, `set_member_state` or `update_fleet`, so that a Study
as shipped stays within it; the three are public operations, and modelled. `TypeOK`, `UrgentRunsFirst`, `JobIsResident` and `StartIsNotUndone` need no condition.

Bounds: two Runs are the fewest that share a shard, compete for a slot and differ in urgency; two
attempts are the fewest in which a late answer meets a replacement; two clusters the fewest
between which a Run moves. The budget of `study_recovery` is smaller than the number of possible
attempts, so it does bind. `MaxAttempts` is the only bound that the code does not have: `PlanShards`
passes over Runs that have used it up. Four more properties - `Accounting`, `JobIsResident`,
`WithdrawnNeverSent`, `StartIsNotUndone` - are proved and not repeated by a run.

Fairness (`FairSpec`): executors answer, workers end, a driver writes the answers of calls it has
made and ingests results it polls. `coordinated_dispatch` polls for as long as it runs, which is
the justification. Nothing is assumed of the planner, the operator, or loss proofs, and
`DriverCrash` may happen at any time. `CHECK_DEADLOCK FALSE` here and in all other runs: a Study, a Job
or a call really does come to an end.

### The abstract specification

`ExclusiveRuns` has four variables and says that attempts of a Run are granted one after
another, that only the owner executes, that ownership is taken back only while nothing of the Run
is alive, and that evidence is settled once by the owner. `StudyCoordinator` implements it under
`granted <- last`, `owned <-` Runs in an active state, `alive <-` attempts that were sent and are
not known to have ended, `evidence <-` the accepted outcome.

## 4. `ProcessSupervisor`: Jobs of a direct host

### State

| Variable | Code |
|---|---|
| `state`, `identity` | `state` and `process_identity` of `state.json` |
| `cleanup` | `process_cleanup_warning` of `state.json`, or that the `finally` clause found no identity to look for |
| `step` | where the supervisor's `serve` is; `dead` after SIGKILL, `gone` after its return |
| `verdict` | the result `_monitor` has decided and not yet written |
| `child`, `stray` | the main scientific process; descendants outside its group |
| `cores`, `gpus` | lease files of the Job |
| `control` | what a control process has read and will do next |

### Actions

`_update_state` is atomic under its lock, but the code that calls it decided from an earlier read.
So every read of `state.json` and every write is a step of its own: `ReadBeforeStorage` then
`QueueForStorage`, `ReadAfterCapacity` then `QueueForCapacity`, `PollExited` then `PublishExit`, `ReadToCancel`
then `WriteCancelled` then `KillCancelled`. The lease scans are single steps because they run under
the host-wide lease lock. `Crash` is SIGKILL of a supervisor: its files and its child stay, and
others treat the leases as free. `Fail` is any exception at any step before the end, `Faulty` the
Jobs it may happen to.

The `finally` clause (`ProcessSupervisor.py:230-262`) stops the child and gives back GPUs and cores whether or not that worked. `Terminate`
is the case in which it did. `TerminateFails` is the exception of `_terminate` (line 948), caught at line 237: some of the processes live on
(`KillSome`), `state.json` gets its warning, and the leases go back all the same. `SkipTerminate` is a child whose identity could not be read, which is
not even looked for. A control process may fail to stop the child in the same way. A device such processes use may or may not be reported as occupied (`Orphaned`).

### Runs

| Run | Instance | Shows |
|---|---|---|
| `supervisor_control` | 2 Jobs, of which one shares the GPU, 2 cores, 1 GPU, a control process with all operations, one supervisor that may be killed and one that may meet exceptions and fail to stop its child | `LeasesAreExclusive`, `ImplementsHostLeases` |
| `supervisor_ends` | 2 limited Jobs, 1 core, 1 GPU, a cancelling control process, one supervisor that may meet exceptions and fail to stop its child, `FairSpec` | `EndsTerminal`, `WorkHoldsLeases`, `CancelStopsWork`, `LimitedJobsFinish` |
| `supervisor_terminal` | 1 Job, 1 cancelling control process | a disagreement, section 11 |

Bounds: two Jobs for one GPU are the fewest where one holds and one waits; one control process
acts on any Job, again and again, with its reads and writes apart from the supervisor's (two of them multiply the states beyond what a run
finishes; the theorems have any number). No counter needed a bound; a Job is launched once.

Fairness: a live supervisor goes on and a control process finishes what it began (weak). Grants of
storage, cores and GPUs have strong fairness: the retry loops sleep and ask again for ever, and a
grant that is possible infinitely often is obtained. That also assumes no starvation by luck of
the lease lock, which the code leaves to the operating system. Children need not exit; that is why the
liveness property speaks of Jobs with a runtime limit, and why it assumes that processes which could not be stopped do not stay on the
devices for ever: nobody waits for them, but an exclusive request passes over a device that looks occupied.

`HostLeases` knows neither state files nor control processes nor the steps of `serve`: a holder arrives, is given its cores and
then its GPUs, works once and with all of them, ends, and gives back first the GPUs; only a holder on its way out that could not end its work (`GiveUp`) gives them back
while it goes on. `ProcessSupervisor` implements it
under `phase <-` whether the supervisor is on its way in, on its way out or no longer there, `work <-` whether any process of
the Job lives and was left to itself, and the leases of those supervisors that live. Runtime limits are in `supervisor_ends` and not in
`supervisor_control`, where they would only multiply the states; the theorem has them all. `NothingLeftBehind` is
proved and in no run.

Requests larger than the host are refused with an exception, which is `Fail`; the assumption on
`CoreCount` and `GpuCount` leaves out only the attempt to grant them.

## 5. `ScalarStream`: the metrics of a Run

The member's `scientific_stream` answers a request of the driver with a chunk of each channel; the driver
appends what it did not have and then replaces `stream.json`. `source` and `torn` are the worker's files,
`ended` is its result, `reader` the answer being put together, `kept` answers that may still turn
up, `data` the mirror files, `cursors` and `opened` `stream.json`, `receiver` the ingestion under way.

A read is not a snapshot: the cursors go out with the request, then come the results, and of each file
first the size and then the bytes, each a step of its own between which the worker writes on
(`ReadResults`, `ReadSize`, `ReadRaw`). The worker may die inside a record (`torn`). `Lose` drops a
call; any earlier answer in `kept` may be delivered at any time (`IngestKept`). `Crash` interrupts an
ingestion between two appends or before `Commit`; the next `Request` or ingestion truncates what lies
behind the cursor. An ingestion that contradicts the mirror raises (`Refuse`).

| Run | Instance | Shows |
|---|---|---|
| `stream_delivery` | 2 channels of up to 2 records of 2 contents, chunks of 1 record, one earlier answer, a worker that may die, `FairSpec` | `CompleteIsWhole`, `NeverWedged`, `ImplementsPrefixMirror`, `Arrives` |

Bounds: two channels share one cursor file, so one's append can be committed with the other's
missing; two records make a stream of two chunks, with something to skip, overlap and contradict; one
earlier answer is enough to be stale. The constraint `FirstIsA` lets the first record of a
channel have the first content only: the two contents are used alike, so every behaviour is one of
those with the names exchanged.

Fairness: calls and the driver stop failing at some time (`Settle` makes `stable` true; without that
no retry loop delivers anything), from then on the driver asks again and again (strong, since
deliveries of earlier answers may come in between) and ends what it began.

`PrefixMirror` says that a mirror grows by records of its source and is completed once, when it holds all
of them. The refinement gives `MirrorIsPrefix` and `CursorsAdvance`, which are proved as well, as is
`FreshAnswerFits`. A Run whose worker died inside a record is never complete: `read_chunk` refuses a terminal
file with a torn tail by design (`src/tests/integration/test_fleet_stream.py`), so `Arrives` speaks of published results.

## 6. `MemberAllocation`: waves of a persistent allocation

| Variable | Code |
|---|---|
| `receipt`, `starting`, `submitted` | `allocation-receipt.json`; a driver inside `start_allocation`; calls of the provider |
| `job`, `restarts` | the allocation's Job at the provider, and how often the provider started it again |
| `answer`, `inbox`, `shutdown` | what became of each shard sent; accepted waves; `shutdown.json` |
| `owner`, `main`, `todo`, `wave`, `finished` | `member.json`, and the main thread of `_run_member` |
| `busy`, `held`, `pulse`, `offer` | what main and heartbeat thread share; an offer under way, which has its slots and perhaps its acknowledged leases; `offer.json` |
| `worker`, `life` | `worker.json` of each wave, and each lease: idle, running, ended, stored, lost |
| `seen`, `raised`, `pruning`, `stop` | an observation between its reads; one that raised; a stop request between reads and write; stop files |

`Send`, `Enqueue` and `Shutdown` are commands of other processes at any moment. The main thread goes
through `Scan`, `Take`, `Hold`, `OpenWave`, `CloseWave`, `Free`, `Clear`, `Check` one statement that matters at a
time; `Probe`, `ReadHeld` and `Publish` are the heartbeat thread, which reads `busy` at one time (line 389), the acknowledged leases
at another (line 412) and writes the offer at a third. With `Discovers` a wave is accepted only when the member has attested its hardware;
without it `enqueue` accepts before the member has started (lines 57-58). `Kill` ends the allocation with everything in it, `ProviderRestarts`
starts the same command again, `DriverDies` leaves the intent without an answer. `ReadWave` and
`AnswerWave` are the two reads of an observation, `ReadWorker`, `LookAtRun`, `WriteStop` a stop request.

| Run | Instance | Shows |
|---|---|---|
| `member_owner` | 4 waves over 3 Runs (one repeats a Run, one carries a retry), observations of the first, one restart, no attestation | `OneProviderJob`, `OwnerWorksAlone`, `ImplementsLeasedWaves` |
| `member_ends` | 2 waves, one Run the planner may stop, attested hardware, `FairSpec` | `StopAfterStart`, `AcceptedWavesFinish`, `CapacityReturns`, `DrainReleases` |

Bounds: a wave that repeats another's Run and one that is refused as a retry need two more than the two
that follow each other; one restart is enough to find the files of a killed process. `LeasedWaves` is about takings, starts and deaths, so
the observations are in its run, and the stop requests in the other. Fairness:
the main thread goes on, the provider starts and ends the Job, Runs end, and a heartbeat that can see
the allocation idle again and again does so at some time (strong) and is published.

`LeasedWaves` says that each wave is taken or refused once, that a lease starts only if its wave was taken and no lease of the same
Run has started, and that a death takes with it what had not been stored and no more. `RunsStartOnce` is proved and not repeated.

## 7. `CoordinatedDispatch`: the loop

One call of `CoordinatedDispatcher.__call__`. `at` is the place in the loop, `queued`, `delivered` and `complete` are its
variables, `records`, `status` and `active` what it read of the ledger earlier in the round and still uses. `state`, `attempted`,
`reserved`, `lifecycle` and `expired` are the ledger, `remote` the member, `read` the chunks acknowledged.

A round is `Reconcile`, `ReadRecords`, then for each Run with a stream `Pull` (or `PullLost`, `PullUnknown`, `PullRefused`), `Deliver` or `Delivered`,
`Prune`, `Decide`, `Count`, `Extend`, and for the planned shards `Submit`, `Withdraw` or `Held`, `PlanShards`, `Sleep`. The planner's
answer to a delivery (`Deliver`) is any set of Runs it still wants, brings back, or no longer
mentions; what it no longer mentions is withdrawn if it is still planned. `Reconcile` may also end the call after some of the observations were written, when a member's command fails or
evidence contradicts the ledger, and so does a chunk that contradicts the mirror (`PullRefused`). `RequestPause` and `Expire` are the operator and the clock between any two steps.

| Run | Instance | Shows |
|---|---|---|
| `dispatch_loop` | 2 Runs, 2 chunks each, parallelism and budget 2, pause, time budget, defer, prune, lost and refused calls, rejections, draining members, `FairSpec` | `LeasedIsAwaited`, `WithdrawsPlanned`, `ImplementsAwaitedRuns`, `LoopEnds` |

Bounds: one Run that the call begins with and one the planner may add, defer or take back; two chunks, so
that a stream is incomplete for a while; the budget is as large as both. Left out: more than one
Run per shard, a second call, telemetry. Fairness: the loop goes on, members work, and
calls that are made again and again succeed at some time (strong for `Reconcile`, `Pull`, `PlanShards`, `Submit`).
`LoopEnds` is that the call returns or raises.

`AwaitedRuns` is what the planner relies on: a Run computes only while it is awaited, its result is given once and when all its
chunks have been heard, and what the planner wants no longer is given up only before it started. The loop implements it
under `awaited <- queued`, `given <- delivered`, `heard <- read`, and `life <-` what the member does with the Run;
`DeliveredIsWhole` is part of it and proved on its own.

## 8. `StorageAdmission`: promises on a volume

`_reserve_locked` under the lock of the volume: it reads every lease, drops those of dead owners, refuses
when one cannot be judged, measures, and publishes its own lease if the space that is free and not
promised covers request and safety margin. `Lock`, `Look`, `Measure`, `Publish` are the steps in which a deciding client may be
overtaken by writes, deaths and users that never ask (`Write`, `Dies`, `Spend`). A refused Job or worker collects
garbage, waits and asks again (`Collect`), a copy does so once.

`loose` has no counterpart in the code: it adds up what was written without a promise since the last
admission looked, and `MarginKept` says that nothing else eats the margin.

| Run | Instance | Shows |
|---|---|---|
| `storage_volume` | a Job and a worker of 2 units, a copy of 1, 5 units free, margin 1, 1 unit of cache, 1 unit taken by others, a worker that nobody may inspect, `FairSpec` | `MarginKept`, `WorkIsCovered`, `FittingIsAdmitted` |

Bounds: Job and worker fit beside each other with nothing to spare, so one unit counted twice or not
at all breaks the margin or refuses what fits; the copy fits only after a collection. Fairness: who waits asks
again; the lock, free again and again, is obtained at some time (strong); owners end and release.

## 9. `EnvironmentCache`: builders and collectors

Submissions of `ControlPlane.submit` acquire the build marker of their environment, reuse or build and publish the prefix, move the
active pointer, release the marker, write the Job directory and launch the Job. Meanwhile other processes collect: `gc` and
`prune_environments` read the pointer, the Job directories and the markers, choose, and delete with a journal (receipt, rename,
removal), resuming first what a killed collector left.

| Variable | Code |
|---|---|
| `prefix`, `temporary`, `active`, `marker` | verified prefixes, temporary ones, the pointer, the owner in each build marker |
| `step`, `job`, `child`, `beat` | each submission: its phase, its Job directory, whether its installer runs on without it, a heartbeat between read and write |
| `robbed` | history: submissions over whose marker a late heartbeat put another name |
| `at`, `by`, `keep`, `plan`, `target`, `stage`, `seen` | the collection under way: place, what it has read, chosen and is deleting |
| `journal`, `trash`, `kills` | receipts, renamed trees, collectors killed |

`Unlink`, `Rmdir` and `ReleaseLost` are the release, which a heartbeat that outlives its join can overtake (`BeatReads`, `BeatWrites`), and
which its controller need not survive. The commands of a submission in `Faulty` may fail or end without an answer: `Acquire` may then have left the marker, with or without
its `owner.json`; `BuildFails` removes the temporary prefix or leaves it, and perhaps the installer in it (`child`); a release may be lost.
`Dies` ends a controller, as every controller ends; an installer it started may go on.

`Orphaned` is what a collector on the same host concludes from an unknown process id and nothing running in the prefix (`Unused`). The id of a controller in
`Recycled` lives on, as another process or one that may not be inspected, and its marker is nobody's orphan. `FinishFails` is a removal of a marker that is killed
between `owner.json` and its directory, or finds that a heartbeat has put `owner.json` back.

| Run | Instance | Shows |
|---|---|---|
| `environment_collection` | 3 submissions, 2 of which share an environment; the controller of one runs on the cluster's host, may end at any time, be late with a heartbeat and lose answers; one killed collector, `FairSpec` | `BuilderKeepsItsWork`, `SeenJobsKeepTheirs`, `TrashGoes`, `OrphansGo` |

Bounds: two submissions of one environment compete for a marker, the third moves the pointer away from it; one killed
collector leaves one receipt or one half-removed marker. One submission has all the failures, and meets with them a builder of the same environment and one of another that have none
(`Mortal`, `Delayed`, `Faulty` are bounds; the theorems have any sets). `Recycled` is empty here, as a marker of such a controller stays.

Fairness: a collection that has begun goes on, unless it is killed or fails. Nothing makes one begin: the supervisor of a Job that ends runs one (`ProcessSupervisor.py:256`), and so do
a shortage of storage and `lf clean`, but a host on which none of these happens is never collected. `TrashGoes` and `OrphansGo` therefore assume `CollectionsGoOn`, and `OrphansGo` also that the environment is
not in use for ever: while an installer or a Job runs in it the marker is not taken for an orphan's.

`BuilderKeepsItsWork` is about builders whose marker was not overwritten. A heartbeat that outlives its timeout puts its controller's name into the next builder's marker,
every controller exits in the end, and then that marker, and what is built under it, are an orphan's: section 11.

## 10. What is proved

All theorems hold for every value of the constants that satisfies the module's assumption and for
every history. Each proof has the same shape: an inductive invariant `IInv`, checked by TLC first; a lemma per group of actions that
they preserve each part of it; the theorems as consequences. The type invariant of every module is part of it and a theorem; one run
checks one, the others would only repeat what is proved.

**`StudyCoordinatorProofs`.** That a live worker is owned depends on what an attempt's state says about the
far side. `IInv` therefore adds `LeaseInv` (attempts are numbered without gaps, superseded ones
were lost or withdrawn), `ShardInv` (leases are partitioned into shards of distinct Runs on one
cluster), `RecordInv` (a record agrees with its latest attempt and its evidence), `RemoteInv` (what an attempt's
state says of the lease beyond the provider), `InflightInv` (while a call awaits its answer and nobody
took the shard, the ledger owns all of it) and `PauseInv`. A second invariant, `CountInv`, is about
numbers: the reservation is the number of attempts not given back and within the budget; what is active on
a member fits its capacity and caps. Its argument for the greedy loop is a pigeonhole: the number
of Runs placed before a Run is different for each, and below the limit for each, so there are no more
Runs than the limit. That an old offer suffices follows because leases the offer does not acknowledge are
subtracted and those it acknowledges were resident (`OfferCovers`). The invariant is proved of a driver that submits current shards only (`CarefulDispatch`), and then shown to be enough: as long as every lease
that was replaced had a durable Job (`ReplacedHadJobs`), whatever `unsubmitted_shards` returns is current (`UnsubmittedIsCurrent`), so each step of `Spec` is one of that driver's
(`CarefulMoves`). `Guarded` says all this of the histories in which `overtaken` is false. Theorems: `TypeCorrect`, `LiveWorkIsOwned`, `PausedIsQuiescent`, `WithdrawnStaysHome`, `SubmitsOnce`,
`FinishedStaysAcceptable`, `JobsAreResident`, `AcceptedStaysFinal`, `StartsStand`, `NeverOverbooks`, `StaysInBudget`, `RefundsBalance`, `UrgentFirst`
(a property of every step, from the order in which the greedy loop visits the Runs).

**`StudyRefinementProofs`.** `LedgerKeepsPromise`: initial states map to initial states and each step to a
step of `ExclusiveRuns` or a stutter. The case that needs the invariant most is `PlanShards`: a
Run is granted a new attempt only if nothing of it is alive, which is `LiveIsOwned`.

**`ProcessSupervisorProofs`.** `IInv` adds `PlacedInv`, which says for each step of `serve` what is held and
what runs there; `IdentityInv`, that a recorded identity belongs to a child that was started and
that a control process acts only on one it read; and `EndInv`. The interesting step is a cancelled wait
for cores, which moves on *without* cores: `PlacedInv` then says that the state is cancelled *or* the Job
has all its cores, and the later check relies on nobody but the supervisor itself overwriting a cancellation. On the way out a process may live only where stopping it
was given up: with a warning, or without an identity.
Theorems: `TypeCorrect`, `LeasesExclude`, `WorkIsEquipped`, `ReturnsClean`, `ReturnsTerminal`, `HostKeepsPromise` (each step of a
supervisor or control process is one of `HostLeases` or a stutter), `WaitsInOrder` (whoever a supervisor waits for has come further with
its leases, so no circle of them waits) and `StandstillEnds` (when all live supervisors wait, enough for one of them is leased by nobody:
who waits for GPUs holds none, and if nobody does, who waits for cores holds none). The last two are the safety half of
`LimitedJobsFinish`.

**`ScalarStreamProofs`.** `MirrorInv` (up to its cursor a file is a prefix of the source, and a cursor file exists
wherever there is data), `KeptInv` and `ReaderInv` (every answer, complete or being read, tells
of the source what was true when it was read), `ReceiverInv` (what is left to append continues what is
in the file). Theorems: `TypeCorrect`, `MirrorsPrefix`, `CompletesWhole`, `StaysUsable`, `FreshFits`, `CursorsOnlyAdvance`, `StreamKeepsPromise`.

**`MemberAllocationProofs`.** `Submissions` (who has an intent, who called the provider), `OwnedWork` and `OneOpen` (at most one wave is open,
and only while the process that owns `member.json` executes it), `Inbox` (waves of the inbox share no Run),
`StartedIsOpen`, `Stops`. Theorems: `TypeCorrect`, `SubmitsOneJob`, `StartsOnce`, `WorksAlone`, `StopsFollowStarts`, `AllocationKeepsPromise`,
`DrainsCleanly`: `DrainKeepsAccepted` is refuted (section 11), but what a drained allocation did start is stored.

**`CoordinatedDispatchProofs`.** `Accounts` (the reservation is the number of Runs leased or settled), `Streams`, `Fresh` (how old what
the loop read may be at each of its places), `Queue`, `Batch`, `Parallel`. Theorems: `TypeCorrect`, `DeliversWhole`, `AwaitsLeased`, `PlansWanted`,
`WithdrawsOnlyPlanned`, `StaysParallel`, `CallKeepsPromise`.

**`StorageAdmissionProofs`.** `Alive`, `Holder` (only the client that holds the lock decides), `Estimate` (what it has added up and
measured bounds what is owed and free now). Theorems: `TypeCorrect`, `KeepsMargin`, `CoversWork`.

**`EnvironmentCacheProofs`.** `Marked` (a marker names whoever works under it, until a late heartbeat overwrites it), `Fates` (whose
installer may run on alone), `Idle`, `Unowned` (what is planned for deletion belongs to no installer and no builder with its marker), `Kept` (what a collection has
read protects what it found). Theorems: `TypeCorrect`, `KeepsWork`, `KeepsSeen`, and `ActiveIsFound`: `LaunchFindsEnvironment`
is refuted (section 11), but it holds of an environment that every collector reads in the pointer.

**Model-checked only.** All liveness, which is outside what the prover supports:
`FinishedWorkArrives`, `PauseDrains`, `CancelStopsWork`, `LimitedJobsFinish`, `Arrives`, `AcceptedWavesFinish`, `CapacityReturns`, `DrainReleases`,
`LoopEnds`, `FittingIsAdmitted`, `TrashGoes`, `OrphansGo`.

## 11. Where code and documentation disagree

One has a run of its own: **a cancelled direct Job can go on** (`supervisor_terminal`, `ProcessSupervisor.py:318`). The
supervisor writes QUEUED or RUNNING over CANCELLED from an older read.

The others are definitions that TLC refutes; add the definition named to the cfg given.

| Definition | Where | What happens |
|---|---|---|
| `NeverSubmittedTwice`, `StudyRecovery.cfg` | `StudyCoordinator.py:379`, `:687` | after an ambiguous submission, a loss proof and `retry_lost`, the new lease of the Run makes the *old* shard pass the tests of `unsubmitted_shards` and of the fence, and the driver submits it again ("never automatically submit twice", line 670; "ambiguous acceptance is never resubmitted", line 373) |
| `CancelSucceedsWhenStopped`, `SupervisorTerminal.cfg` | `ProcessSupervisor.py:392` | a cancellation looks for the process identity in what it read before its own write, and can return while the child lives |
| `DrainKeepsAccepted`, `MemberEnds.cfg` | `work/member.py:436`, `:465`, `PreparedShardExecutor.py:793` | a wave accepted after the last glob and before the drain is never executed |
| `NoSpareWhileBusy`, `MemberEnds.cfg` | `work/member.py:389`, `:412` | an offer whose slots were counted before a wave was taken is published after it, with the leases of that wave: `plan_shards` subtracts only leases it does not acknowledge, and leases up to twice the capacity |
| `LossIsReal`, `MemberOwner.cfg` | `PreparedShardExecutor.py:673`, `:678`, `:681` | results are read before the state of the Job, which finishes and ends in between: a loss is reported although the results exist |
| `ChunksAreAccounted`, `StreamDelivery.cfg` | `work/fleet_stream.py:80` | the size of an answer is older than its bytes |
| `BudgetRaiseIsTrue`, `DispatchLoop.cfg` | `work/coordinated_dispatch.py:459` | "Study budget exhausted with required evidence still pending." is raised of a Study all of whose results were accepted and only wait for the end of their streams (comment at line 213) or for the next round |
| `OrphansAreReclaimed`, `EnvironmentCollection.cfg` | `StorageOperations.py:467`, `:625` | a controller dies between the choice of candidates and the removal of markers: its marker goes, its temporary prefix stays as "unresolved-temporary-owner" (`src/docs/STORAGE.md:101` promises its removal) |
| `EveryBuilderKeepsItsWork`, `EnvironmentCollection.cfg` | `CacheBuildLease.py:84` | a heartbeat that outlives its timeout writes its controller's name into the marker of the next builder; the controller exits, and a collector takes marker and temporary prefix for an orphan's. Line 73 says only that a failed heartbeat never *deletes* an unrelated lease |
| `OwnerlessMarkersGo`, `EnvironmentCollection.cfg` | `StorageOperations.py:774`, `CacheBuildLease.py:48` | a marker without `owner.json`, left by a collector killed inside `rmtree` or an acquisition cut short, is nobody's orphan: it blocks its environment, and every prune, for ever |
| `LaunchFindsEnvironment`, `EnvironmentCollection.cfg` | `ControlPlane.py:342` | between the release of its marker and its Job directory nothing protects an environment but the pointer |

Without the condition `~overtaken`, TLC refutes on the constants of `StudyOperator.cfg` also `LiveIsOwned`, `FinishedIsAcceptable`, `PauseIsQuiescent`,
`WithdrawnNeverSent` and `ImplementsExclusiveRuns`: a lease is withdrawn from a draining member, the Run is leased anew, and the old shard is sent beside the new one. With three attempts
(one Run, one cluster, `MaxAttempts` and `MaxRetries` 3) `AcceptedIsFinal`, `Accounting` and `NoOverbooking` go the same way: the rejection of an old shard
overwrites a completed Run and refunds an attempt that was spent.

Leases of a Job whose child could not be stopped go back while it computes (`ProcessSupervisor.py:236-242`). If the child's identity was read, `state.json` warns of it; if not, nothing does.
A marker whose controller's process id has been reused is no orphan's (`StorageOperations.py:718`, `Recycled`), which `STORAGE.md` does not mention.

Three ways in which the dispatch loop raises are visible in `error` of `CoordinatedDispatch`: a pull for a
shard that is not in the member's inbox raises a `RuntimeError` that line 245 does not catch
(`"pull"`); a planner that brings back a Run it withdrew meets "Planner refill repeats" although `enqueue` has a branch for it
(`"repeat"`); a proposal while a pause drains raises (`"proposal"`). `streams[key]` stays bound to the first attempt of a Run.

Observed while modelling and not checked by a run:

* `PreparedShardExecutor.submit` refuses every attempt but the first (line 121), so a Run that was withdrawn before
  it was sent, and planned again, is always rejected.
* The rejection branch of `submit_shard` writes `attempts[-1]`, the acknowledgement branch the
  exact lease. The model keeps the difference (`SubmitRejected`) and is safe because a refused lease is not
  reported lost while its submission awaits the answer (`Lost`).
* The retry bound counts attempts that were withdrawn and never ran (`RetryLost`).
* No executor in the repository issues loss proofs; `retry_lost`, `set_member_state`, `update_fleet`
  and `request_pause` have few or no callers outside tests. They are modelled as the public operations they are.
* `ContradictoryEvidenceError` leaves `reconcile`, and with it the dispatch loop, at the first contradictory envelope.

## 12. What is abstracted or left out

* **Ledger.** Payloads, digests and definitions are identities. The broker's filters on equivalence,
  GPU model, memory, storage and freshness are the constant `Compatible`; its score is a free
  choice. `enqueue` of several Runs is several `Enqueue`s. Files of results are
  written before the ledger names them, by digest; the model has the ledger's step alone.
* **Supervisor.** Storage admission answers freely. A lack of RAM, or a lock that times out, is a
  refusal that may happen at any time. Lease files of dead supervisors stay and are ignored, where the code
  deletes them. `_terminate` is one step, which succeeds, raises into `Fail` from the monitor, or fails at the end (`TerminateFails`). An
  exception raised by the handler of an exception, or by the release of a lease, is left out.
  The driver tool reports any subset of the GPUs that orphans use; processes foreign to LambdaForge are
  left out. `inventory` reads only. Each Job is launched once, as its directory is fresh.
* **Streams.** A record stands for its bytes, an offset counts records and half of a record is the flag `torn`;
  compression and digests are left out.
* **Allocation.** Identity, size and quota checks of manifests are constants; the order in which the worker's own
  dispatcher starts the Runs of a wave is free; pruning of a Run is its stop file.
* **Loop.** One Run per shard, one call, the mode of one persistent member per cluster. The planner is
  free within what `observed` (`work/runner.py:4425`) can return.
* **Volume.** One volume, bytes in units, no inodes, no corrupt or foreign leases; `observe` reads only.
* **Environments.** The content address of a prefix is its name, `prune_environments` keeps the caller's own environment only,
  the interpreter a collector runs in is ignored, the Job directories are read in one step, and a release is atomic unless a heartbeat is under way.
  A heartbeat is as old as its controller is dead: the minute before a dead owner's marker counts as stale is not modelled. The process scan of a collector
  sees an installer that runs on alone and a running Job; a living builder runs one command after another, and the scan may fall between two of them. The branch that reuses
  an environment an older version left under `.lambdaforge/environments` (`ManagedEnvironmentProvider.py:109-130`), where the pointer names a path outside the collected root, is left out.
* **Not modelled.** Section 1.1 names every component and `components` in `PROJECT.json` gives the reason for each.
  Most of the 124 000 lines are numerics (search, training, models, analysis), configuration, result formats and
  presentation, where a state machine has nothing to say or TLC cannot follow (real arithmetic); the
  protocols modelled here are a few thousand lines. The share of lines covered is small for that
  reason and would not become large if the list at the end of section 2 were done.

## 13. Running it

    tlc -workers 2 -config StudyRecovery.cfg MCStudyCoordinator
    tlc -workers 2 -config SupervisorControl.cfg MCProcessSupervisor
    tlc -workers 2 -config StreamDelivery.cfg MCScalarStream
    tlc -workers 2 -config MemberOwner.cfg MCMemberAllocation
    tlc -workers 2 -config DispatchLoop.cfg CoordinatedDispatch
    tlc -workers 2 -config StorageVolume.cfg MCStorageAdmission
    tlc -workers 2 -config EnvironmentCollection.cfg MCEnvironmentCache
    tlapm StudyCoordinatorProofs.tla

and `tlapm` likewise for the other modules named `...Proofs`. `PROJECT.json` lists the runs, the source
lines each definition stands for (`map`), and for every property a variant of one definition that violates
it (`mutants`). The variants stand beside the definitions they vary and are used nowhere in the specifications.
