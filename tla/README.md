# The coupled CFD-ANCF driver in TLA+

The repository couples a flexible riser (an ANCF finite-element structure) with
two-dimensional CFD slices along its length (OpenFOAM processes).  Its core is
a distributed transaction per coupling step: a Python driver publishes motions
to the slices, waits until they are consumed, lets every slice advance, reads
the loads, corrects the structure, and makes the step durable by publishing one
checkpoint manifest.  Processes, files and markers can fail in the middle.
These modules state what the driver promises and check and prove it.

Paths below are relative to `src/src/coupling/` unless they begin with `src/`.

## 1. Inventory

| Component | State it keeps | Operations | Hard behaviour | What makes it correct |
|---|---|---|---|---|
| Multi-slice driver, `multi_slice_driver/scheduler.py` | transaction state, `last_committed_step`, previous forces, `_active_correction`, `_active_checkpoint` | `run_step`, `recover_from_checkpoint`, `restore_from_checkpoint` | parallel slice calls under three executors, failure at any call, crash anywhere, a publication that raises after it has happened | one global barrier per step; nothing half-committed; recovery continues the same trajectory |
| Exchange files, `multi_slice_driver/protocol.py` | payload, ready and consumed marker per slice, step and kind | `publish_payload`, `_wait_ready`, `publish_consumed` | two renames per publication; files of an earlier attempt at the same step | a load is used only with the motion of its own attempt |
| Atomic checkpoint, `checkpoint/atomic_checkpoint.py` | committed manifests, structure states, hashes of the CFD time directories | `prepare`, `commit`, `load_restart` | partial writes; time directories overwritten by a re-run step | the manifest is the only commit point; what it names can be restored |
| Persistent structure: `persistent_ancf/adapter.py`, `persistent_ancf/runner.py`, `persistent_ancf_matlab/persistent_ancf_worker.m` | committed, predicted and corrected state and their token in the MATLAB worker; pending state and token in the adapter; `_failed` in the client | predict, correct, save, finalize, discard, load | a second process behind request and response files; timeouts, exits, lost answers, late execution | the worker is never ahead of the disk, and in step with the driver |
| OpenFOAM slice process: `multi_slice_driver/real_process.py`, `multi_slice_real_campaign/campaign.py`, `stage4d_medium_campaign/campaign.py`, `performance_optimization_v2/openfoam_persistent.py`, `src/src/openfoam/ancfFileMotion/ancfFileMotion.C` | bridge files, target and acknowledgement files, the solver process | begin, publish the motion, wait for the acknowledgement, take the load, finish, stop | stale acknowledgements, a polling C++ reader, a solver that dies, hangs or is slow, restarts | the mesh moves by this step's target and no other; the load answers it |
| Process limiter, `process_control/process_limiter.py` | permits, managed processes | acquire, start, watch, shutdown | watcher thread against forced shutdown | a permit is released exactly once; the limit is never exceeded |
| Stabilization hook, `stage4f_c_*_production*/hook.py` | filter state, lineage of parents | apply, commit, rollback | state that must roll back and restart with the step | filter state and force history continue the same commit |
| Strong coupling, `strong_coupling/`, `stage4f_c_strong_coupling_preflight_v1/`, `stage4f_c_predictor_consistent_strong_v2/` | candidate ledger, the candidate's engine, the checkpoints | construct an engine, trial, judge, discard or promote, shut down | re-running one step many times from one base; an exception in any of these calls, also inside a handler | only the accepted candidate advances anything; every engine is shut down |
| C++ structure worker, `cpp_worker_persistent_ipc_v1/`, `cpp_worker_confirm_v1/` | request sequence, lifecycle state | send, receive, shutdown | framing, restarts, late answers | answer matched with its request; no use after failure |
| Persistent OpenFOAM workers, `performance_optimization_v1/`, `_v2/` | command ring, barrier generation | post, wait, barrier | reuse of one process over steps | no step starts before the barrier of the last |
| Session runner, `user_session_runner_v1/core.py` | segment state | launch, monitor, stop | processes that outlive their parent | one runner per segment |
| One-body online coupling, `online_file_coupling/` | handshake files | publish, wait, acknowledge | the same as the exchange files, one slice | as above |
| Structure and hydrodynamic numerics | arrays | time integration, mapping | floating point | outside these modules |
| Stage campaigns and closeout scripts | reports | one-off runs | none of their own | not modelled |

How they interact.  `run_step` calls the slice processes (in threads) and the
structure adapter (in its own thread).  Slice processes and driver share the
exchange directory; slice processes and checkpoint manager share the case
directories; the manager calls the structure's `export_*` and, in a restart,
the `restore` of every slice and the structure's `load_checkpoint`.  The
persistent adapter turns each structure call into one or two commands of the
client, which exchanges files with the worker process.

## 2. Modules

| Module | Models | |
|---|---|---|
| `CommitTree` | abstract: a run is a tree of durable commits | specification |
| `MultiSliceScheduler` | driver, exchange files, checkpoints, mock slices and structure, crashes and restarts | implements `CommitTree`, keeps `StagedStructure` |
| `StagedStructure` | abstract: the structure as the driver sees it: stage, finalize when durable, discard, load | specification |
| `PersistentAncf` | adapter, client and MATLAB worker under the calls of the driver | implements `StagedStructure` |
| `ProcessLimiter` | permits, launches, children, watcher threads, forced shutdown | specification |
| `MotionExchange` | abstract: every slice is given its motion, then answers it, then the step is committed | specification |
| `OpenFoamSlice` | the slice adapters, their case directories and the solvers, with four engines | implements `MotionExchange` |
| `FixedPoint` | abstract: the ledger's rule for the candidates of a step | specification |
| `StrongCoupling` | both fixed-point programs with their engines and the structure's runner (`VariableStepRunner`) | implements `FixedPoint` |
| `MCScheduler`, `MCPersistentAncf`, `MCProcessLimiter`, `MCOpenFoamSlice`, `MCStrongCoupling` | bases of the TLC runs | |
| `CommitTreeProofs`, `MultiSliceSchedulerProofs`, `MultiSliceStructureProofs`, `MultiSliceCoherenceProofs`, `PersistentAncfProofs`, `ProcessLimiterProofs`, `OpenFoamSliceProofs`, `StrongCouplingProofs` | theorems | |

How they fit together.  `MultiSliceScheduler` sees a slice as calls that return
or raise and a structure as committed and staged states.  `OpenFoamSlice` opens
the first: its driver makes the same calls in the same order and its `Commit`
stands for everything the scheduler does from the correction to the manifest.
`PersistentAncf` opens the second: its driver's points "slices" and "publish"
stand for everything the scheduler does outside the structure.  `StagedStructure`
and `MotionExchange` are the two interfaces, stated without files or processes.
`StagedStructure` holds on both of its sides: `PersistentAncf` implements it with
a worker process, and `MultiSliceScheduler`, whose structure is the mock of the
tests, keeps it as the one who calls.
`StrongCoupling` drives a whole transaction as one trial.  The launches of the
limited engine in `OpenFoamSlice` are those of `ProcessLimiter`, reduced to its
limit.

### MultiSliceScheduler

*Data as versions.*  Every accepted `run_step` call is an attempt with its own
number; a motion, a load, a time directory, a structure state or a manifest is
the number of the attempt that computed it.  The code has no such number: it
knows things by case, configuration and step.  So the model can tell two
attempts at one step apart where the program must rely on its protocol, which
is what the coherence properties ask about.  A SHA-256 is the version: it
agrees exactly when the content does.

*State.*  `state` is `SchedulerState`; `busy` says that the driver is inside
`run_step`; `persisted` is its local `committed_persisted`; `active` and
`prepared` are `_active_correction` and `_active_checkpoint`; `tasks` and
`failed` are the futures of `_parallel_slice_map`; `motion` and `load` are the
files of the exchange directory; `timedir` the CFD time directories; `disk` the
committed manifests; `committed` and `staged` the two states of the structure;
`cfd` the state of each slice's solver.

*Actions.*  One per transition of `run_step` (Predict, Barrier, Correct,
Prepare, Commit, Finalize, Acknowledge), each with the action for its
exception.  `SliceCallReturns` and `SliceCallRaises` are the slice calls;
those of a map interleave under the two thread executors and run in order
under the sequential one, which stops at the first exception.  The executor of
a `with` block joins all calls before the exception leaves (`fork_join`); the
reused pool lets the first exception out while other calls run on (`pooled`).
`TornEffect` is what a call may leave behind when it is cut short: a payload
without its marker, a solver that moved without its load or its time
directory.  `Restart` is a new scheduler on the old directories, after a crash
at any point: nothing in memory survives, and every file does.

A call is atomic when nothing else reads its files before the map has
returned: within a phase, each slice works on cells of its own, and what a
concurrent observer could see in between is reached by `TornEffect` followed
by a crash or an error.

### PersistentAncf

*State.*  `phase` is the point of the driver: the call it waits in, a point
between two calls, or a resting state.  `waiting`, `broken`, `cached` are the
client inside `_call`, `_failed` and `_last_state`; `pending`, `token` the
adapter's `_pending_state` and `_runner_checkpoint_token`; `worker` the
variables of `persistent_ancf_worker.m` (19-30); `request` and `response` the two
directories, which hold at most one unread message because the client sends
one command at a time and no other after a failure; `files` the native `.mat`
files, 0 the pre-correction snapshot.  `_pending_token` is set and cleared with
`_pending_state` and has no variable of its own.

*Actions.*  `Handle` is one round of the worker's loop: take a request,
dispatch it, write the response, with one action per command, `RefuseCommand`
for a command the worker's state does not allow and `FailCommand` for one that
fails inside.  `Send`, `CannotSend`, `ReceiveError`, `SeeExit` and `TimeOut`
are `_call`; `Started` to `Loaded` are what adapter and driver do with a
complete answer.  The worker may execute a command after the client has given
up on it.  Everything a step does outside the structure (slices, validation,
publication) is the two points "slices" and "publish" and may raise at both.

### ProcessLimiter

*State.*  `caller`, `child` and `watcher` say where each call of `launch` (and
its `wait`), its process and its watcher thread are; `active`, `closed` and
`records` are `_active`, `_closed` and `_records`; `released` the permits whose
`_released` is set; `shut`, `todo` and `target` the loop of a forced shutdown.

*Actions.*  What is done under the condition is one action.  The flag of a
permit is outside it, so a release is three: test the flag, `Pop` the permit,
set the flag; launch's except clause, the watcher and shutdown all do it and
interleave.  A launch that finds the limit reached is parked until a notify
(`Wake`) and tests the limit again.  `LateException` is an exception between
the child's start and its watcher's; `launch` then gives the permit back and
leaves the child running.  `wait` joins the watcher for 5 s at most and gives a
killed child 5 s: with the fault "slow" `WaitReturns` does not wait for the
watcher, with "stuck" `WaitRaises` leaves a child alive, which may end later.  A
token that another thread has popped makes a watcher or a shutdown raise
(`_release`, "unknown permit").

### OpenFoamSlice

*State.*  `main` and `phase` are the driver's main thread and the slice call it
is making; `stage` is how far each slice's call has come: `begun`, seed
`written`, seed published (`armed`), solver `launched`, seed consumed (`seeded`),
target `aimed`, `published`, then `consumed`, `loaded` and `finished`, or
`raised`.  `bridge` and `load` are `last_bridge` and the row of forces taken;
`csv`, `ready`, `acks`, `forces` and `dirs` the files of the case, which driver
and solver share; `solver` the process with its start, end, current time, seed and
last motion.  A modification time is the number of the motion published last:
the code compares an acknowledgement's with a publication's and nothing else.

*Engines.*  `oneshot` starts a solver per step and slice, one slice after
another; `limited` does so under the process limiter; `persistent` keeps one
solver per slice, and serves the slices in parallel; `pooled` is the same with a
pool of threads that is kept.

*Actions.*  `SeedCsv` to `TargetReady` are `publish_motion` with each file it
writes, `TargetConsumed`, `TakeLoad` and `Finish` the other calls, `SeesExit` and
`TimesOut` the ways a wait ends otherwise.  `See`, `Read`, `Acknowledge`, `Solve`
and `Exit` are the solver: ancfFileMotion polls `motion_ready`, then reads
`motion.csv`, then acknowledges, and the time loop goes on.  These interleave
with the driver at every file.  `Crash` and `Hang` are a solver that fails,
`TimesOut` also a driver that gives up on one still at work ("slow").  `Stop` and
`Close` end a run, `Rerun` begins the next in a fresh case from the committed
step.

### StrongCoupling

*State.*  `version` says which program: "v1", the coordinator with its ledger
and `RealSidecarAdapter`, or "v2", `run_three_step`.  `pc` is the point of the
program, one per call that may raise; `rows`, `streak`, `prior` are what the
programs remember of the candidates; `store` the checkpoints on disk and `parent`
the one the step continues; `engine` the candidate's engine with the staged files
of its `VariableStepRunner`; `held` and `open` what is not yet disposed of; `hit` the
faults so far.

*Actions.*  A trial predicts, runs the flow and corrects, and delivers the
verdicts of the gates (`safe`, `near`, `cd`), which are free: residuals are real
numbers, and no rule of the programs depends on more than the verdicts.  `Reject`,
`Clear`, `Promote`, `Leave`, `Abort` and `Close` are the ways a candidate is
disposed of.  Each call they make may raise, within a handler too, and what it
leaves half done is kept (`HalfDiscarded`, a promotion whose checkpoint is
renamed into place but not noted by the engine).

## 3. Runs

| Run | Question | Bounds |
|---|---|---|
| `durable` | commit discipline, implementation of `CommitTree`, termination of `run_step`, with every fault | 2 slices, 2 steps, 3 attempts, 3 executors |
| `coherent` | what a manifest consists of and continues, and whether it can be restored | as above, without three faults (below) |
| `published` | violation: FAILED with the committed manifest on disk | 2 attempts |
| `commit_log` | violation: a step is committed twice | 2 attempts |
| `recover` | violation: recovery from another manifest | 2 attempts |
| `worker` | the production structure under every fault: contract, agreement, protocol, termination | 2 steps, 3 attempts |
| `limiter` | limit, accounting, shutdown, and that nobody waits for ever, with every fault | 3 launches, limit 2 |
| `late` | violation: a permit released while its child runs | 2 launches, limit 1 |
| `refinalize` | violation: the finalization inside a recovery is refused | 2 attempts |
| `openfoam` | freshness of acknowledgements and loads, restarts, what is left running, implementation of `MotionExchange`, termination of a step, for all engines and faults | 2 slices, 2 steps, 2 runs, 1 permit |
| `residual` | violation: a solver outlives its run | pooled engine, 2 slices, 1 step, crashes |
| `strong` | what both programs commit, discard and leave behind with every exception, implementation of `FixedPoint`, termination | 3 steps, 4 candidates |

*Why the bounds are enough.*  Two slices are the least at which one call
finishes before another fails; no rule of the code relates three.  Two steps
are the least at which a commit has a parent commit.  Three attempts allow a
commit of step 0, a failed or lost attempt at step 1, and its repetition over
the files the lost one left; or step 0 committed twice after a restart from
scratch, and a step 1 on top of one of them.  In `PersistentAncf` three
attempts allow a commit, a failing attempt with its discard and snapshot
reload, and a third after a restart.  In `ProcessLimiter` three launches with
limit 2 are the least at which one launch waits while shutdown has two permits
to release and loses one of them to a watcher.  In `OpenFoamSlice` two slices let
one call raise while another is under way, two steps let the files of one step
be stale in the next, the second run starts from a committed step whose
neighbour may be half done, and one permit is the least that makes a slice wait.
In `StrongCoupling` three steps are the program's own bound; a candidate can be
accepted at the second at the earliest, so four allow a rejection before and
between, and the iteration limit.  Nothing is assumed symmetric.

*Deadlock.*  `CHECK_DEADLOCK FALSE` in all runs: a FAILED scheduler is
terminal by design (a new one must be built), and the bound on attempts ends
every behaviour; the launches of `ProcessLimiter`, the runs of `OpenFoamSlice`
and the programs of `StrongCoupling` end too.  Progress inside a step is
`StepEnds` (two of that name), `CallEnds`, `LaunchEnds` and `Ends`.

*Fairness.*  Weak fairness of `SchedulerStep` and `SliceCall`: `run_step` is a
straight line in one thread, every call of a slice returns, raises or reaches
its timeout (`_wait_ready` and the managed processes all have one), and
`as_completed` waits only for such calls.  No fairness for `RunStep`, recovery
or `Restart`: nobody is bound to call them.  Weak fairness of `CallStep` and
`StepStep` in `PersistentAncf`: `_call` polls until its deadline, so it ends
whatever the worker does; there is no fairness for the worker, which may hang.
Weak fairness of `LaunchStep` and `WatchStep` of each launch: they are threads,
and a child ends by itself or at the timeout its caller gave `wait`, if not at
once then some time after its kill.  None for
`TimesOut`, since `acquire` may wait without one, nor for shutdown.  In
`OpenFoamSlice`, weak fairness of `Main`, and of `Call` and `Compute` of each
slice, which are threads and processes that run; deadlines are bound to pass
only when a solver hangs, and giving up on one that works, crashing and a new
run are never bound to happen.  `StrongCoupling` is one thread whose waits all
have a timeout: weak fairness of `Next`.

*Properties.*  In `durable`: `CommitInv` (section 4), a part of which is
`StructureDurable`, the structure's committed state is always the initial one or
that of a manifest; `FailedIsQuiet`, no slice call runs on after FAILED, which
excludes the reused pool, where it is false; `ImplementsCommitTree`;
`ImplementsStaging`, the driver keeps the structure's contract: nothing is staged
over another correction, finalized before it is durable, or restored from what is
not; `StepEnds`.  In `coherent`:
`ManifestsCoherent`, structure, CFD and loads of a manifest are of one attempt;
`LineageContinuous`, its three parts continue one manifest of the step before;
`WayBack`, the manifest the run stands on, or must recover from, can still be
restored; `AcknowledgedBeforeCommit`, at the commit every motion and load was
acknowledged for this attempt's payload.  In `worker`: `InStep`, a ready driver
has a worker with its step, its state and nothing staged; `NativeMatchesJson`,
the native file and the JSON state of a manifest are the same state;
`CallsLegal`, no command is sent that the worker's state forbids, but for the
recovery's finalization; `ImplementsContract`; `CallEnds`.  In `limiter`:
`AdmissionBound`, no more children run than the limit, those of launches that
raised apart; `Accounted`, a permit is active or has exactly one record,
whichever threads release it at once; `ShutdownLeavesNothing`, after a shutdown
that returned no permit is in use; `PermitsOwned`, every permit in use has a
launch or a watcher that is still to give it back, also after a `wait` that gave
up on its watcher or on its child; `LaunchEnds`, every launch gets a permit or is
refused.  In
`openfoam`: `AcceptedIsRead`, an acknowledgement the driver accepts was written
after the solver had read exactly that motion, although step numbers and file
names repeat; `LoadAnswersMotion`, a load is of this step's time and motion, by a
solver with the committed seed; `NoFalseAlarm`, the checks of freshness never
reject what driver and solver do by themselves; `ContinuesCommitted`, a
committed step can be restarted in every slice and no solver is further than
one step ahead; `CleanExit`, no solver outlives its run outside the kept pool;
`StepEnds`; `ImplementsExchange`.  In `strong`: `HeldIsPromoted`, the adapter and the
coordinator, each from its own memory, agree on what is to be promoted;
`Coherent`, a checkpoint is of one candidate computed from its parent, and in v2
is the state that moved the meshes; `RestoresPredictor`, v2's rollback leads to
the frozen predictor; `OneEngine`; `OnlyLastOrphan`, the checkpoints are a chain
whose last may be unaccepted, after which nothing is begun; `CleanEnd`, every way
out by an `Exception` shuts the engine down (the handlers let a KeyboardInterrupt
through, which is not modelled); `PromotedNotDiscarded`; `Ends`; `Implements`.

*What the coherent run leaves out, and why.*  Three faults break some of these
properties in the code as it is; section 4 says which theorem needs which of them
excluded, and `WayBack` needs none.  A slice that returns from `advance_one_step`
without having written a load ("silent": `mocks.py:198`, or a solver that exits
early) lets an older attempt's load on the same exchange root be accepted, which
breaks `ManifestsCoherent`, `AcknowledgedBeforeCommit` and `LineageContinuous`.  The
other two break only `LineageContinuous`.  A failing log append of the transition
to COMMITTED ("commit_log") commits a step twice; the run `commit_log` shows it.  A restore that raises half-way in
`restore_from_checkpoint` ("restore") leaves an INITIALIZED scheduler at step
-1 whose slices have different states.  `durable` includes all three: its
properties hold in their presence.

## 4. Proofs

Every safety property of the passing runs is a theorem, for every value of the
constants, from the named assumptions of its module (sizes are positive, engines
and faults are among those listed).

### The driver

* `CommitTreeTheorem`: in the abstract specification every durable commit
  continues a durable commit of the step before, ids are unique, and the run
  stands on durable commits only.
* `TypeCorrect`: the type invariant of the driver.
* `CommitInvariant`: `CommitInv` is invariant.  It is inductive together with
  `TypeOK`, and says what the parts know of each other: `StateInv` (inside
  `run_step`, `persisted` holds exactly in COMMITTED or in CHECKPOINT_PREPARED
  with the prepared manifest on disk), `DiskInv` (one manifest per attempt, that
  of the running attempt present exactly when persisted), `StandsInv` (the
  scheduler's forces and step are those of one manifest), `PreparedInv` (the
  prepared manifest is that of the running attempt and of the staged state) and
  `StructureDurable`.  `StructureDurable` alone is not inductive: finalization
  makes the staged state committed, so one must know that in that state the
  staged state is the prepared manifest's, and the manifest on disk.
* `StructureIsDurable`: the corollary for the structure.
* `CommitTreeImplemented`: every step of the driver is a step of `CommitTree`
  or a stutter under the mapping at the end of `MultiSliceScheduler`.  The
  commit point is the appearance of the manifest; the run moves onto it when
  `run_step` has assigned its forces, or when a recovery has.

These proofs have one step per action and use the fact that slice calls change
only files and solvers, which these invariants do not mention.

`MultiSliceStructureProofs` goes on with the structure:

* `ManifestsFormTree`: what the manifests on disk inherit from
  `CommitTreeTheorem`: each continues a manifest of the step before.  With every
  fault.
* `StagingKept`: every step of the driver is a step of `StagedStructure` or a
  stutter, with every fault.  It needs `StagedInv`: from the
  correction to the finalization this attempt's correction is staged, and nothing
  is where a step may begin, so a rejected correction or a failed discard leaves
  its staged state only to a failed scheduler.
* `StructureContinues`: the structure state in a manifest was computed from that
  of the manifest its forces belong to.  Only the failing log append of COMMITTED
  is excluded: there the finalized structure is ahead of the forces (`ForcesInv`).
* `CommitsOnce` and `FailuresAreHandled`: `NoSecondCommit` and `NoUnhandledCommit`,
  the two properties the runs `commit_log` and `published` refute, hold when exactly
  the fault of that run is excluded, whatever else goes wrong.

The properties of the files need more, in `MultiSliceCoherenceProofs`.  Four
layers, each with no more faults excluded than it needs:

* `FailureIsQuiet`: `FailedIsQuiet`, with every fault, from `CallsInv`: the calls
  in flight belong to the phase the transaction is in.
* `WayBackIsKept`: with every fault.  A re-run step overwrites time directories, so
  one must know that it overwrites those of the step after the one the scheduler
  stands on, in a failed transaction too (`FailedStepInv`), and that the running
  attempt can be restored once it is persisted (`PersistedInv`).
* `ManifestsAreCoherent` and `CommitIsAcknowledged`: without the silent slice.
  `TraceInv` says for each slice what its returned calls have left in the files and
  in its solver (the barrier makes that a function of the phase for all slices
  together), `FilesInv` carries it to the prepared manifest and those on disk.
* `SolversOnTheLine` and `LineageIsContinuous`: without the three faults below the
  table of runs (`Reliable`).  Between transactions the solvers are where the
  scheduler stands, inside one they have moved from there or not (`MovedInv`); with
  `StructureContinues`, the three parts of a manifest continue one manifest.

### The structure

`PersistentAncfProofs`: `WorkerTypeCorrect`, `DriverInStep`, `TwoRecordsAgree`,
`ProtocolKept` and `StructureImplemented`, for every set of faults.  The invariant
says for each command what the worker is like before it and after it.  It hangs
on the request, not on the driver's phase: a command is before its execution
until the worker has handled it, long after the client may have given up.  Of a
worker the client has given up on nothing else is known, and nothing else is
needed: the client sends it no other command, and a restart has a new worker.

`WorkerNeverAhead` is what the contract promises and the worker inherits: its
committed state can always be found on disk.  `RecoveryNeedsRestart` says that what
the run `refinalize` shows once is so in every recovery: the load leaves nothing
staged, the finalization after it is refused, and RECOVERY_REQUIRED is left only by
a restart.

### The slices

`OpenFoamSliceProofs`: `SliceTypeCorrect`, `StaleAckNeverAccepted`,
`LoadsAnswer`, `AlarmsAreTrue`, `CommittedContinues`, `RunsEndClean` and
`ExchangeImplemented`.  The invariant is one predicate per slice: where the
solver can be relative to the motion published last (dormant, has not read it,
has acknowledged it and waits, is computing, is through), which acknowledgements
and rows exist then, and which of these places the stage of the call allows.  A
call that has raised leaves the solver where it was, so the places themselves do
not mention the stage.  That a step number's acknowledgement is of this
publication follows from the removal of the old file before the publication,
and from `acks` having no entry beyond the solver's time.

`SlicesInLockstep` is what every engine inherits from `MotionExchange`: no slice is
more than a step ahead, no load is taken before all motions are given.
`OnlyLateLaunchesRemain` names the one way a solver outlives its run, the one of the
run `residual`, and `FaultlessRunsEndClean` says that it takes a fault.

### The limiter

For any finite set of launches, any limit and any faults:
`LimiterTypeCorrect`, `PermitsAccounted`, `ShutdownComplete`, `NoPermitOrphaned`,
`Admission` and `StrictAdmission` (without the exception between start and
watcher the limit holds for all children).  The inductive invariant is `TypeOK`
and `PermitsOwned` with `ThreadInv` (where a thread can be, given its child),
`ReleaseInv` (a permit whose flag is set is no longer active), `ShutInv` (what
shutdown still has to release is on its list), `AccountInv` (`Accounted`, and
whose the records are), `PermitInv` (until a shutdown, the launches of `Counted`
hold permits) and the bound on `Counted`, the launches that have a child or a
permit to start one.  `AdmissionBound` is not inductive: an acquire keeps it
because until a shutdown the children hold permits, of which there are fewer
than the limit; after one nobody acquires, so the children only get fewer.
`SlotsHeldByChildren`: the property the run `late` refutes holds when the exception
of that run is excluded.  `WaitFreesPermit`: after `wait` the permit is free
(`WaitReleases`), if the faults "slow" and "stuck" are excluded; with either of
them it is not, and `NoPermitOrphaned` is what remains.

### The strong coupling

`StrongCouplingProofs`, for any number of steps and candidates and any calls
raising, in six layers, each proved from those before: `TypeInv` (types, and
room for another candidate), `Chain` (the checkpoints; `OrphanIsLast`), `Verdict`
(what is held and remembered agrees with the rows; `VerdictsAgree`), `Alive` (who
is open where; `OneEngineAtATime`, `EndsClean`), `Prepared` (what the engine has
staged where it may be promoted; `RollbackIsPredictor`, `CheckpointsCoherent`),
`Disposed` (a promoted candidate is discarded only after two faults;
`PromotedIsKept`), and `Deciding`, from which every step of either program is a
step of the ledger or a stutter (`ProgramsImplementLedger`).  Both programs inherit
from the ledger that the committed candidate is the first that may be
(`FirstIsCommitted`).

### Model-checked only

Liveness: `StepEnds` of both modules, `CallEnds`, `LaunchEnds` and `Ends`.  They
hold only with fairness, and with it comes ENABLED, which the prover cannot reason
about.  `RecoversThatCheckpoint` and `FinalizeIdempotent`, which runs
refute, have no theorem under a weaker assumption: they fail in a recovery without
any further fault, and where no recovery happens they say nothing.

## 5. What the violations say

Section 4 has the other half of four of them: with that one fault excluded, the
property holds for every value of the constants (`published`, `commit_log`, `late`,
`residual`).

* `published`: `run_step` does not look at `CommittedPublishError.published`, so
  a commit that raised after its manifest was in place is handled as if it had
  not happened.
* `commit_log`: `_transition` assigns the state before it appends to the log.
* `recover`: `recover_from_checkpoint` does not compare the manifest it is given
  with the transaction that needs the recovery.
* `refinalize`: the persistent adapter keeps the old transaction's token over
  `load_checkpoint` and its `finalize_committed` is not idempotent, so a
  recovery with it raises; a restart is the way out.
* `late`: the except clause of `launch` releases the permit of a child that has
  been started and is not stopped, so more children than the limit can run; the
  module's docstring says that the slot is released by the child's watcher.
* `residual`: the reused pool lets an exception out while other slices' calls
  run on; the engine's shutdown stops the processes first and closes the pool
  last, so a call still on its way starts a solver that nobody stops.

The three faults that the coherent run leaves out (section 3) belong here too,
and these, which no run shows, because no document says otherwise or because it
takes two faults:

* In v1 the ledger refuses a blank reason for a failure: its ValueError leaves
  the coordinator before it has blocked the step (`status` "raised").
* In v2 an exception of the shutdown in `finally` leaves `run_three_step`.
* A candidate can be promoted on disk and recorded as discarded when the
  promotion raises after its rename and the shutdown raises too; this is the
  condition of `PromotedNotDiscarded`.
* `discard_staged` of the adapter loads the prediction as the runner's committed
  state; nothing uses that engine afterwards.
* `ManagedProcess.wait` goes on after 5 s of waiting for the watcher, and raises 5 s
  after a kill whether or not the child has ended, so the permit may still be in
  use when it comes back (`WaitFreesPermit` excludes both).

## 6. Not modelled

* *Numerics*: the finite elements, the mapping of `multi_slice_mapping`, the
  stabilizing filter, residuals, gates and relaxation, OpenFOAM.  They are
  floating point from end to end; a verdict computed from them is a free choice.
* *Campaign, evidence, forensic and closeout scripts*, some ninety packages and
  the larger part of the source lines: one-off sequential programs that call the
  components above, compute statistics of their results and write reports.  They
  keep no state between steps.
* *The stabilization hook's lineage.*  `restore_from_checkpoint` leaves
  `_committed_checkpoint_path` unset, so the first stabilized checkpoint after it
  has no parent and its commit is refused; `bind_restart_source` is the repair
  (`src/docs/17_*failure_report.md` and `src/docs/31_*failure_report.md` tell of
  it).  What the hook adds to the transaction is more reasons to refuse a
  correction or a commit, which the faults "reject" and "publish" stand for; the
  parents themselves are not in the manifests of the model.
* *The C++ structure worker* (`cpp_worker_persistent_ipc_v1/`,
  `cpp_worker_confirm_v1/`): a second, bounded driver with a resident process
  behind a pipe.  It predicts, advances all slices, corrects, writes one
  checkpoint and finalizes; any exception is terminal, and it never restarts from
  its own checkpoints.  `MultiSliceScheduler` does not reach it.
* *The workers and barrier of `performance_optimization_v1/`*: synthetic workers
  for a benchmark.
* *The session runner* (`user_session_runner_v1/core.py`): one loop in one thread
  that runs one probe per contract file and writes its status.
* *The one-body coupling* (`online_file_coupling/`): the exchange files with one
  slice, superseded.
* Parts of modelled components: `committed_step` of the constructor, the schema
  checks and the reuse of hashes by the checkpoint manager; the worker's
  heartbeat, get_state, prepare_checkpoint and shutdown commands and the process
  registry; two clients of that worker on one request directory (`run_campaign` gives
  each its run root's `matlab_worker`, and whether a root is used twice is up to its
  callers); the clock of the limiter's records; the materialisation of cases,
  their staging in WSL, native staging and archive; in `PersistentAncf` the
  failing log append (it is in the driver's module).

## 7. Plan

Done: the driver and its commit tree, the persistent structure, the limiter, the
OpenFOAM slices, the strong coupling, and proofs of all their safety properties.

What could follow, in this order:

1. `StabilizedLineage`: the hook's begin, commit and rollback and the parent
   fields of the manifests inside `MultiSliceScheduler`, with the restart sources.
2. `CppConfirm`: the C++ worker's adapter and lifecycle under `CppConfirmRun` and
   its barrier, whose staged state should implement `StagedStructure`.
3. The messages of `performance_optimization_v1/ipc.py` and its barrier.
4. The session runner.
