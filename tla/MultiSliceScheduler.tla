------------------------ MODULE MultiSliceScheduler ------------------------
(***************************************************************************)
(* The explicit weak-coupling transaction of the multi-slice driver:       *)
(* MultiSliceScheduler.run_step with its parallel slice calls, the         *)
(* step-keyed exchange files, the two-phase checkpoint, the staged         *)
(* structure, recovery, and restart by a new scheduler.                    *)
(*                                                                         *)
(* Data are abstracted to versions.  Each accepted run_step call is an     *)
(* attempt with a number of its own; whatever is computed in an attempt    *)
(* (a motion, a load, a CFD time directory, a staged or committed          *)
(* structure state, a manifest) carries that number, and 0 stands for      *)
(* "absent" in a file and for the initial condition in a state.  The code  *)
(* has no such number: it identifies everything by case, configuration and *)
(* step, so two attempts at one step are told apart only by what the       *)
(* protocol does.  A payload hash is the version: markers and payloads     *)
(* agree exactly when their versions do.                                   *)
(***************************************************************************)
EXTENDS Integers, FiniteSets

CONSTANTS NSlices,      \* number of slices, with slice_id 0 .. NSlices-1
          MaxStep,      \* bound: the last coupling step
          MaxAttempts,  \* bound: run_step calls accepted over all schedulers
          Modes,        \* the executors a scheduler may be constructed with
          Faults        \* what may go wrong (AllFaults below)

AllModes == {"sequential", "fork_join", "pooled"}

AllFaults ==
  {"call",        \* a call on a slice or on the structure raises or times out
   "torn",        \* a slice call raises after part of its effect
   "silent",      \* advance_one_step returns although no load was produced
   "reject",      \* the scheduler rejects the correction the structure returns
   "discard",     \* discard_staged raises
   "publish",     \* the commit raises before the manifest is in place
   "published",   \* the commit raises although the manifest is in place
   "finalize",    \* finalize_committed raises
   "commit_log",  \* the log append of the transition to COMMITTED raises
   "recover",     \* a restore raises during recover_from_checkpoint
   "restore"}     \* a slice's restore raises during restore_from_checkpoint

ASSUME SizeAssumption == /\ NSlices \in Nat \ {0}
                         /\ MaxStep \in Nat
                         /\ MaxAttempts \in Nat
ASSUME EnvironmentAssumption == /\ Modes \subseteq AllModes
                                /\ Modes # {}
                                /\ Faults \subseteq AllFaults

Slices   == 0..(NSlices - 1)
Steps    == 0..MaxStep
Attempts == 1..MaxAttempts
Versions == 0..MaxAttempts

States == {"INITIALIZED", "PREDICTED", "MOTION_PUBLISHED", "MOTION_CONSUMED",
           "CFD_ADVANCED", "LOADS_READY", "LOADS_CONSUMED",
           "STRUCTURE_CORRECTED", "CHECKPOINT_PREPARED", "COMMITTED",
           "RECOVERY_REQUIRED", "FAILED"}

\* The states in which every slice has a call to make, and the call.
SliceOp == [PREDICTED        |-> "publish_motion",
            MOTION_PUBLISHED |-> "wait_motion_consumed",
            MOTION_CONSUMED  |-> "advance_one_step",
            CFD_ADVANCED     |-> "read_load",
            LOADS_READY      |-> "publish_load_consumed"]

\* The state the transaction enters when all of these calls have returned.
AfterSlices == [PREDICTED        |-> "MOTION_PUBLISHED",
                MOTION_PUBLISHED |-> "MOTION_CONSUMED",
                MOTION_CONSUMED  |-> "CFD_ADVANCED",
                CFD_ADVANCED     |-> "LOADS_READY",
                LOADS_READY      |-> "LOADS_CONSUMED"]

SliceStates == DOMAIN SliceOp
Ops         == {SliceOp[st] : st \in SliceStates}

VARIABLES
  state, mode,            \* scheduler: transaction state, executor
  busy,                   \* scheduler: inside run_step
  last, forces,           \* scheduler: last_committed_step and the version of
                          \*   previous_slice_forces_N
  cur, att,               \* the step and the number of the latest attempt
  persisted,              \* run_step's committed_persisted
  active, prepared,       \* scheduler: _active_correction, _active_checkpoint
  tasks, failed,          \* slice calls in flight; slices whose call raised
  got,                    \* the loads run_step has read, per slice
  committed, staged,      \* structure: committed state, staged correction
  cfd, cfdFrom,           \* slice solvers: state, and the state it came from
  motion, load,           \* exchange directory: files per slice and step
  timedir,                \* case directories: CFD time directory per step
  disk                    \* checkpoint root: the committed manifests

control   == <<state, mode, busy, last, forces, cur, att, persisted>>
calls     == <<tasks, failed, got>>
structure == <<committed, staged>>
solvers   == <<cfd, cfdFrom>>
files     == <<motion, load, timedir>>
vars      == <<control, active, prepared, calls, structure, solvers, files, disk>>

\* One step's exchange files of one kind for one slice.
Cells == [payload : Versions, ready : Versions, consumed : Versions]
NoCell == [payload |-> 0, ready |-> 0, consumed |-> 0]

\* A checkpoint manifest.  struct, cfd and loads are the versions stored;
\* the ...From fields are the versions these were computed from.
Manifests == [att : Versions, step : Steps,
              struct : Versions, structFrom : Versions, forcesFrom : Versions,
              cfd : [Slices -> Versions], cfdFrom : [Slices -> Versions],
              loads : [Slices -> Versions]]

Zero == [s \in Slices |-> 0]

\* _active_checkpoint is None.
NoManifest == [att |-> 0, step |-> 0, struct |-> 0, structFrom |-> 0,
               forcesFrom |-> 0, cfd |-> Zero, cfdFrom |-> Zero, loads |-> Zero]

Tasks == [slice : Slices, op : Ops]

Init ==
  /\ state = "INITIALIZED" /\ mode \in Modes
  /\ busy = FALSE /\ persisted = FALSE /\ active = FALSE
  /\ last = -1 /\ cur = 0 /\ att = 0 /\ forces = 0
  /\ prepared = NoManifest
  /\ tasks = {} /\ failed = {} /\ got = Zero
  /\ committed = 0 /\ staged = 0
  /\ cfd = Zero /\ cfdFrom = Zero
  /\ motion = [x \in Slices \X Steps |-> NoCell]
  /\ load = [x \in Slices \X Steps |-> NoCell]
  /\ timedir = [x \in Slices \X Steps |-> 0]
  /\ disk = {}
-----------------------------------------------------------------------------
(* run_step: acceptance, prediction and the parallel slice calls.          *)

\* _parallel_slice_map submits one call per slice.
Submit(st) == {[slice |-> s, op |-> SliceOp[st]] : s \in Slices}

RunStep ==
  /\ ~busy
  /\ state \in {"INITIALIZED", "COMMITTED"}
  /\ last + 1 \in Steps
  /\ att < MaxAttempts
  /\ state' = "INITIALIZED" /\ busy' = TRUE /\ persisted' = FALSE
  /\ cur' = last + 1
  /\ att' = att + 1
  /\ failed' = {} /\ got' = Zero
  /\ UNCHANGED <<mode, last, forces, active, prepared, tasks, structure, solvers, files, disk>>

\* _fail_precommit: a registered correction is discarded, then the state is
\* FAILED whether or not discard_staged raised.
FailPrecommit ==
  /\ state' = "FAILED" /\ busy' = FALSE
  /\ active' = FALSE /\ prepared' = NoManifest
  /\ \/ staged' = IF active THEN 0 ELSE staged
     \/ active /\ "discard" \in Faults /\ UNCHANGED staged
  /\ UNCHANGED <<mode, last, forces, cur, att, persisted, committed>>

Predict ==
  /\ busy /\ state = "INITIALIZED"
  /\ state' = "PREDICTED"
  /\ tasks' = Submit("PREDICTED")
  /\ UNCHANGED <<mode, busy, last, forces, cur, att, persisted, active, prepared, failed, got,
                 structure, solvers, files, disk>>

PredictFails ==
  /\ busy /\ state = "INITIALIZED" /\ "call" \in Faults
  /\ FailPrecommit
  /\ UNCHANGED <<calls, solvers, files, disk>>

\* The sequential executor calls slice after slice and stops at the first
\* exception; the two others run all calls of a map at once.
Runs(t) == mode = "sequential" => /\ failed = {}
                                  /\ \A u \in tasks : t.slice <= u.slice

\* A ready marker and a payload that agree: what _wait_ready accepts.
Readable(cell) == cell.ready # 0 /\ cell.ready = cell.payload

\* The files of the running step that a slice's calls work on.
At(t) == <<t.slice, cur>>

PublishMotion(t) ==
  /\ t.op = "publish_motion"
  /\ motion' = [motion EXCEPT ![At(t)] = [payload |-> att, ready |-> att,
                                          consumed |-> motion[At(t)].consumed]]
  /\ UNCHANGED <<got, solvers, load, timedir>>

WaitMotionConsumed(t) ==
  /\ t.op = "wait_motion_consumed"
  /\ Readable(motion[At(t)])
  /\ motion' = [motion EXCEPT ![At(t)].consumed = motion[At(t)].payload]
  /\ UNCHANGED <<got, solvers, load, timedir>>

\* The slice's solver moves one step under the motion the exchange directory
\* holds.
Move(t) == /\ cfdFrom' = [cfdFrom EXCEPT ![t.slice] = cfd[t.slice]]
           /\ cfd' = [cfd EXCEPT ![t.slice] = motion[At(t)].payload]

\* Mutant: one time directory, written by every step.
WriteTimeDirInPlace(t) == timedir' = [timedir EXCEPT ![<<t.slice, 0>>] = motion[At(t)].payload]

WriteTimeDir(t) == timedir' = [timedir EXCEPT ![At(t)] = motion[At(t)].payload]

\* The load of the new solver state, its ready marker last.
WriteLoad(t, ready) ==
  load' = [load EXCEPT ![At(t)] = [payload |-> motion[At(t)].payload, ready |-> ready,
                                   consumed |-> load[At(t)].consumed]]

AdvanceOneStep(t) ==
  /\ t.op = "advance_one_step"
  /\ Readable(motion[At(t)])
  /\ \/ Move(t) /\ WriteTimeDir(t) /\ WriteLoad(t, motion[At(t)].payload)
     \/ "silent" \in Faults /\ UNCHANGED <<solvers, load, timedir>>
  /\ UNCHANGED <<got, motion>>

\* wait_load_ready followed by read_load.
ReadLoad(t) ==
  /\ t.op = "read_load"
  /\ Readable(load[At(t)])
  /\ got' = [got EXCEPT ![t.slice] = load[At(t)].payload]
  /\ UNCHANGED <<solvers, files>>

PublishLoadConsumed(t) ==
  /\ t.op = "publish_load_consumed"
  /\ Readable(load[At(t)])
  /\ load' = [load EXCEPT ![At(t)].consumed = load[At(t)].payload]
  /\ UNCHANGED <<got, solvers, motion, timedir>>

SliceCallReturns(t) ==
  /\ Runs(t)
  /\ tasks' = tasks \ {t}
  /\ \/ PublishMotion(t)
     \/ WaitMotionConsumed(t)
     \/ AdvanceOneStep(t)
     \/ ReadLoad(t)
     \/ PublishLoadConsumed(t)
  /\ UNCHANGED <<control, active, prepared, failed, structure, disk>>

\* What a call that raises, or is cut short by a crash, may have done: a
\* payload without its ready marker; a solver that moved and left its time
\* directory or its load, in either order, but not both.
TornEffect(t) ==
  \/ /\ t.op = "publish_motion"
     /\ motion' = [motion EXCEPT ![At(t)].payload = att]
     /\ UNCHANGED <<solvers, load, timedir>>
  \/ /\ t.op = "advance_one_step"
     /\ Readable(motion[At(t)])
     /\ Move(t)
     /\ \/ WriteTimeDir(t) /\ UNCHANGED load
        \/ WriteTimeDir(t) /\ WriteLoad(t, load[At(t)].ready)
        \/ UNCHANGED timedir /\ WriteLoad(t, motion[At(t)].payload)
     /\ UNCHANGED motion

\* The call an operation cannot complete: its marker is missing or disagrees
\* with the payload, so the wait raises, at once or at its timeout.
Blocked(t) ==
  \/ t.op \in {"wait_motion_consumed", "advance_one_step"} /\ ~Readable(motion[At(t)])
  \/ t.op \in {"read_load", "publish_load_consumed"} /\ ~Readable(load[At(t)])

SliceCallRaises(t) ==
  /\ Runs(t)
  /\ tasks' = tasks \ {t}
  /\ failed' = failed \cup {t.slice}
  /\ \/ ("call" \in Faults \/ Blocked(t)) /\ UNCHANGED <<solvers, files>>
     \/ "torn" \in Faults /\ TornEffect(t)
  /\ UNCHANGED <<control, active, prepared, got, structure, disk>>

\* Mutants: the map waits only for its first exception; the results of the
\* calls are not asked for, so that no exception is seen.
AllReturnedUnjoined == failed = {}
AllReturnedUnasked  == tasks = {}

AllReturned == tasks = {} /\ failed = {}

\* The map returns and the scheduler enters the next state, the barrier of
\* the phase; the calls of the next phase are submitted.
Barrier ==
  /\ busy /\ state \in SliceStates
  /\ AllReturned
  /\ state' = AfterSlices[state]
  /\ tasks' = IF AfterSlices[state] \in SliceStates THEN Submit(AfterSlices[state]) ELSE {}
  /\ UNCHANGED <<mode, busy, last, forces, cur, att, persisted, active, prepared, failed, got,
                 structure, solvers, files, disk>>

\* Mutants: no executor joins its calls; the sequential map is waited for too.
JoinedNever  == TRUE
JoinedAlways == mode # "pooled" => tasks = {}

\* The executor of a with-block joins all its calls before it raises.
Joined == mode = "fork_join" => tasks = {}

\* The exception of a slice call leaves the map.  The sequential map makes no
\* further call; the reused pool lets the first exception out and its other
\* calls run on.
MapRaises ==
  /\ busy /\ state \in SliceStates
  /\ failed # {} /\ Joined
  /\ FailPrecommit
  /\ tasks' = IF mode = "sequential" THEN {} ELSE tasks
  /\ UNCHANGED <<failed, got, solvers, files, disk>>

\* All calls returned, but their results are rejected: the transaction set of
\* records is invalid, or the log cannot be written.
BarrierFails ==
  /\ busy /\ state \in SliceStates /\ "call" \in Faults
  /\ AllReturned
  /\ FailPrecommit
  /\ UNCHANGED <<calls, solvers, files, disk>>
-----------------------------------------------------------------------------
(* run_step: correction, two-phase checkpoint, acknowledgement.            *)

Correct ==
  /\ busy /\ state = "LOADS_CONSUMED"
  /\ staged' = att
  /\ active' = TRUE
  /\ state' = "STRUCTURE_CORRECTED"
  /\ UNCHANGED <<mode, busy, last, forces, cur, att, persisted, prepared, calls, committed,
                 solvers, files, disk>>

CorrectRaises ==
  /\ busy /\ state = "LOADS_CONSUMED" /\ "call" \in Faults
  /\ FailPrecommit
  /\ UNCHANGED <<calls, solvers, files, disk>>

\* The structure has staged a correction, but its answer is rejected (step,
\* time, finiteness, the stabilizer's veto) before _active_correction is set:
\* _fail_precommit then skips discard_staged.
CorrectionRejected ==
  /\ busy /\ state = "LOADS_CONSUMED" /\ "reject" \in Faults
  /\ staged' = IF active THEN 0 ELSE att
  /\ state' = "FAILED" /\ busy' = FALSE
  /\ active' = FALSE /\ prepared' = NoManifest
  /\ UNCHANGED <<mode, last, forces, cur, att, persisted, committed, calls, solvers, files, disk>>

\* AtomicCheckpointManager.prepare.
NewManifest ==
  [att |-> att, step |-> cur,
   struct |-> staged, structFrom |-> committed, forcesFrom |-> forces,
   cfd |-> [s \in Slices |-> timedir[<<s, cur>>]], cfdFrom |-> cfdFrom, loads |-> got]

Prepare ==
  /\ busy /\ state = "STRUCTURE_CORRECTED"
  /\ \A s \in Slices : timedir[<<s, cur>>] # 0
  /\ staged # 0
  /\ prepared' = NewManifest
  /\ state' = "CHECKPOINT_PREPARED"
  /\ UNCHANGED <<mode, busy, last, forces, cur, att, persisted, active, calls, structure,
                 solvers, files, disk>>

PrepareRaises ==
  /\ busy /\ state = "STRUCTURE_CORRECTED"
  /\ "call" \in Faults \/ \E s \in Slices : timedir[<<s, cur>>] = 0
  /\ FailPrecommit
  /\ UNCHANGED <<calls, solvers, files, disk>>

\* Every file a manifest names still has the hash the manifest records.
Restorable(m) == \A s \in Slices : timedir[<<s, m.step>>] = m.cfd[s]

\* Mutant: one checkpoint file, overwritten by every commit.
PublishedInPlace == {prepared}

\* The manifests on disk once the prepared one is published, under a name of
\* its own.
Published == disk \cup {prepared}

Commit ==
  /\ busy /\ state = "CHECKPOINT_PREPARED" /\ ~persisted
  /\ Restorable(prepared)
  /\ disk' = Published
  /\ persisted' = TRUE
  /\ UNCHANGED <<state, mode, busy, last, forces, cur, att, active, prepared, calls, structure,
                 solvers, files>>

\* The commit raises: validation fails, or the manifest cannot be written,
\* or it is in place and CommittedPublishError says published=True; run_step
\* treats the three alike.
CommitRaises ==
  /\ busy /\ state = "CHECKPOINT_PREPARED" /\ ~persisted
  /\ \/ ("publish" \in Faults \/ ~Restorable(prepared)) /\ UNCHANGED disk
     \/ "published" \in Faults /\ Restorable(prepared) /\ disk' = Published
  /\ FailPrecommit
  /\ UNCHANGED <<calls, solvers, files>>

\* Mutant: the structure is finalized before the manifest is published.
FinalizableEarly == busy /\ state = "CHECKPOINT_PREPARED"

\* finalize_committed is called in CHECKPOINT_PREPARED, the commit persisted.
Finalizable == busy /\ state = "CHECKPOINT_PREPARED" /\ persisted

\* finalize_committed: the staged correction becomes the committed state.
\* Idempotent: without a staged correction nothing changes.
FinalizeCommitted ==
  /\ committed' = IF staged # 0 THEN staged ELSE committed
  /\ staged' = 0

Finalize ==
  /\ Finalizable
  /\ FinalizeCommitted
  /\ state' = "COMMITTED"
  /\ UNCHANGED <<mode, busy, last, forces, cur, att, persisted, active, prepared, calls,
                 solvers, files, disk>>

FinalizeRaises ==
  /\ Finalizable /\ "finalize" \in Faults
  /\ state' = "RECOVERY_REQUIRED" /\ busy' = FALSE
  /\ UNCHANGED <<mode, last, forces, cur, att, persisted, active, prepared, calls, structure,
                 solvers, files, disk>>

\* The rest of run_step after the transition to COMMITTED.
Acknowledge ==
  /\ busy /\ state = "COMMITTED"
  /\ last' = cur
  /\ forces' = att
  /\ active' = FALSE /\ prepared' = NoManifest
  /\ busy' = FALSE
  /\ UNCHANGED <<state, mode, cur, att, persisted, calls, structure, solvers, files, disk>>

\* _transition sets COMMITTED before it appends to the log; when the append
\* raises, run_step leaves at once because the commit is persisted.
CommitLogRaises ==
  /\ busy /\ state = "COMMITTED" /\ "commit_log" \in Faults
  /\ busy' = FALSE
  /\ UNCHANGED <<state, mode, last, forces, cur, att, persisted, active, prepared, calls,
                 structure, solvers, files, disk>>
-----------------------------------------------------------------------------
(* Recovery, restart and crash.                                            *)

\* Mutants: the scheduler continues from next_step; the slices are not
\* restored.
RestoreFromNextStep(m) ==
  /\ m \in disk /\ Restorable(m)
  /\ cfd' = m.cfd
  /\ committed' = m.struct /\ staged' = 0
  /\ last' = m.step + 1
  /\ forces' = m.att
RestoreFromWithoutSlices(m) ==
  /\ m \in disk /\ Restorable(m)
  /\ cfd' = cfd
  /\ committed' = m.struct /\ staged' = 0
  /\ last' = m.step
  /\ forces' = m.att

\* load_restart, then the scheduler's own variables, all from manifest m.
RestoreFrom(m) ==
  /\ m \in disk /\ Restorable(m)
  /\ cfd' = m.cfd
  /\ committed' = m.struct /\ staged' = 0
  /\ last' = m.step
  /\ forces' = m.att

\* recover_from_checkpoint: any committed manifest is accepted.  Its call of
\* finalize_committed finds nothing staged.
Recover(m) ==
  /\ ~busy /\ state = "RECOVERY_REQUIRED"
  /\ RestoreFrom(m)
  /\ active' = FALSE /\ prepared' = NoManifest
  /\ state' = "INITIALIZED"
  /\ UNCHANGED <<mode, busy, cur, att, persisted, calls, cfdFrom, files, disk>>

\* A restore raises: the slices before it are restored, the structure is
\* loaded only after all slices.  The scheduler's own variables, assigned
\* after load_restart, and its state are as they were.
RestoreRaises(m, n, loaded) ==
  /\ ~busy
  /\ m \in disk /\ Restorable(m)
  /\ n \in 0..NSlices /\ loaded \in BOOLEAN
  /\ \/ state = "RECOVERY_REQUIRED" /\ "recover" \in Faults /\ (loaded => n = NSlices)
     \/ state = "INITIALIZED" /\ last = -1 /\ "restore" \in Faults /\ ~loaded
  /\ cfd' = [s \in Slices |-> IF s < n THEN m.cfd[s] ELSE cfd[s]]
  /\ committed' = IF loaded THEN m.struct ELSE committed
  /\ staged' = IF loaded THEN 0 ELSE staged
  /\ UNCHANGED <<control, active, prepared, calls, cfdFrom, files, disk>>

\* restore_from_checkpoint on a scheduler that has not run a step.
Restore(m) ==
  /\ ~busy /\ state = "INITIALIZED" /\ last = -1
  /\ RestoreFrom(m)
  /\ UNCHANGED <<state, mode, busy, cur, att, persisted, active, prepared, calls, cfdFrom,
                 files, disk>>

\* A new scheduler, structure and slice set in a new process, on the same
\* exchange, case and checkpoint directories: after a crash at any point,
\* which ends every call in flight, or after the driver stopped.
Restart ==
  /\ att > 0
  /\ mode' \in Modes
  /\ state' = "INITIALIZED" /\ busy' = FALSE /\ persisted' = FALSE
  /\ last' = -1 /\ forces' = 0
  /\ active' = FALSE /\ prepared' = NoManifest
  /\ tasks' = {} /\ failed' = {} /\ got' = Zero
  /\ committed' = 0 /\ staged' = 0
  /\ cfd' = Zero /\ cfdFrom' = Zero
  /\ UNCHANGED <<cur, att, files, disk>>

SchedulerStep ==
  \/ Predict \/ PredictFails
  \/ Barrier \/ BarrierFails \/ MapRaises
  \/ Correct \/ CorrectRaises \/ CorrectionRejected
  \/ Prepare \/ PrepareRaises
  \/ Commit \/ CommitRaises
  \/ Finalize \/ FinalizeRaises
  \/ Acknowledge \/ CommitLogRaises

SliceCall == \E t \in tasks : SliceCallReturns(t) \/ SliceCallRaises(t)

Recovery ==
  \E m \in disk :
    \/ Recover(m)
    \/ \E n \in 0..NSlices, loaded \in BOOLEAN : RestoreRaises(m, n, loaded)
    \/ Restore(m)

Next == RunStep \/ SchedulerStep \/ SliceCall \/ Recovery \/ Restart

\* run_step runs to its end unless the process crashes, and every slice call
\* returns or raises: all of its waits have a timeout.
Spec     == Init /\ [][Next]_vars
FairSpec == Spec /\ WF_vars(SchedulerStep) /\ WF_vars(SliceCall)
-----------------------------------------------------------------------------
ControlOK ==
  /\ state \in States /\ mode \in AllModes
  /\ busy \in BOOLEAN /\ persisted \in BOOLEAN /\ active \in BOOLEAN
  /\ last \in Steps \cup {-1} /\ cur \in Steps
  /\ att \in Versions /\ forces \in Versions
  /\ prepared \in Manifests

CallsOK == tasks \subseteq Tasks /\ failed \subseteq Slices /\ got \in [Slices -> Versions]

StructureOK == committed \in Versions /\ staged \in Versions

SolversOK == cfd \in [Slices -> Versions] /\ cfdFrom \in [Slices -> Versions]

FilesOK == /\ motion \in [Slices \X Steps -> Cells]
           /\ load \in [Slices \X Steps -> Cells]
           /\ timedir \in [Slices \X Steps -> Versions]

TypeOK == /\ ControlOK /\ CallsOK /\ StructureOK /\ SolversOK /\ FilesOK
          /\ disk \subseteq Manifests

(***************************************************************************)
(* A committed manifest is of one attempt: the structure state, every      *)
(* slice's CFD time directory and every load the correction was computed   *)
(* from were produced by the same run_step call.  (One global barrier per  *)
(* step; no stale payload.)                                                *)
(***************************************************************************)
ManifestsCoherent ==
  \A m \in disk :
    /\ m.struct = m.att
    /\ \A s \in Slices : m.cfd[s] = m.att /\ m.loads[s] = m.att

(***************************************************************************)
(* The three parts of a committed manifest, structure, previous forces and *)
(* CFD solvers, continue the same state: one committed manifest of the     *)
(* step before, or the initial condition.  Wrong if a restore brings back  *)
(* one part and not another, or a step is run twice on top of itself.      *)
(***************************************************************************)
Continues(v, n) ==
  IF v = 0 THEN n = 0 ELSE \E m \in disk : m.att = v /\ m.step = n - 1

LineageContinuous ==
  \A m \in disk :
    /\ m.structFrom = m.forcesFrom
    /\ \A s \in Slices : m.cfdFrom[s] = m.forcesFrom
    /\ Continues(m.forcesFrom, m.step)

(***************************************************************************)
(* The structure acknowledges only what is on disk: its committed state is *)
(* the initial condition or that of a committed manifest, in every state,  *)
(* whichever call has failed.                                              *)
(***************************************************************************)
StructureDurable == committed # 0 => \E m \in disk : m.struct = committed

(***************************************************************************)
(* The way back is never lost: the manifest the scheduler stands on can be *)
(* restored, its files untouched by what the running step has done since;  *)
(* in RECOVERY_REQUIRED so can the manifest whose commit was not           *)
(* finalized.                                                              *)
(***************************************************************************)
WayBack ==
  /\ forces # 0 => \E m \in disk : m.att = forces /\ Restorable(m)
  /\ state = "RECOVERY_REQUIRED" => \E m \in disk : m.att = att /\ Restorable(m)

(***************************************************************************)
(* A manifest is written only when every slice's motion and load of the    *)
(* step were acknowledged, each acknowledgement for the payload of this    *)
(* attempt.                                                                *)
(***************************************************************************)
AcknowledgedBeforeCommit ==
  [][\A m \in disk' \ disk : \A s \in Slices :
       /\ motion[<<s, m.step>>] = [payload |-> m.att, ready |-> m.att, consumed |-> m.att]
       /\ load[<<s, m.step>>] = [payload |-> m.att, ready |-> m.att, consumed |-> m.att]]_disk

(***************************************************************************)
(* A failed transaction leaves no slice call behind that could still write *)
(* exchange or case files: true of the sequential map and of the executor  *)
(* a with-block joins, not of the reused pool.                             *)
(***************************************************************************)
FailedIsQuiet == state = "FAILED" /\ mode # "pooled" => tasks = {}

(***************************************************************************)
(* Failure rules of the multi-slice contract.                              *)
(***************************************************************************)
\* Never FAILED with the structure uncommitted while the disk holds the
\* committed manifest of that transaction.
NoUnhandledCommit == state = "FAILED" => \A m \in disk : m.att # att

\* No second commit for the same step: no committed manifest starts from a
\* structure state that a manifest of the same step has committed.
NoSecondCommit == \A m, n \in disk : m.step = n.step => m.structFrom # n.struct

\* RECOVERY_REQUIRED is left by a recovery only from the manifest whose
\* finalization failed.
RecoversThatCheckpoint ==
  [][state = "RECOVERY_REQUIRED" /\ state' = "INITIALIZED" /\ last' # -1
       => forces' = att]_vars

(***************************************************************************)
(* What run_step, recovery and the disk agree on between any two steps.    *)
(* TypeOK and CommitInv are inductive together, and imply StructureDurable *)
(* and the implementation of the commit tree.                              *)
(***************************************************************************)
\* Inside run_step the state is neither a failure nor past the persisted
\* commit; outside it no transaction is half done.
StateInv ==
  /\ busy => /\ state \notin {"FAILED", "RECOVERY_REQUIRED"}
             /\ persisted <=> \/ state = "COMMITTED"
                              \/ state = "CHECKPOINT_PREPARED" /\ prepared \in disk
             /\ persisted => state \in {"CHECKPOINT_PREPARED", "COMMITTED"}
  /\ ~busy => state \in {"INITIALIZED", "COMMITTED", "FAILED", "RECOVERY_REQUIRED"}

\* Manifests on disk are of accepted attempts, one of each at most; the one of
\* the running attempt appears when the commit is persisted.
DiskInv ==
  /\ \A m \in disk : m.att \in 1..att
  /\ \A m, n \in disk : m.att = n.att => m = n
  /\ busy => /\ att # 0
             /\ persisted <=> \E m \in disk : m.att = att
             /\ persisted => \E m \in disk : m.att = att /\ m.step = cur

\* The scheduler stands on the initial condition or on a manifest on disk,
\* and a running attempt is at the step after it.
StandsInv ==
  /\ IF forces = 0 THEN last = -1 ELSE \E m \in disk : m.att = forces /\ m.step = last
  /\ busy => cur = last + 1

\* The prepared manifest is that of the running attempt and the staged state.
PreparedInv ==
  busy /\ state = "CHECKPOINT_PREPARED" =>
    /\ prepared.att = att /\ prepared.step = cur /\ prepared.forcesFrom = forces
    /\ prepared.struct = staged /\ staged # 0

CommitInv == StateInv /\ DiskInv /\ StandsInv /\ PreparedInv /\ StructureDurable

(***************************************************************************)
(* The driver implements the tree of durable commits: its acknowledged     *)
(* forces are the commit it stands on, a manifest on disk is a commit, and *)
(* the commit point is the appearance of the manifest.                     *)
(***************************************************************************)
CommitOf(m) == [id |-> m.att, step |-> m.step, parent |-> m.forcesFrom]

Abstract ==
  INSTANCE CommitTree WITH
    Ids     <- Attempts,
    Root    <- 0,
    durable <- {CommitOf(m) : m \in disk},
    base    <- forces,
    tip     <- IF busy /\ persisted THEN att ELSE 0,
    phase   <- IF busy THEN "working"
               ELSE IF state \in {"INITIALIZED", "COMMITTED"} THEN "ready" ELSE "broken"

ImplementsCommitTree == Abstract!Spec

(***************************************************************************)
(* The driver keeps the contract of the structure it drives: a correction  *)
(* is staged when nothing else is, never that of a manifest on disk, and   *)
(* becomes the committed state after its manifest is on disk; every other  *)
(* way out leads back to a state that is durable.                          *)
(***************************************************************************)
Staging ==
  INSTANCE StagedStructure WITH
    Ids     <- Attempts,
    Root    <- 0,
    durable <- {m.struct : m \in disk}

ImplementsStaging == Staging!Spec

(***************************************************************************)
(* Every accepted run_step call ends: the slice calls it waits for return  *)
(* or raise, and no phase waits for something no call will bring about.    *)
(***************************************************************************)
StepEnds == busy ~> ~busy
=============================================================================
