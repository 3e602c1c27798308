---------------------- MODULE MultiSliceSchedulerProofs ----------------------
(***************************************************************************)
(* For every number of slices, steps and attempts, every executor and      *)
(* every combination of faults: the types, the durability of the structure *)
(* and the implementation of the commit tree.                              *)
(***************************************************************************)
EXTENDS MultiSliceScheduler, TLAPS

-----------------------------------------------------------------------------
(* Types.                                                                  *)

LEMMA SliceTables ==
  ASSUME NEW st \in SliceStates
  PROVE  /\ AfterSlices[st] \in States
         /\ SliceOp[st] \in Ops
BY DEF SliceStates, SliceOp, AfterSlices, States, Ops

LEMMA SubmitType == \A st \in SliceStates : Submit(st) \subseteq Tasks
BY SliceTables DEF Submit, Tasks

LEMMA SizeFacts == /\ 0 \in Versions /\ 0 \in Steps
                   /\ Attempts \subseteq Versions
                   /\ \A v \in Versions : v < MaxAttempts => v + 1 \in Attempts
                   /\ Modes \subseteq AllModes
BY SizeAssumption, EnvironmentAssumption DEF Versions, Steps, Attempts

LEMMA NoneType == Zero \in [Slices -> Versions] /\ NoManifest \in Manifests /\ NoCell \in Cells
BY SizeFacts DEF Zero, NoManifest, Manifests, NoCell, Cells

LEMMA NewManifestType ==
  ASSUME TypeOK  PROVE NewManifest \in Manifests
BY DEF TypeOK, ControlOK, CallsOK, StructureOK, SolversOK, FilesOK, NewManifest, Manifests

LEMMA TypeInit == Init => TypeOK
<1> SUFFICES ASSUME Init  PROVE TypeOK
  OBVIOUS
<1>1. ControlOK    BY SizeFacts, NoneType DEF Init, ControlOK, States
<1>2. CallsOK      BY NoneType DEF Init, CallsOK
<1>3. StructureOK  BY SizeFacts DEF Init, StructureOK
<1>4. SolversOK    BY NoneType DEF Init, SolversOK
<1>5. FilesOK      BY SizeFacts, NoneType DEF Init, FilesOK
<1>6. QED BY <1>1, <1>2, <1>3, <1>4, <1>5 DEF TypeOK, Init

LEMMA RunStepType == TypeOK /\ RunStep => TypeOK'
<1> SUFFICES ASSUME TypeOK, RunStep  PROVE TypeOK'
  OBVIOUS
<1>1. ControlOK'    BY SizeFacts DEF TypeOK, RunStep, ControlOK, States
<1>2. CallsOK'      BY NoneType DEF TypeOK, RunStep, CallsOK
<1>3. QED BY <1>1, <1>2 DEF TypeOK, RunStep, structure, solvers, files,
               StructureOK, SolversOK, FilesOK

LEMMA FailPrecommitType ==
  ASSUME TypeOK, FailPrecommit, UNCHANGED <<solvers, files>>,
         CallsOK', disk' \subseteq Manifests
  PROVE  TypeOK'
<1>1. ControlOK'    BY NoneType DEF TypeOK, FailPrecommit, ControlOK, States
<1>2. StructureOK'  BY SizeFacts DEF TypeOK, FailPrecommit, StructureOK
<1>3. QED BY <1>1, <1>2 DEF TypeOK, solvers, files, SolversOK, FilesOK

\* A call on slice s at the running step works on files of that step.
LEMMA TaskType ==
  ASSUME TypeOK, NEW t \in tasks
  PROVE  t.slice \in Slices /\ At(t) \in Slices \X Steps
BY DEF TypeOK, ControlOK, CallsOK, Tasks, At

LEMMA MoveType ==
  ASSUME TypeOK, NEW t \in tasks
  PROVE  /\ Move(t) => SolversOK'
         /\ WriteTimeDir(t) => timedir' \in [Slices \X Steps -> Versions]
         /\ \A r \in Versions : WriteLoad(t, r) => load' \in [Slices \X Steps -> Cells]
<1>1. /\ motion[At(t)].payload \in Versions
      /\ load[At(t)].consumed \in Versions
      /\ cfd[t.slice] \in Versions
  BY TaskType DEF TypeOK, FilesOK, SolversOK, Cells
<1>2. Move(t) => SolversOK'
  BY <1>1 DEF TypeOK, SolversOK, Move
<1>3. WriteTimeDir(t) => timedir' \in [Slices \X Steps -> Versions]
  BY <1>1 DEF TypeOK, FilesOK, WriteTimeDir
<1>4. ASSUME NEW r \in Versions, WriteLoad(t, r)
      PROVE  load' \in [Slices \X Steps -> Cells]
  <2>1. [payload |-> motion[At(t)].payload, ready |-> r, consumed |-> load[At(t)].consumed] \in Cells
    BY <1>1 DEF Cells
  <2>2. QED BY <1>4, <2>1 DEF TypeOK, FilesOK, WriteLoad
<1>5. QED BY <1>2, <1>3, <1>4

LEMMA SliceCallReturnsType ==
  ASSUME TypeOK, NEW t \in tasks, SliceCallReturns(t)  PROVE TypeOK'
<1>1. /\ motion[At(t)] \in Cells /\ load[At(t)] \in Cells
      /\ motion[At(t)].payload \in Versions /\ motion[At(t)].consumed \in Versions
      /\ load[At(t)].payload \in Versions /\ att \in Versions
      /\ t.slice \in Slices
  BY TaskType DEF TypeOK, ControlOK, FilesOK, Cells
<1>2. tasks' \subseteq Tasks /\ failed' \subseteq Slices
  BY DEF TypeOK, CallsOK, SliceCallReturns
<1>3. got' \in [Slices -> Versions] /\ SolversOK' /\ FilesOK'
  <2>1. CASE PublishMotion(t)
    <3>1. [payload |-> att, ready |-> att, consumed |-> motion[At(t)].consumed] \in Cells
      BY <1>1 DEF Cells
    <3>2. QED BY <2>1, <3>1 DEF PublishMotion, TypeOK, CallsOK, SolversOK, FilesOK, solvers
  <2>2. CASE WaitMotionConsumed(t)
    <3>1. [motion[At(t)] EXCEPT !.consumed = motion[At(t)].payload] \in Cells
      BY <1>1 DEF Cells
    <3>2. motion' \in [Slices \X Steps -> Cells]
      BY <2>2, <3>1 DEF WaitMotionConsumed, TypeOK, FilesOK
    <3>3. QED BY <2>2, <3>2 DEF WaitMotionConsumed, TypeOK, CallsOK, SolversOK, FilesOK, solvers
  <2>3. CASE AdvanceOneStep(t)
    BY <1>1, <2>3, MoveType DEF AdvanceOneStep, TypeOK, CallsOK, SolversOK, FilesOK, solvers
  <2>4. CASE ReadLoad(t)
    BY <1>1, <2>4 DEF ReadLoad, TypeOK, CallsOK, SolversOK, FilesOK, solvers, files
  <2>5. CASE PublishLoadConsumed(t)
    <3>1. [load[At(t)] EXCEPT !.consumed = load[At(t)].payload] \in Cells
      BY <1>1 DEF Cells
    <3>2. load' \in [Slices \X Steps -> Cells]
      BY <2>5, <3>1 DEF PublishLoadConsumed, TypeOK, FilesOK
    <3>3. QED BY <2>5, <3>2 DEF PublishLoadConsumed, TypeOK, CallsOK, SolversOK, FilesOK, solvers
  <2>6. QED BY <2>1, <2>2, <2>3, <2>4, <2>5 DEF SliceCallReturns
<1>4. QED BY <1>2, <1>3 DEF SliceCallReturns, TypeOK, ControlOK, CallsOK, StructureOK,
               control, structure

LEMMA SliceCallRaisesType ==
  ASSUME TypeOK, NEW t \in tasks, SliceCallRaises(t)  PROVE TypeOK'
<1>1. /\ motion[At(t)] \in Cells /\ att \in Versions /\ t.slice \in Slices
      /\ load[At(t)].ready \in Versions /\ motion[At(t)].payload \in Versions
  BY TaskType DEF TypeOK, ControlOK, FilesOK, Cells
<1>2. SolversOK' /\ FilesOK'
  <2>1. CASE UNCHANGED <<solvers, files>>
    BY <2>1 DEF TypeOK, SolversOK, FilesOK, solvers, files
  <2>2. CASE /\ t.op = "publish_motion"
             /\ motion' = [motion EXCEPT ![At(t)].payload = att]
             /\ UNCHANGED <<solvers, load, timedir>>
    <3>1. [motion[At(t)] EXCEPT !.payload = att] \in Cells
      BY <1>1 DEF Cells
    <3>2. motion' \in [Slices \X Steps -> Cells]
      BY <2>2, <3>1 DEF TypeOK, FilesOK
    <3>3. QED BY <2>2, <3>2 DEF TypeOK, SolversOK, FilesOK, solvers
  <2>3. CASE /\ Move(t)
             /\ \/ WriteTimeDir(t) /\ UNCHANGED load
                \/ WriteTimeDir(t) /\ WriteLoad(t, load[At(t)].ready)
                \/ UNCHANGED timedir /\ WriteLoad(t, motion[At(t)].payload)
             /\ UNCHANGED motion
    BY <1>1, <2>3, MoveType DEF TypeOK, FilesOK
  <2>4. QED BY <2>1, <2>2, <2>3 DEF SliceCallRaises, TornEffect
<1>3. QED BY <1>1, <1>2 DEF SliceCallRaises, TypeOK, ControlOK, CallsOK, StructureOK,
               control, structure

LEMMA SchedulerStepType == TypeOK /\ SchedulerStep => TypeOK'
<1> SUFFICES ASSUME TypeOK, SchedulerStep  PROVE TypeOK'
  OBVIOUS
<1> USE DEF TypeOK, structure, solvers, files, calls
<1>1. CASE Predict
  <2>1. Submit("PREDICTED") \subseteq Tasks
    BY SubmitType DEF SliceStates, SliceOp
  <2>2. QED BY <1>1, <2>1 DEF Predict, ControlOK, CallsOK, StructureOK, SolversOK, FilesOK, States
<1>2. CASE PredictFails
  BY <1>2, FailPrecommitType DEF PredictFails, CallsOK
<1>3. CASE Barrier
  <2>1. tasks' \subseteq Tasks /\ state' \in States
    BY <1>3, SliceTables, SubmitType DEF Barrier
  <2>2. QED BY <1>3, <2>1 DEF Barrier, ControlOK, CallsOK, StructureOK, SolversOK, FilesOK
<1>4. CASE BarrierFails
  BY <1>4, FailPrecommitType DEF BarrierFails, CallsOK
<1>5. CASE MapRaises
  BY <1>5, FailPrecommitType DEF MapRaises, CallsOK
<1>6. CASE Correct
  BY <1>6 DEF Correct, ControlOK, CallsOK, StructureOK, SolversOK, FilesOK, States
<1>7. CASE CorrectRaises
  BY <1>7, FailPrecommitType DEF CorrectRaises, CallsOK
<1>8. CASE CorrectionRejected
  BY <1>8, SizeFacts, NoneType
     DEF CorrectionRejected, ControlOK, CallsOK, StructureOK, SolversOK, FilesOK, States
<1>9. CASE Prepare
  BY <1>9, NewManifestType
     DEF Prepare, ControlOK, CallsOK, StructureOK, SolversOK, FilesOK, States
<1>10. CASE PrepareRaises
  BY <1>10, FailPrecommitType DEF PrepareRaises, CallsOK
<1>11. CASE Commit
  BY <1>11 DEF Commit, Published, ControlOK, CallsOK, StructureOK, SolversOK, FilesOK
<1>12. CASE CommitRaises
  <2>1. disk' \subseteq Manifests
    BY <1>12 DEF CommitRaises, Published, ControlOK
  <2>2. QED BY <1>12, <2>1, FailPrecommitType DEF CommitRaises, CallsOK
<1>13. CASE Finalize
  BY <1>13, SizeFacts
     DEF Finalize, FinalizeCommitted, ControlOK, CallsOK, StructureOK, SolversOK, FilesOK, States
<1>14. CASE FinalizeRaises
  BY <1>14 DEF FinalizeRaises, ControlOK, CallsOK, StructureOK, SolversOK, FilesOK, States
<1>15. CASE Acknowledge
  BY <1>15, NoneType
     DEF Acknowledge, ControlOK, CallsOK, StructureOK, SolversOK, FilesOK
<1>16. CASE CommitLogRaises
  BY <1>16 DEF CommitLogRaises, ControlOK, CallsOK, StructureOK, SolversOK, FilesOK
<1>17. QED BY <1>1, <1>2, <1>3, <1>4, <1>5, <1>6, <1>7, <1>8, <1>9, <1>10, <1>11, <1>12,
             <1>13, <1>14, <1>15, <1>16 DEF SchedulerStep

LEMMA RestoreFromType ==
  ASSUME TypeOK, NEW m \in disk, RestoreFrom(m)
  PROVE  /\ cfd' \in [Slices -> Versions]
         /\ StructureOK'
         /\ last' \in Steps /\ forces' \in Versions
BY SizeFacts DEF TypeOK, RestoreFrom, Manifests, StructureOK

LEMMA RecoveryType == TypeOK /\ Recovery => TypeOK'
<1> SUFFICES ASSUME TypeOK, NEW m \in disk,
                    \/ Recover(m)
                    \/ \E n \in 0..NSlices, loaded \in BOOLEAN : RestoreRaises(m, n, loaded)
                    \/ Restore(m)
             PROVE  TypeOK'
  BY DEF Recovery
<1> USE DEF TypeOK, calls, files
<1>1. CASE Recover(m)
  BY <1>1, RestoreFromType, NoneType
     DEF Recover, ControlOK, CallsOK, SolversOK, FilesOK, States
<1>2. ASSUME NEW n \in 0..NSlices, NEW loaded \in BOOLEAN, RestoreRaises(m, n, loaded)
      PROVE  TypeOK'
  <2>1. m.cfd \in [Slices -> Versions] /\ m.struct \in Versions
    BY DEF Manifests
  <2>2. SolversOK' /\ StructureOK'
    BY <1>2, <2>1, SizeFacts DEF RestoreRaises, SolversOK, StructureOK
  <2>3. QED BY <1>2, <2>2 DEF RestoreRaises, control, ControlOK, CallsOK, FilesOK
<1>3. CASE Restore(m)
  BY <1>3, RestoreFromType DEF Restore, ControlOK, CallsOK, SolversOK, FilesOK
<1>4. QED BY <1>1, <1>2, <1>3

LEMMA RestartType == TypeOK /\ Restart => TypeOK'
BY SizeFacts, NoneType DEF TypeOK, Restart, files, ControlOK, CallsOK, StructureOK, SolversOK,
   FilesOK, States

LEMMA TypeStep == TypeOK /\ [Next]_vars => TypeOK'
<1> SUFFICES ASSUME TypeOK, [Next]_vars  PROVE TypeOK'
  OBVIOUS
<1>1. CASE SliceCall
  BY <1>1, SliceCallReturnsType, SliceCallRaisesType DEF SliceCall
<1>2. CASE UNCHANGED vars
  BY <1>2 DEF vars, control, calls, structure, solvers, files, TypeOK, ControlOK, CallsOK,
     StructureOK, SolversOK, FilesOK
<1>3. QED BY <1>1, <1>2, RunStepType, SchedulerStepType, RecoveryType, RestartType DEF Next

(***************************************************************************)
(* Every variable of the driver, its files and its manifests stays within  *)
(* its type.                                                               *)
(***************************************************************************)
THEOREM TypeCorrect == Spec => []TypeOK
BY TypeInit, TypeStep, PTL DEF Spec
-----------------------------------------------------------------------------
(* The inductive invariant behind durability.                              *)

LEMMA CommitInvInit == Init => CommitInv
BY DEF Init, CommitInv, StateInv, DiskInv, StandsInv, PreparedInv, StructureDurable

LEMMA RunStepCommitInv == TypeOK /\ CommitInv /\ RunStep => CommitInv'
<1> SUFFICES ASSUME TypeOK, CommitInv, RunStep  PROVE CommitInv'
  OBVIOUS
<1>1. att \in Nat /\ att' = att + 1
  BY SizeAssumption DEF TypeOK, ControlOK, Versions, RunStep
<1>2. StateInv'      BY DEF CommitInv, StateInv, RunStep
<1>3. DiskInv'       BY <1>1 DEF CommitInv, DiskInv, RunStep
<1>4. StandsInv'     BY DEF CommitInv, StandsInv, RunStep
<1>5. PreparedInv'   BY DEF PreparedInv, RunStep
<1>6. StructureDurable'  BY DEF CommitInv, StructureDurable, RunStep, structure
<1>7. QED BY <1>2, <1>3, <1>4, <1>5, <1>6 DEF CommitInv

\* A step that ends a transaction before its commit is persisted.
LEMMA FailPrecommitCommitInv ==
  ASSUME CommitInv, busy, FailPrecommit, disk' = disk  PROVE CommitInv'
<1>1. StateInv'      BY DEF CommitInv, StateInv, FailPrecommit
<1>2. DiskInv'       BY DEF CommitInv, DiskInv, FailPrecommit
<1>3. StandsInv'     BY DEF CommitInv, StandsInv, FailPrecommit
<1>4. PreparedInv'   BY DEF PreparedInv, FailPrecommit
<1>5. StructureDurable'  BY DEF CommitInv, StructureDurable, FailPrecommit
<1>6. QED BY <1>1, <1>2, <1>3, <1>4, <1>5 DEF CommitInv

\* A step inside run_step that neither publishes nor leaves a precommit phase.
LEMMA QuietCommitInv ==
  ASSUME CommitInv,
         UNCHANGED <<busy, last, forces, cur, att, persisted, committed, disk>>,
         busy => /\ state \notin {"CHECKPOINT_PREPARED", "COMMITTED"}
                 /\ state' \notin {"CHECKPOINT_PREPARED", "COMMITTED", "FAILED",
                                   "RECOVERY_REQUIRED"},
         ~busy => state' = state
  PROVE  CommitInv'
BY DEF CommitInv, StateInv, DiskInv, StandsInv, PreparedInv, StructureDurable

\* The manifest of the running attempt appears on disk.
LEMMA PublishedFacts ==
  ASSUME TypeOK, CommitInv, busy, state = "CHECKPOINT_PREPARED", ~persisted,
         disk' = Published
  PROVE  /\ prepared \notin disk /\ \A m \in disk : m.att # att
         /\ \A m \in disk' : m \in disk \/ m = prepared
         /\ disk \subseteq disk' /\ prepared \in disk'
         /\ prepared.att = att /\ prepared.step = cur /\ prepared.forcesFrom = forces
         /\ prepared.struct = staged /\ staged # 0
         /\ att \in 1..att
<1>1. att # 0 /\ att \in Nat
  BY SizeAssumption DEF CommitInv, DiskInv, TypeOK, ControlOK, Versions
<1>2. att \in 1..att
  BY <1>1
<1>3. QED BY <1>2 DEF CommitInv, StateInv, DiskInv, PreparedInv, Published

LEMMA CommitCommitInv == TypeOK /\ CommitInv /\ Commit => CommitInv'
<1> SUFFICES ASSUME TypeOK, CommitInv, Commit  PROVE CommitInv'
  OBVIOUS
<1>1. /\ busy /\ state = "CHECKPOINT_PREPARED" /\ ~persisted
      /\ disk' = Published /\ persisted'
      /\ UNCHANGED <<state, busy, last, forces, cur, att, prepared, committed, staged>>
  BY DEF Commit, structure
<1>2. StateInv'      BY <1>1, PublishedFacts DEF CommitInv, StateInv
<1>3. DiskInv'       BY <1>1, PublishedFacts DEF CommitInv, DiskInv
<1>4. StandsInv'     BY <1>1, PublishedFacts DEF CommitInv, StandsInv
<1>5. PreparedInv'   BY <1>1 DEF CommitInv, PreparedInv
<1>6. StructureDurable'  BY <1>1, PublishedFacts DEF CommitInv, StructureDurable
<1>7. QED BY <1>2, <1>3, <1>4, <1>5, <1>6 DEF CommitInv

LEMMA CommitRaisesCommitInv == TypeOK /\ CommitInv /\ CommitRaises => CommitInv'
<1> SUFFICES ASSUME TypeOK, CommitInv, CommitRaises  PROVE CommitInv'
  OBVIOUS
<1>1. CASE disk' = disk
  BY <1>1, FailPrecommitCommitInv DEF CommitRaises
<1>2. CASE disk' = Published
  <2>1. /\ busy /\ state = "CHECKPOINT_PREPARED" /\ ~persisted
        /\ state' = "FAILED" /\ ~busy'
        /\ UNCHANGED <<last, forces, cur, att, persisted, committed>>
    BY DEF CommitRaises, FailPrecommit
  <2>2. StateInv'      BY <2>1 DEF StateInv
  <2>3. DiskInv'       BY <1>2, <2>1, PublishedFacts DEF CommitInv, DiskInv
  <2>4. StandsInv'     BY <1>2, <2>1, PublishedFacts DEF CommitInv, StandsInv
  <2>5. PreparedInv'   BY <2>1 DEF PreparedInv
  <2>6. StructureDurable'  BY <1>2, <2>1, PublishedFacts DEF CommitInv, StructureDurable
  <2>7. QED BY <2>2, <2>3, <2>4, <2>5, <2>6 DEF CommitInv
<1>3. QED BY <1>1, <1>2 DEF CommitRaises

LEMMA SchedulerStepCommitInv == TypeOK /\ CommitInv /\ SchedulerStep => CommitInv'
<1> SUFFICES ASSUME TypeOK, CommitInv, SchedulerStep  PROVE CommitInv'
  OBVIOUS
<1> USE DEF structure, calls
<1>1. CASE Predict
  BY <1>1, QuietCommitInv DEF Predict
<1>2. CASE PredictFails
  BY <1>2, FailPrecommitCommitInv DEF PredictFails
<1>3. CASE Barrier
  <2>1. /\ state \notin {"CHECKPOINT_PREPARED", "COMMITTED"}
        /\ state' \notin {"CHECKPOINT_PREPARED", "COMMITTED", "FAILED", "RECOVERY_REQUIRED"}
    BY <1>3 DEF Barrier, SliceStates, SliceOp, AfterSlices
  <2>2. QED BY <1>3, <2>1, QuietCommitInv DEF Barrier
<1>4. CASE BarrierFails
  BY <1>4, FailPrecommitCommitInv DEF BarrierFails
<1>5. CASE MapRaises
  BY <1>5, FailPrecommitCommitInv DEF MapRaises
<1>6. CASE Correct
  BY <1>6, QuietCommitInv DEF Correct
<1>7. CASE CorrectRaises
  BY <1>7, FailPrecommitCommitInv DEF CorrectRaises
<1>8. CASE CorrectionRejected
  BY <1>8 DEF CorrectionRejected, CommitInv, StateInv, DiskInv, StandsInv, PreparedInv,
     StructureDurable
<1>9. CASE Prepare
  <2>1. ~persisted /\ NewManifest \notin disk
    BY <1>9 DEF Prepare, NewManifest, CommitInv, StateInv, DiskInv
  <2>2. PreparedInv'
    BY <1>9 DEF Prepare, NewManifest, PreparedInv
  <2>3. QED BY <1>9, <2>1, <2>2
            DEF Prepare, CommitInv, StateInv, DiskInv, StandsInv, StructureDurable
<1>10. CASE PrepareRaises
  BY <1>10, FailPrecommitCommitInv DEF PrepareRaises
<1>11. CASE Commit
  BY <1>11, CommitCommitInv
<1>12. CASE CommitRaises
  BY <1>12, CommitRaisesCommitInv
<1>13. CASE Finalize
  <2>1. prepared \in disk /\ prepared.struct = staged
    BY <1>13 DEF Finalize, Finalizable, CommitInv, StateInv, PreparedInv
  <2>2. StructureDurable'
    BY <1>13, <2>1 DEF Finalize, FinalizeCommitted, CommitInv, StructureDurable
  <2>3. QED BY <1>13, <2>2 DEF Finalize, Finalizable, CommitInv, StateInv, DiskInv, StandsInv,
               PreparedInv
<1>14. CASE FinalizeRaises
  BY <1>14 DEF FinalizeRaises, Finalizable, CommitInv, StateInv, DiskInv, StandsInv, PreparedInv,
     StructureDurable
<1>15. CASE Acknowledge
  <2>1. persisted /\ \E m \in disk : m.att = att /\ m.step = cur
    BY <1>15 DEF Acknowledge, CommitInv, StateInv, DiskInv
  <2>2. StandsInv'
    BY <1>15, <2>1 DEF Acknowledge, CommitInv, StandsInv, DiskInv
  <2>3. QED BY <1>15, <2>2 DEF Acknowledge, CommitInv, StateInv, DiskInv, PreparedInv,
               StructureDurable
<1>16. CASE CommitLogRaises
  BY <1>16 DEF CommitLogRaises, CommitInv, StateInv, DiskInv, StandsInv, PreparedInv,
     StructureDurable
<1>17. QED BY <1>1, <1>2, <1>3, <1>4, <1>5, <1>6, <1>7, <1>8, <1>9, <1>10, <1>11, <1>12,
             <1>13, <1>14, <1>15, <1>16 DEF SchedulerStep

LEMMA SliceCallCommitInv == CommitInv /\ SliceCall => CommitInv'
<1> SUFFICES ASSUME CommitInv, SliceCall  PROVE CommitInv'
  OBVIOUS
<1>1. UNCHANGED <<control, prepared, structure, disk>>
  BY DEF SliceCall, SliceCallReturns, SliceCallRaises
<1>2. QED BY <1>1 DEF control, structure, CommitInv, StateInv, DiskInv, StandsInv, PreparedInv,
               StructureDurable

LEMMA RecoveryCommitInv == CommitInv /\ Recovery => CommitInv'
<1> SUFFICES ASSUME CommitInv, NEW m \in disk,
                    \/ Recover(m)
                    \/ \E n \in 0..NSlices, loaded \in BOOLEAN : RestoreRaises(m, n, loaded)
                    \/ Restore(m)
             PROVE  CommitInv'
  BY DEF Recovery
<1>1. CASE Recover(m) \/ Restore(m)
  <2>1. /\ ~busy /\ UNCHANGED <<busy, cur, att, persisted, disk>>
        /\ forces' = m.att /\ last' = m.step /\ committed' = m.struct
        /\ state' = "INITIALIZED"
    BY <1>1 DEF Recover, Restore, RestoreFrom
  <2>2. StandsInv'
    BY <2>1 DEF CommitInv, StandsInv, DiskInv
  <2>3. StructureDurable'
    BY <2>1 DEF StructureDurable
  <2>4. QED BY <2>1, <2>2, <2>3 DEF CommitInv, StateInv, DiskInv, PreparedInv
<1>2. ASSUME NEW n \in 0..NSlices, NEW loaded \in BOOLEAN, RestoreRaises(m, n, loaded)
      PROVE  CommitInv'
  <2>1. StructureDurable'
    BY <1>2 DEF RestoreRaises, CommitInv, StructureDurable
  <2>2. QED BY <1>2, <2>1 DEF RestoreRaises, control, CommitInv, StateInv, DiskInv, StandsInv,
               PreparedInv
<1>3. QED BY <1>1, <1>2

LEMMA RestartCommitInv == CommitInv /\ Restart => CommitInv'
BY DEF Restart, CommitInv, StateInv, DiskInv, StandsInv, PreparedInv, StructureDurable

LEMMA CommitInvStep == TypeOK /\ CommitInv /\ [Next]_vars => CommitInv'
<1> SUFFICES ASSUME TypeOK, CommitInv, [Next]_vars  PROVE CommitInv'
  OBVIOUS
<1>1. CASE UNCHANGED vars
  BY <1>1 DEF vars, control, structure, CommitInv, StateInv, DiskInv, StandsInv, PreparedInv,
     StructureDurable
<1>2. QED BY <1>1, RunStepCommitInv, SchedulerStepCommitInv, SliceCallCommitInv,
             RecoveryCommitInv, RestartCommitInv DEF Next

(***************************************************************************)
(* Between any two steps the transaction state, the persisted flag, the    *)
(* prepared manifest and the manifests on disk agree: the inductive        *)
(* invariant behind the durability of the structure and the commit tree.   *)
(***************************************************************************)
THEOREM CommitInvariant == Spec => []CommitInv
BY TypeCorrect, CommitInvInit, CommitInvStep, PTL DEF Spec

(***************************************************************************)
(* The structure's committed state is always the initial condition or one  *)
(* that a manifest on disk holds, whatever fails and wherever a crash      *)
(* comes.                                                                  *)
(***************************************************************************)
THEOREM StructureIsDurable == Spec => []StructureDurable
<1>1. CommitInv => StructureDurable
  BY DEF CommitInv
<1>2. QED BY <1>1, CommitInvariant, PTL
-----------------------------------------------------------------------------
(* The driver implements the tree of durable commits.                      *)

\* The abstract state, spelled out.
durableBar == {CommitOf(m) : m \in disk}
tipBar     == IF busy /\ persisted THEN att ELSE 0
phaseBar   == IF busy THEN "working"
              ELSE IF state \in {"INITIALIZED", "COMMITTED"} THEN "ready" ELSE "broken"

LEMMA RefinementInit == Init => Abstract!Init
BY DEF Init, Abstract!Init, CommitOf

\* The scheduler stands on a state of the step before the running one.
LEMMA BaseIsParent ==
  ASSUME TypeOK, CommitInv, busy
  PROVE  Abstract!AtStep(forces, cur - 1) /\ forces \in Abstract!Standing
<1>1. CASE forces = 0
  BY <1>1 DEF CommitInv, StandsInv, Abstract!AtStep, Abstract!Standing
<1>2. CASE forces # 0
  <2>1. PICK m \in disk : m.att = forces /\ m.step = last
    BY <1>2 DEF CommitInv, StandsInv
  <2>2. CommitOf(m) \in durableBar /\ CommitOf(m).id = forces /\ CommitOf(m).step = last
    BY <2>1 DEF durableBar, CommitOf
  <2>3. cur - 1 = last
    BY SizeAssumption DEF CommitInv, StandsInv, TypeOK, ControlOK, Steps
  <2>4. QED BY <1>2, <2>2, <2>3 DEF durableBar, Abstract!AtStep, Abstract!Standing
<1>3. QED BY <1>1, <1>2
\* Steps the abstract specification does not see.
LEMMA StutterStep ==
  ASSUME UNCHANGED <<busy, persisted, att, forces, disk>>,
         phaseBar' = phaseBar
  PROVE  UNCHANGED Abstract!vars
BY DEF Abstract!vars, phaseBar

\* The publication of the running attempt's manifest.
LEMMA PublishRefines ==
  ASSUME TypeOK, CommitInv, busy, state = "CHECKPOINT_PREPARED", ~persisted,
         disk' = Published, forces' = forces,
         \/ tipBar' = att /\ phaseBar' = "working"
         \/ tipBar' = 0 /\ phaseBar' = "broken"
  PROVE  Abstract!Next
<1>1. att \in Attempts /\ cur \in 0..MaxStep
  BY SizeAssumption DEF CommitInv, DiskInv, TypeOK, ControlOK, Versions, Attempts, Steps
<1>2. CommitOf(prepared) = [id |-> att, step |-> cur, parent |-> forces]
  BY DEF CommitInv, PreparedInv, CommitOf
<1>3. durableBar' = durableBar \cup {[id |-> att, step |-> cur, parent |-> forces]}
  BY <1>2 DEF durableBar, Published, CommitOf
<1>4. \A c \in durableBar : c.id # att
  BY PublishedFacts DEF durableBar, CommitOf
<1>5. phaseBar = "working" /\ tipBar = 0
  BY DEF phaseBar, tipBar
<1>6. Abstract!Publish(att, cur)
  BY <1>3, <1>4, <1>5, BaseIsParent DEF Abstract!Publish, durableBar, phaseBar, tipBar
<1>7. QED BY <1>1, <1>6 DEF Abstract!Next

\* A transaction that ends without publishing.
LEMMA BreakRefines ==
  ASSUME busy, disk' = disk, forces' = forces, tipBar' = 0, phaseBar' = "broken"
  PROVE  Abstract!Next
BY DEF Abstract!Next, Abstract!Break, durableBar, phaseBar, tipBar

LEMMA FailPrecommitRefines ==
  ASSUME busy, FailPrecommit, disk' = disk
  PROVE  Abstract!Next
BY BreakRefines DEF FailPrecommit, tipBar, phaseBar

LEMMA SchedulerStepRefines ==
  ASSUME TypeOK, CommitInv, SchedulerStep
  PROVE  Abstract!Next \/ UNCHANGED Abstract!vars
<1> USE DEF structure, calls
<1>1. CASE Predict
  BY <1>1, StutterStep DEF Predict, phaseBar
<1>2. CASE PredictFails
  BY <1>2, FailPrecommitRefines DEF PredictFails
<1>3. CASE Barrier
  BY <1>3, StutterStep DEF Barrier, phaseBar
<1>4. CASE BarrierFails
  BY <1>4, FailPrecommitRefines DEF BarrierFails
<1>5. CASE MapRaises
  BY <1>5, FailPrecommitRefines DEF MapRaises
<1>6. CASE Correct
  BY <1>6, StutterStep DEF Correct, phaseBar
<1>7. CASE CorrectRaises
  BY <1>7, FailPrecommitRefines DEF CorrectRaises
<1>8. CASE CorrectionRejected
  BY <1>8, BreakRefines DEF CorrectionRejected, tipBar, phaseBar
<1>9. CASE Prepare
  BY <1>9, StutterStep DEF Prepare, phaseBar
<1>10. CASE PrepareRaises
  BY <1>10, FailPrecommitRefines DEF PrepareRaises
<1>11. CASE Commit
  BY <1>11, PublishRefines DEF Commit, tipBar, phaseBar
<1>12. CASE CommitRaises
  <2>1. CASE disk' = disk
    BY <1>12, <2>1, FailPrecommitRefines DEF CommitRaises
  <2>2. CASE disk' = Published
    <3>1. /\ busy /\ state = "CHECKPOINT_PREPARED" /\ ~persisted
          /\ state' = "FAILED" /\ ~busy' /\ forces' = forces
      BY <1>12 DEF CommitRaises, FailPrecommit
    <3>2. tipBar' = 0 /\ phaseBar' = "broken"
      BY <3>1 DEF tipBar, phaseBar
    <3>3. QED BY <2>2, <3>1, <3>2, PublishRefines
  <2>3. QED BY <1>12, <2>1, <2>2 DEF CommitRaises
<1>13. CASE Finalize
  BY <1>13, StutterStep DEF Finalize, Finalizable, phaseBar
<1>14. CASE FinalizeRaises
  BY <1>14, BreakRefines DEF FinalizeRaises, Finalizable, tipBar, phaseBar
<1>15. CASE Acknowledge
  <2>1. busy /\ persisted /\ att # 0
    BY <1>15 DEF Acknowledge, CommitInv, StateInv, DiskInv
  <2>2. forces' = tipBar /\ tipBar' = 0 /\ phaseBar' = "ready" /\ disk' = disk
    BY <1>15, <2>1 DEF Acknowledge, tipBar, phaseBar
  <2>3. Abstract!Advance
    BY <2>1, <2>2 DEF Abstract!Advance, tipBar, phaseBar
  <2>4. QED BY <2>3 DEF Abstract!Next
<1>16. CASE CommitLogRaises
  <2>1. /\ forces' = forces /\ disk' = disk
        /\ tipBar' = 0 /\ phaseBar' = "ready" /\ busy
    BY <1>16 DEF CommitLogRaises, tipBar, phaseBar
  <2>2. Abstract!Resume
    BY <2>1, BaseIsParent DEF Abstract!Resume, Abstract!Standing, tipBar, phaseBar
  <2>3. QED BY <2>2 DEF Abstract!Next
<1>17. QED BY <1>1, <1>2, <1>3, <1>4, <1>5, <1>6, <1>7, <1>8, <1>9, <1>10, <1>11, <1>12,
             <1>13, <1>14, <1>15, <1>16 DEF SchedulerStep

\* Recovery and restart continue from a manifest on disk or from the start.
LEMMA ResumeRefines ==
  ASSUME disk' = disk, ~busy', state' = "INITIALIZED",
         forces' = 0 \/ \E m \in disk : forces' = m.att
  PROVE  Abstract!Next
<1>1. forces' \in Abstract!Standing
  <2>1. \A m \in disk : CommitOf(m) \in durableBar /\ CommitOf(m).id = m.att
    BY DEF durableBar, CommitOf
  <2>2. QED BY <2>1 DEF durableBar, Abstract!Standing
<1>2. tipBar' = 0 /\ phaseBar' = "ready"
  BY DEF tipBar, phaseBar
<1>3. Abstract!Resume
  BY <1>1, <1>2 DEF Abstract!Resume, Abstract!Standing, tipBar, phaseBar
<1>4. QED BY <1>3 DEF Abstract!Next

LEMMA RefinementStep ==
  TypeOK /\ CommitInv /\ [Next]_vars => [Abstract!Next]_(Abstract!vars)
<1> SUFFICES ASSUME TypeOK, CommitInv, [Next]_vars
             PROVE  Abstract!Next \/ UNCHANGED Abstract!vars
  OBVIOUS
<1>1. CASE RunStep
  <2>1. /\ phaseBar = "ready" /\ phaseBar' = "working"
        /\ tipBar' = tipBar /\ forces' = forces /\ disk' = disk
    BY <1>1 DEF RunStep, phaseBar, tipBar
  <2>2. Abstract!Begin
    BY <2>1 DEF Abstract!Begin, durableBar, phaseBar, tipBar
  <2>3. QED BY <2>2 DEF Abstract!Next
<1>2. CASE SchedulerStep
  BY <1>2, SchedulerStepRefines
<1>3. CASE SliceCall
  <2>1. UNCHANGED <<control, disk>>
    BY <1>3 DEF SliceCall, SliceCallReturns, SliceCallRaises
  <2>2. QED BY <2>1, StutterStep DEF control, phaseBar
<1>4. CASE Recovery
  <2>1. PICK m \in disk : \/ Recover(m)
                          \/ \E n \in 0..NSlices, loaded \in BOOLEAN : RestoreRaises(m, n, loaded)
                          \/ Restore(m)
    BY <1>4 DEF Recovery
  <2>2. CASE Recover(m) \/ Restore(m)
    BY <2>2, ResumeRefines DEF Recover, Restore, RestoreFrom
  <2>3. CASE \E n \in 0..NSlices, loaded \in BOOLEAN : RestoreRaises(m, n, loaded)
    BY <2>3, StutterStep DEF RestoreRaises, control, phaseBar
  <2>4. QED BY <2>1, <2>2, <2>3
<1>5. CASE Restart
  BY <1>5, ResumeRefines DEF Restart
<1>6. CASE UNCHANGED vars
  BY <1>6, StutterStep DEF vars, control, phaseBar
<1>7. QED BY <1>1, <1>2, <1>3, <1>4, <1>5, <1>6 DEF Next

(***************************************************************************)
(* The driver, with every fault, crash and recovery, implements the tree   *)
(* of durable commits: a commit becomes durable at the appearance of its   *)
(* manifest and at no other point, extends the commit the run stood on by  *)
(* one step, and is never lost.                                            *)
(***************************************************************************)
THEOREM CommitTreeImplemented == Spec => ImplementsCommitTree
BY TypeCorrect, CommitInvariant, RefinementInit, RefinementStep, PTL
   DEF Spec, ImplementsCommitTree, Abstract!Spec
=============================================================================
