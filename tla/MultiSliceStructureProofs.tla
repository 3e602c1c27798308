---------------------- MODULE MultiSliceStructureProofs ----------------------
(***************************************************************************)
(* What the driver does with the structure, for every number of slices,    *)
(* steps and attempts and every executor: it keeps the structure's         *)
(* contract and its manifests form a tree, whatever fails; a manifest      *)
(* continues the structure state the previous forces belong to, and no     *)
(* step is committed twice, unless the log append after COMMITTED raises;  *)
(* a failed transaction has no manifest, unless a publication raises after *)
(* it has happened.                                                        *)
(***************************************************************************)
EXTENDS MultiSliceSchedulerProofs

-----------------------------------------------------------------------------
(* Inherited from the commit tree.                                         *)

TreeOf ==
  INSTANCE CommitTreeProofs WITH
    Ids     <- Attempts,
    Root    <- 0,
    durable <- {CommitOf(m) : m \in disk},
    base    <- forces,
    tip     <- IF busy /\ persisted THEN att ELSE 0,
    phase   <- IF busy THEN "working"
               ELSE IF state \in {"INITIALIZED", "COMMITTED"} THEN "ready" ELSE "broken"

(***************************************************************************)
(* Every manifest continues a manifest of the step before, or the initial  *)
(* condition at step 0, whatever has failed since.                         *)
(***************************************************************************)
ManifestTree == \A m \in disk : Continues(m.forcesFrom, m.step)

LEMMA TreeIsManifestTree == TreeOf!Tree => ManifestTree
<1> SUFFICES ASSUME TreeOf!Tree, NEW m \in disk  PROVE Continues(m.forcesFrom, m.step)
  BY DEF ManifestTree
<1>1. CommitOf(m).parent = m.forcesFrom /\ CommitOf(m).step = m.step
  BY DEF CommitOf
<1>2. TreeOf!AtStep(m.forcesFrom, m.step - 1)
  BY <1>1 DEF TreeOf!Tree
<1>3. QED BY <1>2 DEF TreeOf!AtStep, Continues, CommitOf

THEOREM ManifestsFormTree == Spec => []ManifestTree
<1>1. Abstract!Init <=> TreeOf!Init
  BY DEF Abstract!Init, TreeOf!Init
<1>2. [Abstract!Next]_(Abstract!vars) <=> [TreeOf!Next]_(TreeOf!vars)
  BY DEF Abstract!Next, Abstract!vars, Abstract!Begin, Abstract!Publish, Abstract!Advance,
         Abstract!Break, Abstract!Resume, Abstract!AtStep, Abstract!Standing,
         TreeOf!Next, TreeOf!vars, TreeOf!Begin, TreeOf!Publish, TreeOf!Advance,
         TreeOf!Break, TreeOf!Resume, TreeOf!AtStep, TreeOf!Standing
<1>3. Spec => TreeOf!Spec
  BY <1>1, <1>2, CommitTreeImplemented, PTL DEF ImplementsCommitTree, Abstract!Spec, TreeOf!Spec
<1>4. QED BY <1>3, TreeOf!CommitTreeTheorem, TreeIsManifestTree, PTL
-----------------------------------------------------------------------------
(* The staged correction.                                                  *)

Correcting == busy /\ state \in {"STRUCTURE_CORRECTED", "CHECKPOINT_PREPARED"}

\* Outside run_step, where another may begin.
Settled == ~busy /\ state \in {"INITIALIZED", "COMMITTED"}

(***************************************************************************)
(* What is staged from the correction to the finalization is this          *)
(* attempt's; before and after, and where a step may begin, nothing is.    *)
(* So a manifest holds the structure state of its own attempt.             *)
(***************************************************************************)
StagedInv ==
  /\ Correcting => staged = att
  /\ busy /\ ~Correcting => staged = 0
  /\ Settled => staged = 0
  /\ \A m \in disk : m.struct = m.att

\* A step that leaves the manifests alone, or publishes the prepared one.
Publishes == \/ disk' = disk
             \/ busy /\ state = "CHECKPOINT_PREPARED" /\ disk' = Published

LEMMA StepPublishes == [Next]_vars => Publishes
BY DEF Publishes, Next, vars, SchedulerStep, SliceCall, Recovery, RunStep, Predict, PredictFails,
       Barrier, BarrierFails, MapRaises, Correct, CorrectRaises, CorrectionRejected, Prepare,
       PrepareRaises, Commit, CommitRaises, Finalize, FinalizeRaises, Acknowledge,
       CommitLogRaises, SliceCallReturns, SliceCallRaises, Recover, RestoreRaises, Restore, Restart

LEMMA StructOfManifests ==
  ASSUME CommitInv, StagedInv, Publishes
  PROVE  \A m \in disk' : m.struct = m.att
BY DEF Publishes, Published, StagedInv, Correcting, CommitInv, PreparedInv

LEMMA StagedInit == Init => StagedInv
BY DEF Init, StagedInv, Correcting, Settled

\* The states before the correction.
LEMMA EarlyStates ==
  ASSUME NEW st \in SliceStates
  PROVE  /\ st \notin {"STRUCTURE_CORRECTED", "CHECKPOINT_PREPARED"}
         /\ AfterSlices[st] \notin {"STRUCTURE_CORRECTED", "CHECKPOINT_PREPARED"}
BY DEF SliceStates, SliceOp, AfterSlices

LEMMA SchedulerStepStaged == CommitInv /\ StagedInv /\ SchedulerStep => StagedInv'
<1> SUFFICES ASSUME CommitInv, StagedInv, SchedulerStep  PROVE StagedInv'
  OBVIOUS
<1>1. \A m \in disk' : m.struct = m.att
  BY StructOfManifests, StepPublishes DEF Next
<1>2. CASE PredictFails \/ BarrierFails \/ MapRaises \/ CorrectRaises \/ CorrectionRejected
           \/ PrepareRaises \/ CommitRaises \/ FinalizeRaises
  <2>1. ~busy' /\ state' \in {"FAILED", "RECOVERY_REQUIRED"}
    BY <1>2 DEF PredictFails, BarrierFails, MapRaises, CorrectRaises, CorrectionRejected,
                PrepareRaises, CommitRaises, FinalizeRaises, FailPrecommit
  <2>2. QED BY <1>1, <2>1 DEF StagedInv, Correcting, Settled
<1>3. CASE Predict \/ Barrier \/ Acknowledge \/ CommitLogRaises
  <2>1. busy /\ ~Correcting /\ ~Correcting' /\ staged' = staged
    BY <1>3, EarlyStates
       DEF Predict, Barrier, Acknowledge, CommitLogRaises, Correcting, structure
  <2>2. QED BY <1>1, <2>1 DEF StagedInv
<1>4. CASE Correct \/ Prepare \/ Commit
  <2>1. busy' /\ Correcting' /\ staged' = att'
    BY <1>4 DEF Correct, Prepare, Commit, StagedInv, Correcting, structure
  <2>2. QED BY <1>1, <2>1 DEF StagedInv, Settled, Correcting
<1>5. CASE Finalize
  BY <1>1, <1>5 DEF Finalize, FinalizeCommitted, StagedInv, Correcting, Settled
<1>6. QED BY <1>2, <1>3, <1>4, <1>5 DEF SchedulerStep

LEMMA StagedStep == CommitInv /\ StagedInv /\ [Next]_vars => StagedInv'
<1> SUFFICES ASSUME CommitInv, StagedInv, [Next]_vars  PROVE StagedInv'
  OBVIOUS
<1>1. \A m \in disk' : m.struct = m.att
  BY StructOfManifests, StepPublishes
<1>2. CASE RunStep
  BY <1>1, <1>2 DEF RunStep, structure, StagedInv, Correcting, Settled
<1>3. CASE SchedulerStep
  BY <1>3, SchedulerStepStaged
<1>4. CASE SliceCall
  BY <1>1, <1>4 DEF SliceCall, SliceCallReturns, SliceCallRaises, control, structure, StagedInv,
                    Correcting, Settled
<1>5. CASE Recovery
  <2>1. PICK m \in disk : \/ Recover(m)
                          \/ \E n \in 0..NSlices, loaded \in BOOLEAN : RestoreRaises(m, n, loaded)
                          \/ Restore(m)
    BY <1>5 DEF Recovery
  <2>2. CASE Recover(m) \/ Restore(m)
    BY <1>1, <2>2 DEF Recover, Restore, RestoreFrom, StagedInv, Correcting, Settled
  <2>3. CASE \E n \in 0..NSlices, loaded \in BOOLEAN : RestoreRaises(m, n, loaded)
    BY <1>1, <2>3 DEF RestoreRaises, control, StagedInv, Correcting, Settled
  <2>4. QED BY <2>1, <2>2, <2>3
<1>6. CASE Restart
  BY <1>1, <1>6 DEF Restart, StagedInv, Correcting, Settled
<1>7. CASE UNCHANGED vars
  BY <1>1, <1>7 DEF vars, control, structure, StagedInv, Correcting, Settled
<1>8. QED BY <1>2, <1>3, <1>4, <1>5, <1>6, <1>7 DEF Next

LEMMA StagedInvariant == Spec => []StagedInv
BY CommitInvariant, StagedInit, StagedStep, PTL DEF Spec
-----------------------------------------------------------------------------
(* The driver keeps the structure's contract.                              *)

structsBar == {m.struct : m \in disk}

LEMMA StagingInit == Init => Staging!Init
BY DEF Init, Staging!Init

\* A step in which the structure is not called, or discards.
LEMMA QuietStaging ==
  ASSUME UNCHANGED <<committed, disk>>, staged' \in {staged, 0}
  PROVE  [Staging!Next]_(Staging!vars)
BY DEF Staging!Next, Staging!Discard, Staging!vars

LEMMA FailPrecommitStaging ==
  ASSUME FailPrecommit, disk' = disk  PROVE [Staging!Next]_(Staging!vars)
BY QuietStaging DEF FailPrecommit

\* correct_all stages what no manifest holds, and finds nothing staged.
LEMMA StageRefines ==
  ASSUME TypeOK, CommitInv, StagedInv, busy, state = "LOADS_CONSUMED",
         staged' = att, UNCHANGED <<committed, disk>>
  PROVE  Staging!Next
<1>1. staged = 0
  BY DEF StagedInv, Correcting
<1>2. att \in Attempts /\ ~persisted
  BY SizeAssumption
     DEF CommitInv, StateInv, DiskInv, TypeOK, ControlOK, Versions, Attempts
<1>3. \A m \in disk : m.struct # att
  BY <1>2 DEF StagedInv, CommitInv, DiskInv
<1>4. Staging!Stage
  BY <1>1, <1>2, <1>3 DEF Staging!Stage
<1>5. QED BY <1>4 DEF Staging!Next

\* The staged correction's manifest appears.
LEMMA StagedPublished ==
  ASSUME TypeOK, CommitInv, busy, state = "CHECKPOINT_PREPARED", disk' = Published,
         committed' = committed, staged' \in {staged, 0}
  PROVE  Staging!Next
<1>1. prepared.struct = staged /\ staged \in Attempts
  BY SizeAssumption
     DEF CommitInv, PreparedInv, TypeOK, StructureOK, Versions, Attempts
<1>2. structsBar' = structsBar \cup {staged}
  BY <1>1 DEF structsBar, Published
<1>3. Staging!Publish
  BY <1>1, <1>2 DEF Staging!Publish, structsBar
<1>4. QED BY <1>3 DEF Staging!Next

LEMMA FinalizeRefines ==
  ASSUME CommitInv, Finalize  PROVE Staging!Next
<1>1. prepared \in disk /\ prepared.struct = staged /\ staged # 0
  BY DEF Finalize, Finalizable, CommitInv, StateInv, PreparedInv
<1>2. Staging!Finalize
  BY <1>1 DEF Finalize, FinalizeCommitted, Staging!Finalize
<1>3. QED BY <1>2 DEF Staging!Next

\* A load from a manifest on disk, or of the initial condition.
LEMMA LoadRefines ==
  ASSUME disk' = disk, staged' = 0, committed' = 0 \/ \E m \in disk : committed' = m.struct
  PROVE  Staging!Next
BY DEF Staging!Next, Staging!Load

LEMMA SchedulerStepStaging ==
  ASSUME TypeOK, CommitInv, StagedInv, SchedulerStep
  PROVE  [Staging!Next]_(Staging!vars)
<1> USE DEF structure
<1>1. CASE Predict \/ Barrier \/ Prepare \/ FinalizeRaises \/ Acknowledge \/ CommitLogRaises
  BY <1>1, QuietStaging
     DEF Predict, Barrier, Prepare, FinalizeRaises, Acknowledge, CommitLogRaises
<1>2. CASE PredictFails \/ BarrierFails \/ MapRaises \/ CorrectRaises \/ PrepareRaises
  BY <1>2, FailPrecommitStaging
     DEF PredictFails, BarrierFails, MapRaises, CorrectRaises, PrepareRaises
<1>3. CASE Correct
  BY <1>3, StageRefines DEF Correct
<1>4. CASE CorrectionRejected
  BY <1>4, StageRefines, QuietStaging DEF CorrectionRejected
<1>5. CASE Commit
  BY <1>5, StagedPublished DEF Commit
<1>6. CASE CommitRaises
  BY <1>6, FailPrecommitStaging, StagedPublished DEF CommitRaises, FailPrecommit
<1>7. CASE Finalize
  BY <1>7, FinalizeRefines
<1>8. QED BY <1>1, <1>2, <1>3, <1>4, <1>5, <1>6, <1>7 DEF SchedulerStep

LEMMA StagingStep ==
  TypeOK /\ CommitInv /\ StagedInv /\ [Next]_vars => [Staging!Next]_(Staging!vars)
<1> SUFFICES ASSUME TypeOK, CommitInv, StagedInv, [Next]_vars
             PROVE  [Staging!Next]_(Staging!vars)
  OBVIOUS
<1>1. CASE RunStep \/ SliceCall \/ UNCHANGED vars
  BY <1>1, QuietStaging
     DEF RunStep, SliceCall, SliceCallReturns, SliceCallRaises, vars, structure
<1>2. CASE SchedulerStep
  BY <1>2, SchedulerStepStaging
<1>3. CASE Recovery
  BY <1>3, LoadRefines, QuietStaging
     DEF Recovery, Recover, Restore, RestoreFrom, RestoreRaises
<1>4. CASE Restart
  BY <1>4, LoadRefines DEF Restart
<1>5. QED BY <1>1, <1>2, <1>3, <1>4 DEF Next

(***************************************************************************)
(* The driver, with every fault, crash and recovery, keeps the contract of *)
(* the structure it drives: it stages a correction when nothing is staged  *)
(* and no manifest holds it, finalizes what a manifest holds, and goes     *)
(* back to nothing else.  This is the contract the production structure is *)
(* shown to implement in PersistentAncfProofs.                             *)
(***************************************************************************)
THEOREM StagingKept == Spec => ImplementsStaging
BY TypeCorrect, CommitInvariant, StagedInvariant, StagingInit, StagingStep, PTL
   DEF Spec, ImplementsStaging, Staging!Spec
-----------------------------------------------------------------------------
(* The structure's line of commits.                                        *)

\* The scheduler's previous forces belong to the structure's state.
OneStateInv ==
  /\ busy => committed = IF state = "COMMITTED" THEN att ELSE forces
  /\ Settled => committed = forces

ContinuesForces(m) == m.structFrom = m.forcesFrom

ForcesInv ==
  /\ OneStateInv
  /\ busy /\ state = "CHECKPOINT_PREPARED" => ContinuesForces(prepared)
  /\ \A m \in disk : ContinuesForces(m)

LEMMA ForcesInit == Init => ForcesInv
BY DEF Init, ForcesInv, OneStateInv, Settled

\* A step that prepares no manifest and keeps OneStateInv.
LEMMA ForcesKept ==
  ASSUME ForcesInv, Publishes, OneStateInv',
         busy' /\ state' = "CHECKPOINT_PREPARED" =>
           busy /\ state = "CHECKPOINT_PREPARED" /\ prepared' = prepared
  PROVE  ForcesInv'
BY DEF ForcesInv, ContinuesForces, Publishes, Published

LEMMA SchedulerStepForces ==
  ASSUME "commit_log" \notin Faults, TypeOK, CommitInv, StagedInv, ForcesInv, SchedulerStep
  PROVE  ForcesInv'
<1>1. Publishes
  BY StepPublishes DEF Next
<1> USE DEF structure
<1>2. CASE PredictFails \/ BarrierFails \/ MapRaises \/ CorrectRaises \/ CorrectionRejected
           \/ PrepareRaises \/ CommitRaises \/ FinalizeRaises
  <2>1. ~busy' /\ state' \in {"FAILED", "RECOVERY_REQUIRED"}
    BY <1>2 DEF PredictFails, BarrierFails, MapRaises, CorrectRaises, CorrectionRejected,
                PrepareRaises, CommitRaises, FinalizeRaises, FailPrecommit
  <2>2. QED BY <1>1, <2>1, ForcesKept DEF OneStateInv, Settled
<1>3. CASE Predict \/ Barrier \/ Correct
  <2>1. /\ busy /\ busy' /\ state # "COMMITTED"
        /\ state' \notin {"COMMITTED", "CHECKPOINT_PREPARED"}
        /\ UNCHANGED <<committed, forces>>
    BY <1>3 DEF Predict, Barrier, Correct, SliceStates, SliceOp, AfterSlices
  <2>2. QED BY <1>1, <2>1, ForcesKept DEF ForcesInv, OneStateInv, Settled
<1>4. CASE Prepare
  BY <1>1, <1>4 DEF Prepare, NewManifest, ForcesInv, OneStateInv, Settled, ContinuesForces
<1>5. CASE Commit
  BY <1>1, <1>5, ForcesKept DEF Commit, ForcesInv, OneStateInv, Settled
<1>6. CASE Finalize
  <2>1. staged = att /\ att # 0
    BY <1>6 DEF Finalize, Finalizable, StagedInv, Correcting, CommitInv, DiskInv
  <2>2. QED BY <1>1, <1>6, <2>1, ForcesKept
            DEF Finalize, Finalizable, FinalizeCommitted, OneStateInv, Settled
<1>7. CASE Acknowledge
  BY <1>1, <1>7, ForcesKept DEF Acknowledge, ForcesInv, OneStateInv, Settled
<1>8. CASE CommitLogRaises
  BY <1>8 DEF CommitLogRaises
<1>9. QED BY <1>2, <1>3, <1>4, <1>5, <1>6, <1>7, <1>8 DEF SchedulerStep

LEMMA ForcesStep ==
  ASSUME "commit_log" \notin Faults
  PROVE  TypeOK /\ CommitInv /\ StagedInv /\ ForcesInv /\ [Next]_vars => ForcesInv'
<1> SUFFICES ASSUME TypeOK, CommitInv, StagedInv, ForcesInv, [Next]_vars  PROVE ForcesInv'
  OBVIOUS
<1>1. Publishes
  BY StepPublishes
<1>2. CASE RunStep
  BY <1>1, <1>2, ForcesKept DEF RunStep, structure, ForcesInv, OneStateInv, Settled
<1>3. CASE SchedulerStep
  BY <1>3, SchedulerStepForces
<1>4. CASE SliceCall \/ UNCHANGED vars
  <2>1. UNCHANGED <<state, busy, forces, att, committed, prepared>>
    BY <1>4 DEF SliceCall, SliceCallReturns, SliceCallRaises, vars, control, structure
  <2>2. QED BY <1>1, <2>1, ForcesKept DEF ForcesInv, OneStateInv, Settled
<1>5. CASE Recovery
  <2>1. PICK m \in disk : \/ Recover(m)
                          \/ \E n \in 0..NSlices, loaded \in BOOLEAN : RestoreRaises(m, n, loaded)
                          \/ Restore(m)
    BY <1>5 DEF Recovery
  <2>2. CASE Recover(m) \/ Restore(m)
    <3>1. ~busy' /\ committed' = m.struct /\ forces' = m.att
      BY <2>2 DEF Recover, Restore, RestoreFrom
    <3>2. committed' = forces'
      BY <3>1 DEF StagedInv
    <3>3. QED BY <1>1, <3>1, <3>2, ForcesKept DEF OneStateInv
  <2>3. CASE \E n \in 0..NSlices, loaded \in BOOLEAN : RestoreRaises(m, n, loaded)
    <3>1. /\ ~busy /\ UNCHANGED <<state, busy, forces>>
          /\ state = "RECOVERY_REQUIRED" \/ committed' = committed
      BY <2>3 DEF RestoreRaises, control
    <3>2. OneStateInv'
      BY <3>1 DEF ForcesInv, OneStateInv, Settled
    <3>3. QED BY <1>1, <3>1, <3>2, ForcesKept
  <2>4. QED BY <2>1, <2>2, <2>3
<1>6. CASE Restart
  BY <1>1, <1>6, ForcesKept DEF Restart, OneStateInv
<1>7. QED BY <1>2, <1>3, <1>4, <1>5, <1>6 DEF Next

LEMMA ForcesInvariant == ASSUME "commit_log" \notin Faults  PROVE Spec => []ForcesInv
BY TypeCorrect, CommitInvariant, StagedInvariant, ForcesInit, ForcesStep, PTL DEF Spec

(***************************************************************************)
(* A manifest's structure state was computed from the state its previous   *)
(* forces belong to, that of a manifest of the step before: unless the log *)
(* append after COMMITTED raises, whatever else does, half-way restores    *)
(* and silent slices included.                                             *)
(***************************************************************************)
StructureContinuous ==
  \A m \in disk : /\ m.struct = m.att /\ m.structFrom = m.forcesFrom
                  /\ Continues(m.forcesFrom, m.step)

THEOREM StructureContinues ==
  ASSUME "commit_log" \notin Faults  PROVE Spec => []StructureContinuous
<1>1. StagedInv /\ ForcesInv /\ ManifestTree => StructureContinuous
  BY DEF StagedInv, ForcesInv, ContinuesForces, ManifestTree, StructureContinuous
<1>2. QED BY <1>1, StagedInvariant, ForcesInvariant, ManifestsFormTree, PTL

(***************************************************************************)
(* No second commit for the same step, from that same assumption: a        *)
(* manifest that started from the structure state of another one is of the *)
(* step after it.  The run commit_log shows that the assumption is needed. *)
(***************************************************************************)
THEOREM CommitsOnce == ASSUME "commit_log" \notin Faults  PROVE Spec => []NoSecondCommit
<1>1. ASSUME TypeOK, CommitInv, StructureContinuous,
             NEW m \in disk, NEW n \in disk, m.step = n.step, m.structFrom = n.struct
      PROVE  FALSE
  <2>1. m.forcesFrom = n.att /\ n.att # 0
    BY <1>1 DEF StructureContinuous, CommitInv, DiskInv
  <2>2. PICK k \in disk : k.att = n.att /\ k.step = m.step - 1
    BY <1>1, <2>1 DEF StructureContinuous, Continues
  <2>3. k = n
    BY <1>1, <2>2 DEF CommitInv, DiskInv
  <2>4. m.step \in Int
    BY <1>1, SizeAssumption DEF TypeOK, Manifests, Steps
  <2>5. QED BY <1>1, <2>2, <2>3, <2>4
<1>2. TypeOK /\ CommitInv /\ StructureContinuous => NoSecondCommit
  BY <1>1 DEF NoSecondCommit
<1>3. QED BY <1>2, TypeCorrect, CommitInvariant, StructureContinues, PTL
-----------------------------------------------------------------------------
(* Failed transactions.                                                    *)

LEMMA HandledStep ==
  ASSUME "published" \notin Faults
  PROVE  TypeOK /\ CommitInv /\ NoUnhandledCommit /\ [Next]_vars => NoUnhandledCommit'
<1> SUFFICES ASSUME TypeOK, CommitInv, NoUnhandledCommit, [Next]_vars, state' = "FAILED"
             PROVE  \A m \in disk' : m.att # att'
  BY DEF NoUnhandledCommit
<1>1. CASE state = "FAILED"
  <2>1. ~busy
    BY <1>1 DEF CommitInv, StateInv
  <2>2. UNCHANGED <<att, disk>>
    BY <1>1, <2>1
       DEF Next, vars, SchedulerStep, SliceCall, Recovery, RunStep, Predict, PredictFails,
           Barrier, BarrierFails, MapRaises, Correct, CorrectRaises, CorrectionRejected, Prepare,
           PrepareRaises, Commit, CommitRaises, Finalize, Finalizable, FinalizeRaises,
           Acknowledge, CommitLogRaises, SliceCallReturns, SliceCallRaises, Recover,
           RestoreRaises, Restore, Restart, control
  <2>3. QED BY <1>1, <2>2 DEF NoUnhandledCommit
<1>2. CASE state # "FAILED"
  <2>1. \/ PredictFails \/ BarrierFails \/ MapRaises \/ CorrectRaises \/ CorrectionRejected
        \/ PrepareRaises \/ CommitRaises
    BY <1>2
       DEF Next, vars, SchedulerStep, SliceCall, Recovery, RunStep, Predict, Barrier,
           SliceStates, SliceOp, AfterSlices, Correct, Prepare, Commit, Finalize,
           FinalizeRaises, Acknowledge, CommitLogRaises, SliceCallReturns, SliceCallRaises,
           Recover, RestoreRaises, Restore, Restart, control
  <2>2. /\ busy /\ ~persisted
        /\ UNCHANGED <<att, disk>>
    BY <2>1
       DEF PredictFails, BarrierFails, MapRaises, CorrectRaises, CorrectionRejected,
           PrepareRaises, CommitRaises, FailPrecommit, SliceStates, SliceOp, CommitInv, StateInv
  <2>3. QED BY <2>2 DEF CommitInv, DiskInv
<1>3. QED BY <1>1, <1>2

(***************************************************************************)
(* A FAILED transaction has left no committed manifest, unless a commit    *)
(* raises after its manifest is in place: in every other way a transaction *)
(* can fail, the disk knows nothing of it.  The run published shows that   *)
(* the assumption is needed.                                               *)
(***************************************************************************)
THEOREM FailuresAreHandled ==
  ASSUME "published" \notin Faults  PROVE Spec => []NoUnhandledCommit
<1>1. Init => NoUnhandledCommit
  BY DEF Init, NoUnhandledCommit
<1>2. QED BY <1>1, HandledStep, TypeCorrect, CommitInvariant, PTL DEF Spec
==============================================================================
