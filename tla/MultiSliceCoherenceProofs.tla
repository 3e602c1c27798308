--------------------- MODULE MultiSliceCoherenceProofs ---------------------
(***************************************************************************)
(* For every number of slices, steps and attempts and every executor: the  *)
(* calls in flight, the way back, the files of a step and the solvers, in  *)
(* four layers, each with no more of the faults excluded than it needs:    *)
(*   - no call of a failed transaction runs on outside the reused pool,    *)
(*     and the manifest to return to can be restored: with every fault;    *)
(*   - a manifest is of one attempt and was acknowledged: if no slice      *)
(*     returns without a load ("silent");                                  *)
(*   - a manifest continues one state in all its parts: if besides no log  *)
(*     append after COMMITTED raises ("commit_log") and no restore raises  *)
(*     half-way into a scheduler that has not run ("restore").             *)
(***************************************************************************)
EXTENDS MultiSliceStructureProofs

-----------------------------------------------------------------------------
(* The calls in flight.                                                    *)

(***************************************************************************)
(* Which slice calls can be in flight, and when one can have raised: in a  *)
(* phase, its own; in a failed transaction of the reused pool, those that  *)
(* outlive the exception; elsewhere none.                                  *)
(***************************************************************************)
CallsInv ==
  /\ state \in SliceStates => tasks \subseteq Submit(state)
  /\ state \notin SliceStates \cup {"FAILED"} => tasks = {} /\ failed = {}
  /\ FailedIsQuiet

LEMMA CallsInit == Init => CallsInv
BY DEF Init, CallsInv, FailedIsQuiet, SliceStates, SliceOp

LEMMA NextPhase ==
  ASSUME state \in SliceStates
  PROVE  AfterSlices[state] \in SliceStates \cup {"LOADS_CONSUMED"}
BY DEF SliceStates, SliceOp, AfterSlices

\* No state between two phases, and none outside run_step, is a phase.
LEMMA PhaseNames ==
  {"INITIALIZED", "LOADS_CONSUMED", "STRUCTURE_CORRECTED", "CHECKPOINT_PREPARED",
   "COMMITTED", "RECOVERY_REQUIRED", "FAILED"} \cap SliceStates = {}
BY DEF SliceStates, SliceOp

\* A transaction that fails where no call is in flight.
LEMMA FailIdleCalls ==
  ASSUME state' = "FAILED", tasks' = {}  PROVE CallsInv'
BY PhaseNames DEF CallsInv, FailedIsQuiet

LEMMA SchedulerStepCalls == TypeOK /\ CallsInv /\ SchedulerStep => CallsInv'
<1> SUFFICES ASSUME TypeOK, CallsInv, SchedulerStep  PROVE CallsInv'
  OBVIOUS
<1> USE DEF calls
<1>1. CASE Predict
  <2>1. "PREDICTED" \in SliceStates
    BY DEF SliceStates, SliceOp
  <2>2. tasks' = Submit("PREDICTED") /\ state' = "PREDICTED"
    BY <1>1 DEF Predict
  <2>3. Submit("PREDICTED")' = Submit("PREDICTED")
    BY DEF Submit
  <2>4. QED BY <2>1, <2>2, <2>3 DEF CallsInv, FailedIsQuiet, Submit
<1>2. CASE PredictFails \/ CorrectRaises \/ CorrectionRejected \/ PrepareRaises \/ CommitRaises
  BY <1>2, FailIdleCalls, PhaseNames
     DEF PredictFails, CorrectRaises, CorrectionRejected, PrepareRaises, CommitRaises,
         FailPrecommit, CallsInv
<1>3. CASE Barrier
  <2>1. failed' = {} /\ state' \in SliceStates \cup {"LOADS_CONSUMED"}
    BY <1>3, NextPhase DEF Barrier, AllReturned
  <2>2. CASE state' \in SliceStates
    <3>1. tasks' = Submit(state')
      BY <1>3, <2>2 DEF Barrier
    <3>2. state' # "FAILED"
      BY <2>2, PhaseNames
    <3>3. QED BY <2>1, <2>2, <3>1, <3>2 DEF CallsInv, FailedIsQuiet, Submit
  <2>3. CASE state' \notin SliceStates
    BY <1>3, <2>1, <2>3 DEF Barrier, CallsInv, FailedIsQuiet
  <2>4. QED BY <2>2, <2>3
<1>4. CASE BarrierFails
  BY <1>4, FailIdleCalls DEF BarrierFails, AllReturned, FailPrecommit
<1>5. CASE MapRaises
  <2>1. /\ state' = "FAILED" /\ mode' = mode
        /\ mode = "fork_join" => tasks = {}
        /\ tasks' = IF mode = "sequential" THEN {} ELSE tasks
    BY <1>5 DEF MapRaises, Joined, FailPrecommit
  <2>2. FailedIsQuiet'
    BY <2>1 DEF TypeOK, ControlOK, AllModes, FailedIsQuiet
  <2>3. QED BY <2>1, <2>2, PhaseNames DEF CallsInv
<1>6. CASE Correct \/ Prepare \/ Commit \/ Finalize \/ FinalizeRaises \/ Acknowledge
           \/ CommitLogRaises
  <2>1. /\ tasks' = {} /\ failed' = {}
        /\ state' \in {"STRUCTURE_CORRECTED", "CHECKPOINT_PREPARED", "COMMITTED",
                       "RECOVERY_REQUIRED"}
    BY <1>6, PhaseNames
       DEF Correct, Prepare, Commit, Finalize, Finalizable, FinalizeRaises, Acknowledge,
           CommitLogRaises, CallsInv
  <2>2. QED BY <2>1, PhaseNames DEF CallsInv, FailedIsQuiet
<1>7. QED BY <1>1, <1>2, <1>3, <1>4, <1>5, <1>6 DEF SchedulerStep

LEMMA SliceCallCalls == CallsInv /\ SliceCall => CallsInv'
<1> SUFFICES ASSUME CallsInv, NEW t \in tasks, SliceCallReturns(t) \/ SliceCallRaises(t)
             PROVE  CallsInv'
  BY DEF SliceCall
<1>1. /\ tasks' = tasks \ {t}
      /\ state' = state /\ mode' = mode
  BY DEF SliceCallReturns, SliceCallRaises, control
<1>2. Submit(state)' = Submit(state)
  BY <1>1 DEF Submit
<1>3. state \in SliceStates \cup {"FAILED"}
  BY DEF CallsInv
<1>4. QED BY <1>1, <1>2, <1>3 DEF CallsInv, FailedIsQuiet

LEMMA CallsStep == TypeOK /\ CallsInv /\ [Next]_vars => CallsInv'
<1> SUFFICES ASSUME TypeOK, CallsInv, [Next]_vars  PROVE CallsInv'
  OBVIOUS
<1>1. CASE RunStep
  BY <1>1, PhaseNames DEF RunStep, CallsInv, FailedIsQuiet
<1>2. CASE SchedulerStep
  BY <1>2, SchedulerStepCalls
<1>3. CASE SliceCall
  BY <1>3, SliceCallCalls
<1>4. CASE Recovery
  <2>1. /\ tasks' = tasks /\ failed' = failed /\ mode' = mode
        /\ state' = state \/ (state = "RECOVERY_REQUIRED" /\ state' = "INITIALIZED")
    BY <1>4 DEF Recovery, Recover, RestoreRaises, Restore, calls, control
  <2>2. QED BY <2>1, PhaseNames DEF CallsInv, FailedIsQuiet, Submit
<1>5. CASE Restart
  BY <1>5, PhaseNames DEF Restart, CallsInv, FailedIsQuiet
<1>6. CASE UNCHANGED vars
  BY <1>6 DEF vars, control, calls, CallsInv, FailedIsQuiet, Submit
<1>7. QED BY <1>1, <1>2, <1>3, <1>4, <1>5, <1>6 DEF Next

LEMMA CallsInvariant == Spec => []CallsInv
BY TypeCorrect, CallsInit, CallsStep, PTL DEF Spec

(***************************************************************************)
(* A failed transaction leaves no slice call behind that could still       *)
(* write, under the sequential map and the joined executor, whatever has   *)
(* failed: an exception leaves _parallel_slice_map only when no call runs. *)
(***************************************************************************)
THEOREM FailureIsQuiet == Spec => []FailedIsQuiet
<1>1. CallsInv => FailedIsQuiet
  BY DEF CallsInv
<1>2. QED BY <1>1, CallsInvariant, PTL
-----------------------------------------------------------------------------
(* The way back.                                                           *)

\* A call writes time directories of the running step only.
LEMMA SliceCallElsewhere ==
  ASSUME TypeOK, NEW t \in tasks, SliceCallReturns(t) \/ SliceCallRaises(t)
  PROVE  \A s \in Slices, n \in Steps :
           s # t.slice \/ n # cur => timedir'[<<s, n>>] = timedir[<<s, n>>]
<1>1. timedir' = timedir \/ WriteTimeDir(t)
  BY DEF SliceCallReturns, SliceCallRaises, PublishMotion, WaitMotionConsumed, AdvanceOneStep,
         ReadLoad, PublishLoadConsumed, TornEffect, files
<1>2. SUFFICES ASSUME WriteTimeDir(t), NEW s \in Slices, NEW n \in Steps,
                      s # t.slice \/ n # cur
               PROVE  timedir'[<<s, n>>] = timedir[<<s, n>>]
  BY <1>1
<1>3. <<s, n>> # At(t) /\ <<s, n>> \in Slices \X Steps
  BY <1>2 DEF At
<1>4. QED BY <1>2, <1>3 DEF WriteTimeDir, TypeOK, FilesOK

\* A failed transaction's calls, too, work on the step after the last.
FailedStepInv == state = "FAILED" => cur = last + 1

\* Once persisted, the running attempt can be restored.
PersistedInv == busy /\ persisted => \E m \in disk : m.att = att /\ Restorable(m)

ReturnInv == FailedStepInv /\ PersistedInv /\ WayBack

LEMMA ReturnInit == Init => ReturnInv
BY DEF Init, ReturnInv, FailedStepInv, PersistedInv, WayBack

LEMMA QuietRestorable ==
  ASSUME timedir' = timedir, disk \subseteq disk', NEW v, \E m \in disk : m.att = v /\ Restorable(m)
  PROVE  \E m \in disk' : m.att = v /\ Restorable(m)'
BY DEF Restorable

\* Only slice calls write time directories, and nothing removes a manifest.
LEMMA QuietFiles ==
  ASSUME RunStep \/ SchedulerStep \/ Recovery \/ Restart
  PROVE  timedir' = timedir /\ disk \subseteq disk'
BY DEF RunStep, SchedulerStep, Recovery, Restart, Predict, PredictFails, Barrier, BarrierFails,
       MapRaises, Correct, CorrectRaises, CorrectionRejected, Prepare, PrepareRaises, Commit,
       CommitRaises, Published, Finalize, FinalizeRaises, Acknowledge, CommitLogRaises, Recover,
       RestoreRaises, Restore, files

LEMMA SchedulerStepReturn ==
  TypeOK /\ CommitInv /\ ReturnInv /\ SchedulerStep => ReturnInv'
<1> SUFFICES ASSUME TypeOK, CommitInv, ReturnInv, SchedulerStep  PROVE ReturnInv'
  OBVIOUS
<1>1. timedir' = timedir /\ disk \subseteq disk'
  BY QuietFiles
<1>2. CASE PredictFails \/ BarrierFails \/ MapRaises \/ CorrectRaises \/ CorrectionRejected
           \/ PrepareRaises \/ CommitRaises
  <2>1. /\ busy /\ ~busy' /\ state' = "FAILED"
        /\ UNCHANGED <<last, forces, cur>>
    BY <1>2 DEF PredictFails, BarrierFails, MapRaises, CorrectRaises, CorrectionRejected,
                PrepareRaises, CommitRaises, FailPrecommit
  <2>2. FailedStepInv' /\ PersistedInv'
    BY <2>1 DEF FailedStepInv, PersistedInv, CommitInv, StandsInv
  <2>3. WayBack'
    BY <1>1, <2>1, QuietRestorable DEF ReturnInv, WayBack
  <2>4. QED BY <2>2, <2>3 DEF ReturnInv
<1>3. CASE Predict \/ Barrier \/ Correct \/ Prepare \/ Finalize
  <2>1. /\ state' \notin {"FAILED", "RECOVERY_REQUIRED"}
        /\ UNCHANGED <<busy, forces, att, persisted>>
    BY <1>3, PhaseNames, NextPhase DEF Predict, Barrier, Correct, Prepare, Finalize
  <2>2. WayBack'
    BY <1>1, <2>1, QuietRestorable DEF ReturnInv, WayBack
  <2>3. PersistedInv'
    BY <1>1, <2>1, QuietRestorable DEF ReturnInv, PersistedInv
  <2>4. QED BY <2>1, <2>2, <2>3 DEF ReturnInv, FailedStepInv
<1>4. CASE Commit
  <2>1. /\ state = "CHECKPOINT_PREPARED" /\ state' = state /\ busy
        /\ UNCHANGED <<forces, att>>
        /\ prepared \in disk' /\ Restorable(prepared)
    BY <1>4 DEF Commit, Published
  <2>2. prepared.att = att
    BY <2>1 DEF CommitInv, PreparedInv
  <2>3. PersistedInv'
    BY <1>1, <2>1, <2>2 DEF PersistedInv, Restorable
  <2>4. WayBack'
    BY <1>1, <2>1, QuietRestorable DEF ReturnInv, WayBack
  <2>5. QED BY <2>1, <2>3, <2>4 DEF ReturnInv, FailedStepInv
<1>5. CASE FinalizeRaises
  <2>1. /\ busy /\ persisted /\ ~busy' /\ state' = "RECOVERY_REQUIRED"
        /\ UNCHANGED <<forces, att>>
    BY <1>5 DEF FinalizeRaises, Finalizable
  <2>2. \E m \in disk : m.att = att /\ Restorable(m)
    BY <2>1 DEF ReturnInv, PersistedInv
  <2>3. WayBack'
    BY <1>1, <2>1, <2>2, QuietRestorable DEF ReturnInv, WayBack
  <2>4. QED BY <2>1, <2>3 DEF ReturnInv, FailedStepInv, PersistedInv
<1>6. CASE Acknowledge
  <2>1. busy /\ persisted /\ ~busy' /\ state' = "COMMITTED" /\ forces' = att
    BY <1>6 DEF Acknowledge, CommitInv, StateInv
  <2>2. \E m \in disk : m.att = att /\ Restorable(m)
    BY <2>1 DEF ReturnInv, PersistedInv
  <2>3. WayBack'
    BY <1>1, <2>1, <2>2, QuietRestorable DEF WayBack
  <2>4. QED BY <2>1, <2>3 DEF ReturnInv, FailedStepInv, PersistedInv
<1>7. CASE CommitLogRaises
  <2>1. ~busy' /\ state' = "COMMITTED" /\ forces' = forces
    BY <1>7 DEF CommitLogRaises
  <2>2. WayBack'
    BY <1>1, <2>1, QuietRestorable DEF ReturnInv, WayBack
  <2>3. QED BY <2>1, <2>2 DEF ReturnInv, FailedStepInv, PersistedInv
<1>8. QED BY <1>2, <1>3, <1>4, <1>5, <1>6, <1>7 DEF SchedulerStep

\* A slice call, of a failed transaction too, writes over the time directories
\* of the step after the one the scheduler stands on.
LEMMA SliceCallReturn ==
  TypeOK /\ CommitInv /\ CallsInv /\ ReturnInv /\ SliceCall => ReturnInv'
<1> SUFFICES ASSUME TypeOK, CommitInv, CallsInv, ReturnInv, NEW t \in tasks,
                    SliceCallReturns(t) \/ SliceCallRaises(t)
             PROVE  ReturnInv'
  BY DEF SliceCall
<1>1. UNCHANGED <<state, busy, last, forces, cur, att, persisted, disk>>
  BY DEF SliceCallReturns, SliceCallRaises, control
<1>2. state \in SliceStates \/ state = "FAILED"
  BY DEF CallsInv
<1>3. /\ state # "RECOVERY_REQUIRED" /\ ~(busy /\ persisted)
      /\ cur = last + 1
  BY <1>2, PhaseNames DEF CommitInv, StateInv, StandsInv, ReturnInv, FailedStepInv
<1>4. ASSUME forces # 0  PROVE \E m \in disk : m.att = forces /\ Restorable(m)'
  <2>1. PICK m \in disk : m.att = forces /\ Restorable(m)
    BY <1>4 DEF ReturnInv, WayBack
  <2>2. m.step = last
    BY <1>4, <2>1 DEF CommitInv, StandsInv, DiskInv
  <2>3. m.step \in Steps /\ m.step # cur
    BY <1>3, <2>2, SizeAssumption DEF TypeOK, ControlOK, Manifests, Steps
  <2>4. \A s \in Slices : timedir'[<<s, m.step>>] = timedir[<<s, m.step>>]
    BY <2>3, SliceCallElsewhere
  <2>5. QED BY <2>1, <2>4 DEF Restorable
<1>5. QED BY <1>1, <1>3, <1>4 DEF ReturnInv, FailedStepInv, PersistedInv, WayBack

LEMMA ReturnStep ==
  TypeOK /\ CommitInv /\ CallsInv /\ ReturnInv /\ [Next]_vars => ReturnInv'
<1> SUFFICES ASSUME TypeOK, CommitInv, CallsInv, ReturnInv, [Next]_vars  PROVE ReturnInv'
  OBVIOUS
<1>1. CASE RunStep
  <2>1. state' = "INITIALIZED" /\ ~persisted' /\ forces' = forces
    BY <1>1 DEF RunStep
  <2>2. WayBack'
    BY <1>1, <2>1, QuietFiles, QuietRestorable DEF ReturnInv, WayBack
  <2>3. QED BY <2>1, <2>2 DEF ReturnInv, FailedStepInv, PersistedInv
<1>2. CASE SchedulerStep
  BY <1>2, SchedulerStepReturn
<1>3. CASE SliceCall
  BY <1>3, SliceCallReturn
<1>4. CASE Recovery
  <2>1. PICK m \in disk : \/ Recover(m)
                          \/ \E n \in 0..NSlices, loaded \in BOOLEAN : RestoreRaises(m, n, loaded)
                          \/ Restore(m)
    BY <1>4 DEF Recovery
  <2>2. timedir' = timedir /\ disk \subseteq disk'
    BY <1>4, QuietFiles
  <2>3. CASE Recover(m) \/ Restore(m)
    <3>1. state' = "INITIALIZED" /\ ~busy' /\ forces' = m.att /\ Restorable(m)
      BY <2>3 DEF Recover, Restore, RestoreFrom
    <3>2. WayBack'
      BY <2>2, <3>1, QuietRestorable DEF WayBack
    <3>3. QED BY <3>1, <3>2 DEF ReturnInv, FailedStepInv, PersistedInv
  <2>4. CASE \E n \in 0..NSlices, loaded \in BOOLEAN : RestoreRaises(m, n, loaded)
    <3>1. UNCHANGED <<state, busy, last, forces, cur, att, persisted>>
      BY <2>4 DEF RestoreRaises, control
    <3>2. WayBack'
      BY <2>2, <3>1, QuietRestorable DEF ReturnInv, WayBack
    <3>3. PersistedInv'
      BY <2>2, <3>1, QuietRestorable DEF ReturnInv, PersistedInv
    <3>4. QED BY <3>1, <3>2, <3>3 DEF ReturnInv, FailedStepInv
  <2>5. QED BY <2>1, <2>3, <2>4
<1>5. CASE Restart
  BY <1>5 DEF Restart, ReturnInv, FailedStepInv, PersistedInv, WayBack
<1>6. CASE UNCHANGED vars
  BY <1>6 DEF vars, control, files, ReturnInv, FailedStepInv, PersistedInv, WayBack, Restorable
<1>7. QED BY <1>1, <1>2, <1>3, <1>4, <1>5, <1>6 DEF Next

LEMMA ReturnInvariant == Spec => []ReturnInv
BY TypeCorrect, CommitInvariant, CallsInvariant, ReturnInit, ReturnStep, PTL DEF Spec

(***************************************************************************)
(* The manifest the scheduler stands on, and one whose commit was not      *)
(* finalized, can always be restored, whatever has failed: no later step   *)
(* and no call that outlives its transaction writes over the time          *)
(* directories it names.                                                   *)
(***************************************************************************)
THEOREM WayBackIsKept == Spec => []WayBack
<1>1. ReturnInv => WayBack
  BY DEF ReturnInv
<1>2. QED BY <1>1, ReturnInvariant, PTL
-----------------------------------------------------------------------------
(* The progress of a slice through the phases.                             *)

\* The states a transaction goes through after a phase.
Past == [PREDICTED        |-> {"MOTION_PUBLISHED", "MOTION_CONSUMED", "CFD_ADVANCED",
                               "LOADS_READY", "LOADS_CONSUMED", "STRUCTURE_CORRECTED",
                               "CHECKPOINT_PREPARED", "COMMITTED"},
         MOTION_PUBLISHED |-> {"MOTION_CONSUMED", "CFD_ADVANCED", "LOADS_READY",
                               "LOADS_CONSUMED", "STRUCTURE_CORRECTED",
                               "CHECKPOINT_PREPARED", "COMMITTED"},
         MOTION_CONSUMED  |-> {"CFD_ADVANCED", "LOADS_READY", "LOADS_CONSUMED",
                               "STRUCTURE_CORRECTED", "CHECKPOINT_PREPARED", "COMMITTED"},
         CFD_ADVANCED     |-> {"LOADS_READY", "LOADS_CONSUMED", "STRUCTURE_CORRECTED",
                               "CHECKPOINT_PREPARED", "COMMITTED"},
         LOADS_READY      |-> {"LOADS_CONSUMED", "STRUCTURE_CORRECTED",
                               "CHECKPOINT_PREPARED", "COMMITTED"}]

\* A call on slice s is in flight, or waits for its turn.
Pending(s) == \E t \in tasks : t.slice = s

\* The call of slice s in phase st has returned.
Through(s, st) == state \in Past[st] \/ (state = st /\ ~Pending(s))

\* It leaves the files and the solver of another slice alone.
LEMMA OtherSlice ==
  ASSUME TypeOK, NEW t \in tasks, SliceCallReturns(t) \/ SliceCallRaises(t),
         NEW s \in Slices, s # t.slice
  PROVE  /\ motion'[<<s, cur>>] = motion[<<s, cur>>]
         /\ load'[<<s, cur>>] = load[<<s, cur>>]
         /\ timedir'[<<s, cur>>] = timedir[<<s, cur>>]
         /\ cfd'[s] = cfd[s] /\ cfdFrom'[s] = cfdFrom[s] /\ got'[s] = got[s]
         /\ Pending(s)' <=> Pending(s)
<1>1. /\ <<s, cur>> # At(t) /\ <<s, cur>> \in Slices \X Steps /\ cur \in Steps
      /\ At(t) \in Slices \X Steps
  BY TaskType DEF At, TypeOK, ControlOK
<1>2. motion'[<<s, cur>>] = motion[<<s, cur>>]
  BY <1>1 DEF TypeOK, FilesOK, SliceCallReturns, SliceCallRaises, PublishMotion,
              WaitMotionConsumed, AdvanceOneStep, ReadLoad, PublishLoadConsumed, TornEffect,
              files
<1>3. load'[<<s, cur>>] = load[<<s, cur>>]
  <2>1. \/ load' = load
        \/ \E r : WriteLoad(t, r)
        \/ PublishLoadConsumed(t)
    BY DEF SliceCallReturns, SliceCallRaises, PublishMotion, WaitMotionConsumed, AdvanceOneStep,
           ReadLoad, TornEffect, files
  <2>2. QED BY <1>1, <2>1 DEF TypeOK, FilesOK, WriteLoad, PublishLoadConsumed
<1>4. cfd'[s] = cfd[s] /\ cfdFrom'[s] = cfdFrom[s]
  <2>1. UNCHANGED solvers \/ Move(t)
    BY DEF SliceCallReturns, SliceCallRaises, PublishMotion, WaitMotionConsumed, AdvanceOneStep,
           ReadLoad, PublishLoadConsumed, TornEffect
  <2>2. QED BY <2>1 DEF solvers, Move, TypeOK, SolversOK
<1>5. got'[s] = got[s]
  BY DEF SliceCallReturns, SliceCallRaises, PublishMotion, WaitMotionConsumed, AdvanceOneStep,
         ReadLoad, PublishLoadConsumed, TypeOK, CallsOK
<1>6. Pending(s)' <=> Pending(s)
  BY DEF SliceCallReturns, SliceCallRaises, Pending
<1>7. QED BY <1>1, <1>2, <1>3, <1>4, <1>5, <1>6, SliceCallElsewhere


\* A phase begins with a call on every slice.
LEMMA SubmitsAll ==
  ASSUME NEW st, NEW s \in Slices  PROVE \E t \in Submit(st) : t.slice = s
<1>1. [slice |-> s, op |-> SliceOp[st]] \in Submit(st)
  BY DEF Submit
<1>2. [slice |-> s, op |-> SliceOp[st]].slice = s
  OBVIOUS
<1>3. QED BY <1>1, <1>2

\* A barrier changes only where the calls are, not what they have done.
LEMMA BarrierThrough ==
  ASSUME Barrier, NEW s \in Slices, NEW st \in SliceStates
  PROVE  Through(s, st)' <=> Through(s, st)
<1>1. ~Pending(s)
  BY DEF Barrier, AllReturned, Pending
<1>2. state \in SliceStates /\ state' = AfterSlices[state]
  BY DEF Barrier
<1>3. state' \in SliceStates => Pending(s)'
  BY SubmitsAll DEF Barrier, Pending
<1>4. Through(s, st) <=> state \in Past[st] \/ state = st
  BY <1>1 DEF Through
<1>5. Through(s, st)' <=> state' \in Past[st]
  BY <1>3 DEF Through
<1>6. AfterSlices[state] \in Past[st] <=> state \in Past[st] \/ state = st
  BY <1>2 DEF SliceStates, SliceOp, AfterSlices, Past
<1>7. QED BY <1>2, <1>4, <1>5, <1>6


\* The states in which every slice is through every phase.
Late == {"LOADS_CONSUMED", "STRUCTURE_CORRECTED", "CHECKPOINT_PREPARED", "COMMITTED"}

LEMMA LateThrough ==
  ASSUME state \in Late, NEW s, NEW st \in SliceStates  PROVE Through(s, st)
BY DEF Late, SliceStates, SliceOp, Through, Past

LEMMA InitializedThrough ==
  ASSUME state = "INITIALIZED", NEW s, NEW st \in SliceStates  PROVE ~Through(s, st)
BY DEF SliceStates, SliceOp, Through, Past

LEMMA PredictThrough ==
  ASSUME Predict, NEW s \in Slices, NEW st \in SliceStates
  PROVE  ~Through(s, st) /\ ~Through(s, st)'
<1>1. state = "INITIALIZED" /\ state' = "PREDICTED" /\ tasks' = Submit("PREDICTED")
  BY DEF Predict
<1>2. Pending(s)'
  BY <1>1, SubmitsAll DEF Pending
<1>3. ~Through(s, st)'
  BY <1>1, <1>2 DEF SliceStates, SliceOp, Through, Past
<1>4. QED BY <1>1, <1>3, InitializedThrough

\* The steps within a transaction that are not slice calls: they change no
\* file, no solver, and nobody's progress.
Running == Predict \/ Barrier \/ Correct \/ Prepare \/ Commit \/ Finalize

LEMMA RunningSteps ==
  ASSUME CallsInv, Running
  PROVE  /\ busy /\ busy'
         /\ UNCHANGED <<cur, att, forces, got, failed, cfd, cfdFrom, motion, load, timedir>>
         /\ \A s \in Slices, st \in SliceStates : Through(s, st)' <=> Through(s, st)
<1>1. /\ busy /\ busy'
      /\ UNCHANGED <<cur, att, forces, got, failed, cfd, cfdFrom, motion, load, timedir>>
  BY DEF Running, Predict, Barrier, Correct, Prepare, Commit, Finalize, Finalizable, calls,
         solvers, files
<1>2. ASSUME NEW s \in Slices, NEW st \in SliceStates  PROVE Through(s, st)' <=> Through(s, st)
  <2>1. CASE Predict
    BY <2>1, PredictThrough
  <2>2. CASE Barrier
    BY <2>2, BarrierThrough
  <2>3. CASE Correct \/ Prepare \/ Commit \/ Finalize
    <3>1. state \in Late /\ state' \in Late
      BY <2>3 DEF Late, Correct, Prepare, Commit, Finalize, Finalizable
    <3>2. Through(s, st)'
      BY <3>1 DEF Late, SliceStates, SliceOp, Through, Past
    <3>3. QED BY <3>1, <3>2, LateThrough
  <2>4. QED BY <2>1, <2>2, <2>3 DEF Running
<1>3. QED BY <1>1, <1>2

\* A step in which a transaction or its scheduler ends, or begins, or that
\* changes nothing.
LEMMA OtherSteps ==
  ASSUME [Next]_vars, ~Running, ~RunStep, ~SliceCall
  PROVE  ~busy' \/ UNCHANGED vars
BY DEF Next, Running, SchedulerStep, PredictFails, BarrierFails, MapRaises, CorrectRaises,
       CorrectionRejected, PrepareRaises, CommitRaises, FailPrecommit, FinalizeRaises,
       Acknowledge, CommitLogRaises, Recovery, Recover, Restore, RestoreRaises, Restart, control

LEMMA RunStepThrough ==
  ASSUME RunStep, NEW s, NEW st \in SliceStates  PROVE ~Through(s, st)'
BY DEF RunStep, SliceStates, SliceOp, Through, Past

\* The call that returns brings its slice through the phase, and no further.
LEMMA CallThrough ==
  ASSUME CallsInv, CommitInv, busy, NEW t \in tasks, SliceCallReturns(t)
  PROVE  /\ state \in SliceStates /\ t.op = SliceOp[state] /\ t.slice \in Slices
         /\ At(t) = <<t.slice, cur>>
         /\ UNCHANGED <<state, busy, cur, att, forces, failed>>
         /\ ~Through(t.slice, state)
         /\ \A st \in SliceStates : Through(t.slice, st)' <=> Through(t.slice, st) \/ st = state
<1>1. /\ state \in SliceStates /\ tasks \subseteq Submit(state)
      /\ t.op = SliceOp[state] /\ t.slice \in Slices
      /\ \A u \in tasks : u.slice = t.slice => u = t
  BY DEF CallsInv, CommitInv, StateInv, Submit
<1>2. /\ Pending(t.slice) /\ ~Pending(t.slice)'
      /\ UNCHANGED <<state, busy, cur, att, forces, failed>>
  BY <1>1 DEF SliceCallReturns, control, Pending
<1>3. \A st \in SliceStates : st \notin Past[st]
  BY DEF SliceStates, SliceOp, Past
<1>4. QED BY <1>1, <1>2, <1>3 DEF Through, At
-----------------------------------------------------------------------------
(* The files of a transaction.                                             *)

(***************************************************************************)
(* What the calls of slice s that have returned have left behind: files of *)
(* the running attempt, each acknowledgement for the payload of this       *)
(* attempt, and a load computed from this attempt's motion.                *)
(***************************************************************************)
Trace(s) ==
  /\ Through(s, "PREDICTED") =>
       motion[<<s, cur>>].payload = att /\ motion[<<s, cur>>].ready = att
  /\ Through(s, "MOTION_PUBLISHED") => motion[<<s, cur>>].consumed = att
  /\ Through(s, "MOTION_CONSUMED") =>
       /\ timedir[<<s, cur>>] = att
       /\ load[<<s, cur>>].payload = att /\ load[<<s, cur>>].ready = att
  /\ Through(s, "CFD_ADVANCED") => got[s] = att
  /\ Through(s, "LOADS_READY") => load[<<s, cur>>].consumed = att

\* Nothing is said of a slice whose call has raised: it may be torn.
TraceInv == busy => \A s \in Slices \ failed : Trace(s)

\* The files and loads of a manifest are of its attempt.
OneAttempt(m) == \A s \in Slices : m.cfd[s] = m.att /\ m.loads[s] = m.att

FilesInv ==
  /\ TraceInv
  /\ busy /\ state = "CHECKPOINT_PREPARED" => OneAttempt(prepared)
  /\ \A m \in disk : OneAttempt(m)

LEMMA FilesInit == Init => FilesInv
BY DEF Init, FilesInv, TraceInv

\* What every slice has left behind after the last phase.
LEMMA LateTrace ==
  ASSUME CallsInv, TraceInv, busy, state \in Late, NEW s \in Slices
  PROVE  /\ motion[<<s, cur>>].payload = att /\ motion[<<s, cur>>].ready = att
         /\ motion[<<s, cur>>].consumed = att
         /\ load[<<s, cur>>].payload = att /\ load[<<s, cur>>].ready = att
         /\ load[<<s, cur>>].consumed = att
         /\ timedir[<<s, cur>>] = att /\ got[s] = att
<1>1. Trace(s)
  BY PhaseNames DEF Late, CallsInv, TraceInv
<1>2. /\ Through(s, "PREDICTED") /\ Through(s, "MOTION_PUBLISHED")
      /\ Through(s, "MOTION_CONSUMED") /\ Through(s, "CFD_ADVANCED")
      /\ Through(s, "LOADS_READY")
  BY LateThrough DEF SliceStates, SliceOp
<1>3. QED BY <1>1, <1>2 DEF Trace

\* The files a call writes are of this attempt, because those it finds are:
\* its slice is through the phases before.
LEMMA CallTrace ==
  ASSUME "silent" \notin Faults, TypeOK, CommitInv, CallsInv, TraceInv, busy,
         NEW t \in tasks, SliceCallReturns(t), t.slice \notin failed
  PROVE  Trace(t.slice)'
<1> DEFINE s == t.slice
           c == <<s, cur>>
<1>1. /\ state \in SliceStates /\ t.op = SliceOp[state] /\ s \in Slices /\ At(t) = c
      /\ UNCHANGED <<state, cur, att>>
      /\ \A st \in SliceStates : Through(s, st)' <=> Through(s, st) \/ st = state
  BY CallThrough
<1>2. Trace(s)
  BY <1>1 DEF TraceInv
<1>3. /\ c \in Slices \X Steps /\ motion \in [Slices \X Steps -> Cells]
      /\ load \in [Slices \X Steps -> Cells] /\ timedir \in [Slices \X Steps -> Versions]
      /\ got \in [Slices -> Versions] /\ motion[c] \in Cells /\ load[c] \in Cells
  BY <1>1 DEF TypeOK, ControlOK, CallsOK, FilesOK
<1>4. {"PREDICTED", "MOTION_PUBLISHED", "MOTION_CONSUMED", "CFD_ADVANCED", "LOADS_READY"}
        = SliceStates
  BY DEF SliceStates, SliceOp
<1> HIDE DEF s, c
<1>5. CASE state = "PREDICTED"
  <2>1. PublishMotion(t)
    BY <1>1, <1>5 DEF SliceCallReturns, SliceOp, WaitMotionConsumed, AdvanceOneStep, ReadLoad,
                      PublishLoadConsumed, s
  <2>2. motion'[c].payload = att /\ motion'[c].ready = att
    BY <1>1, <1>3, <2>1 DEF PublishMotion
  <2>3. \A st \in SliceStates \ {"PREDICTED"} : ~Through(s, st)'
    BY <1>1, <1>5 DEF Through, Past, SliceStates, SliceOp
  <2>4. QED BY <1>1, <1>4, <2>2, <2>3 DEF Trace, s, c
<1>6. CASE state = "MOTION_PUBLISHED"
  <2>1. WaitMotionConsumed(t)
    BY <1>1, <1>6 DEF SliceCallReturns, SliceOp, PublishMotion, AdvanceOneStep, ReadLoad,
                      PublishLoadConsumed, s
  <2>2. /\ Through(s, "PREDICTED")
        /\ \A st \in SliceStates \ {"PREDICTED", "MOTION_PUBLISHED"} : ~Through(s, st)'
    BY <1>1, <1>6 DEF Through, Past, SliceStates, SliceOp
  <2>3. motion[c].payload = att /\ motion[c].ready = att
    BY <1>2, <2>2 DEF Trace, s, c
  <2>4. motion'[c].payload = att /\ motion'[c].ready = att /\ motion'[c].consumed = att
    BY <1>1, <1>3, <2>1, <2>3 DEF WaitMotionConsumed, Cells
  <2>5. QED BY <1>1, <1>4, <2>2, <2>4 DEF Trace, s, c
<1>7. CASE state = "MOTION_CONSUMED"
  <2>1. AdvanceOneStep(t)
    BY <1>1, <1>7 DEF SliceCallReturns, SliceOp, PublishMotion, WaitMotionConsumed, ReadLoad,
                      PublishLoadConsumed, s
  <2>2. /\ Through(s, "PREDICTED") /\ Through(s, "MOTION_PUBLISHED")
        /\ ~Through(s, "CFD_ADVANCED")' /\ ~Through(s, "LOADS_READY")'
    BY <1>1, <1>7 DEF Through, Past, SliceStates, SliceOp
  <2>3. motion[c].payload = att /\ motion[c].ready = att /\ motion[c].consumed = att
    BY <1>2, <2>2 DEF Trace, s, c
  <2>4. WriteTimeDir(t) /\ WriteLoad(t, motion[At(t)].payload) /\ UNCHANGED motion
    BY <2>1 DEF AdvanceOneStep
  <2>5. timedir'[c] = att
    BY <1>1, <1>3, <2>3, <2>4 DEF WriteTimeDir
  <2>6. load'[c].payload = att /\ load'[c].ready = att
    BY <1>1, <1>3, <2>3, <2>4 DEF WriteLoad
  <2>7. motion'[c].payload = att /\ motion'[c].ready = att /\ motion'[c].consumed = att
    BY <2>3, <2>4
  <2>8. QED BY <1>1, <2>2, <2>5, <2>6, <2>7 DEF Trace, s, c
<1>8. CASE state = "CFD_ADVANCED"
  <2>1. ReadLoad(t)
    BY <1>1, <1>8 DEF SliceCallReturns, SliceOp, PublishMotion, WaitMotionConsumed,
                      AdvanceOneStep, PublishLoadConsumed, s
  <2>2. /\ Through(s, "PREDICTED") /\ Through(s, "MOTION_PUBLISHED")
        /\ Through(s, "MOTION_CONSUMED") /\ ~Through(s, "LOADS_READY")'
    BY <1>1, <1>8 DEF Through, Past, SliceStates, SliceOp
  <2>3. /\ motion[c].payload = att /\ motion[c].ready = att /\ motion[c].consumed = att
        /\ timedir[c] = att /\ load[c].payload = att /\ load[c].ready = att
    BY <1>2, <2>2 DEF Trace, s, c
  <2>4. got'[s] = att /\ UNCHANGED <<motion, load, timedir>>
    BY <1>1, <1>3, <2>1, <2>3 DEF ReadLoad, files, s
  <2>5. QED BY <1>1, <2>2, <2>3, <2>4 DEF Trace, s, c
<1>9. CASE state = "LOADS_READY"
  <2>1. PublishLoadConsumed(t)
    BY <1>1, <1>9 DEF SliceCallReturns, SliceOp, PublishMotion, WaitMotionConsumed,
                      AdvanceOneStep, ReadLoad, s
  <2>2. /\ Through(s, "PREDICTED") /\ Through(s, "MOTION_PUBLISHED")
        /\ Through(s, "MOTION_CONSUMED") /\ Through(s, "CFD_ADVANCED")
    BY <1>1, <1>9 DEF Through, Past, SliceStates, SliceOp
  <2>3. /\ motion[c].payload = att /\ motion[c].ready = att /\ motion[c].consumed = att
        /\ timedir[c] = att /\ load[c].payload = att /\ load[c].ready = att /\ got[s] = att
    BY <1>2, <2>2 DEF Trace, s, c
  <2>4. /\ load'[c].payload = att /\ load'[c].ready = att /\ load'[c].consumed = att
        /\ UNCHANGED <<got, motion, timedir>>
    BY <1>1, <1>3, <2>1, <2>3 DEF PublishLoadConsumed, Cells
  <2>5. QED BY <1>1, <2>3, <2>4 DEF Trace, s, c
<1>10. QED BY <1>1, <1>4, <1>5, <1>6, <1>7, <1>8, <1>9 DEF s

LEMMA SliceCallTrace ==
  ASSUME "silent" \notin Faults, TypeOK, CommitInv, CallsInv, TraceInv, SliceCall
  PROVE  TraceInv'
<1>1. PICK t \in tasks : SliceCallReturns(t) \/ SliceCallRaises(t)
  BY DEF SliceCall
<1>2. UNCHANGED <<state, busy, cur, att>> /\ failed \subseteq failed'
  BY <1>1 DEF SliceCallReturns, SliceCallRaises, control
<1>3. SUFFICES ASSUME busy, NEW s \in Slices, s \notin failed'  PROVE Trace(s)'
  BY <1>2 DEF TraceInv
<1>4. CASE s = t.slice
  <2>1. SliceCallReturns(t) /\ t.slice \notin failed
    BY <1>1, <1>2, <1>3, <1>4 DEF SliceCallRaises
  <2>2. Trace(t.slice)'
    BY <1>3, <2>1, CallTrace
  <2>3. QED BY <1>4, <2>2 DEF Trace, Through, Pending
<1>5. CASE s # t.slice
  <2>1. Trace(s)
    BY <1>2, <1>3 DEF TraceInv
  <2>2. /\ motion'[<<s, cur>>] = motion[<<s, cur>>] /\ load'[<<s, cur>>] = load[<<s, cur>>]
        /\ timedir'[<<s, cur>>] = timedir[<<s, cur>>] /\ got'[s] = got[s]
        /\ Pending(s)' <=> Pending(s)
    BY <1>1, <1>5, OtherSlice
  <2>3. \A st : Through(s, st)' <=> Through(s, st)
    BY <1>2, <2>2 DEF Through
  <2>4. QED BY <1>2, <2>1, <2>2, <2>3 DEF Trace
<1>6. QED BY <1>4, <1>5

LEMMA TraceStep ==
  ASSUME "silent" \notin Faults
  PROVE  TypeOK /\ CommitInv /\ CallsInv /\ TraceInv /\ [Next]_vars => TraceInv'
<1> SUFFICES ASSUME TypeOK, CommitInv, CallsInv, TraceInv, [Next]_vars  PROVE TraceInv'
  OBVIOUS
<1>1. CASE Running
  BY <1>1, RunningSteps DEF TraceInv, Trace, SliceStates, SliceOp
<1>2. CASE RunStep
  BY <1>2, RunStepThrough DEF TraceInv, Trace, SliceStates, SliceOp
<1>3. CASE SliceCall
  BY <1>3, SliceCallTrace
<1>4. CASE UNCHANGED vars
  BY <1>4 DEF vars, control, calls, files, TraceInv, Trace, Through, Pending
<1>5. CASE ~busy'
  BY <1>5 DEF TraceInv
<1>6. QED BY <1>1, <1>2, <1>3, <1>4, <1>5, OtherSteps

\* The one step that prepares a manifest.
LEMMA PreparedBy ==
  ASSUME [Next]_vars, busy', state' = "CHECKPOINT_PREPARED"
  PROVE  \/ Prepare
         \/ busy /\ state = "CHECKPOINT_PREPARED" /\ prepared' = prepared
<1>1. CASE Running
  BY <1>1, EarlyStates DEF Running, Predict, Barrier, Correct, Commit, Finalize
<1>2. CASE RunStep
  BY <1>2 DEF RunStep
<1>3. CASE SliceCall \/ UNCHANGED vars
  BY <1>3 DEF SliceCall, SliceCallReturns, SliceCallRaises, control, vars
<1>4. QED BY <1>1, <1>2, <1>3, OtherSteps

LEMMA FilesStep ==
  ASSUME "silent" \notin Faults
  PROVE  TypeOK /\ CommitInv /\ CallsInv /\ FilesInv /\ [Next]_vars => FilesInv'
<1> SUFFICES ASSUME TypeOK, CommitInv, CallsInv, FilesInv, [Next]_vars  PROVE FilesInv'
  OBVIOUS
<1>1. TraceInv'
  BY TraceStep DEF FilesInv
<1>2. \A m \in disk' : OneAttempt(m)'
  BY StepPublishes DEF Publishes, Published, FilesInv, OneAttempt
<1>3. ASSUME busy', state' = "CHECKPOINT_PREPARED"  PROVE OneAttempt(prepared)'
  <2>1. CASE Prepare
    <3>1. busy /\ state \in Late /\ prepared' = NewManifest
      BY <2>1 DEF Prepare, Late
    <3>2. \A s \in Slices : timedir[<<s, cur>>] = att /\ got[s] = att
      BY <3>1, LateTrace DEF FilesInv
    <3>3. QED BY <3>1, <3>2 DEF OneAttempt, NewManifest
  <2>2. CASE busy /\ state = "CHECKPOINT_PREPARED" /\ prepared' = prepared
    BY <2>2 DEF FilesInv, OneAttempt
  <2>3. QED BY <1>3, <2>1, <2>2, PreparedBy
<1>4. QED BY <1>1, <1>2, <1>3 DEF FilesInv

LEMMA FilesInvariant == ASSUME "silent" \notin Faults  PROVE Spec => []FilesInv
BY TypeCorrect, CommitInvariant, CallsInvariant, FilesInit, FilesStep, PTL DEF Spec

(***************************************************************************)
(* The structure state, every CFD time directory and every load of a       *)
(* manifest were produced by one run_step call: the barrier of each phase  *)
(* lets no older file of the exchange root through.  Assumed is only that  *)
(* no slice returns without a load; then the half-way restores and a       *)
(* failing log, too, never mix two attempts in a manifest.                 *)
(***************************************************************************)
THEOREM ManifestsAreCoherent ==
  ASSUME "silent" \notin Faults  PROVE Spec => []ManifestsCoherent
<1>1. StagedInv /\ FilesInv => ManifestsCoherent
  BY DEF StagedInv, FilesInv, OneAttempt, ManifestsCoherent
<1>2. QED BY <1>1, StagedInvariant, FilesInvariant, PTL

\* The manifest that appears is the prepared one.
LEMMA AppearingManifest ==
  ASSUME CommitInv, [Next]_vars, NEW m \in disk' \ disk
  PROVE  busy /\ state = "CHECKPOINT_PREPARED" /\ m.att = att /\ m.step = cur
BY StepPublishes DEF Publishes, Published, CommitInv, PreparedInv

(***************************************************************************)
(* When a manifest appears, every slice's motion and load of its step are  *)
(* on the exchange root, of this attempt and acknowledged for this         *)
(* attempt, if no slice returns without a load.                            *)
(***************************************************************************)
THEOREM CommitIsAcknowledged ==
  ASSUME "silent" \notin Faults  PROVE Spec => AcknowledgedBeforeCommit
<1> DEFINE Acknowledged(m, s) ==
      /\ motion[<<s, m.step>>] = [payload |-> m.att, ready |-> m.att, consumed |-> m.att]
      /\ load[<<s, m.step>>] = [payload |-> m.att, ready |-> m.att, consumed |-> m.att]
<1>1. ASSUME TypeOK, CommitInv, CallsInv, FilesInv, [Next]_vars,
             NEW m \in disk' \ disk, NEW s \in Slices
      PROVE  Acknowledged(m, s)
  <2>1. busy /\ state \in Late /\ m.att = att /\ m.step = cur
    BY <1>1, AppearingManifest DEF Late
  <2>2. /\ motion[<<s, cur>>].payload = att /\ motion[<<s, cur>>].ready = att
        /\ motion[<<s, cur>>].consumed = att
        /\ load[<<s, cur>>].payload = att /\ load[<<s, cur>>].ready = att
        /\ load[<<s, cur>>].consumed = att
    BY <1>1, <2>1, LateTrace DEF FilesInv
  <2>3. motion[<<s, cur>>] \in Cells /\ load[<<s, cur>>] \in Cells
    BY <1>1 DEF TypeOK, ControlOK, FilesOK
  <2>4. motion[<<s, cur>>] = [payload |-> att, ready |-> att, consumed |-> att]
    BY <2>2, <2>3 DEF Cells
  <2>5. load[<<s, cur>>] = [payload |-> att, ready |-> att, consumed |-> att]
    BY <2>2, <2>3 DEF Cells
  <2>6. QED BY <2>1, <2>4, <2>5
<1>2. TypeOK /\ CommitInv /\ CallsInv /\ FilesInv /\ [Next]_vars
        => [\A m \in disk' \ disk : \A s \in Slices : Acknowledged(m, s)]_disk
  BY <1>1
<1>3. QED BY <1>2, TypeCorrect, CommitInvariant, CallsInvariant, FilesInvariant, PTL
          DEF Spec, AcknowledgedBeforeCommit
-----------------------------------------------------------------------------
(* The solvers.                                                            *)

\* What is left out of the theorem of the solvers' line: a slice that returns
\* without a load, a log append that raises after COMMITTED, and a restore
\* that raises half-way into a scheduler that has not run.
Reliable == {"silent", "commit_log", "restore"} \cap Faults = {}

LEMMA ReliableFacts ==
  ASSUME Reliable
  PROVE  "silent" \notin Faults /\ "commit_log" \notin Faults /\ "restore" \notin Faults
BY DEF Reliable

\* The solver of slice s has moved from the state the scheduler stands on, in
\* this attempt, or is still there.
Moved(s) ==
  IF Through(s, "MOTION_CONSUMED") THEN cfd[s] = att /\ cfdFrom[s] = forces
                                   ELSE cfd[s] = forces

MovedInv ==
  /\ busy => \A s \in Slices \ failed : Moved(s)
  /\ Settled => \A s \in Slices : cfd[s] = forces

SolversContinue(m) == \A s \in Slices : m.cfdFrom[s] = m.forcesFrom

(***************************************************************************)
(* Between two transactions the solvers are where the scheduler is, and in *)
(* one they have moved from there or not; so the solver states a manifest  *)
(* stores were computed from those of the manifest it continues.           *)
(***************************************************************************)
SolversInv ==
  /\ MovedInv
  /\ busy /\ state = "CHECKPOINT_PREPARED" => SolversContinue(prepared)
  /\ \A m \in disk : SolversContinue(m)

LEMMA SolversInit == Init => SolversInv
BY DEF Init, Zero, SolversInv, MovedInv

LEMMA LateMoved ==
  ASSUME CallsInv, MovedInv, busy, state \in Late, NEW s \in Slices
  PROVE  cfd[s] = att /\ cfdFrom[s] = forces
<1>1. Moved(s)
  BY PhaseNames DEF Late, CallsInv, MovedInv
<1>2. QED BY <1>1, LateThrough DEF Moved, SliceStates, SliceOp

\* Only advance_one_step moves a solver: to this attempt's motion, from the
\* state it was in.
LEMMA CallMoves ==
  ASSUME "silent" \notin Faults, TypeOK, CommitInv, CallsInv, TraceInv, MovedInv, busy,
         NEW t \in tasks, SliceCallReturns(t), t.slice \notin failed
  PROVE  Moved(t.slice)'
<1> DEFINE s == t.slice
<1>1. /\ state \in SliceStates /\ t.op = SliceOp[state] /\ s \in Slices /\ At(t) = <<s, cur>>
      /\ UNCHANGED <<state, cur, att, forces>>
      /\ ~Through(s, state)
      /\ \A st \in SliceStates : Through(s, st)' <=> Through(s, st) \/ st = state
  BY CallThrough
<1>2. Moved(s) /\ Trace(s)
  BY <1>1 DEF MovedInv, TraceInv
<1>3. "MOTION_CONSUMED" \in SliceStates
  BY DEF SliceStates, SliceOp
<1> HIDE DEF s
<1>4. CASE state = "MOTION_CONSUMED"
  <2>1. AdvanceOneStep(t)
    BY <1>1, <1>4 DEF SliceCallReturns, SliceOp, PublishMotion, WaitMotionConsumed, ReadLoad,
                      PublishLoadConsumed
  <2>2. Through(s, "PREDICTED") /\ ~Through(s, "MOTION_CONSUMED")
    BY <1>1, <1>4 DEF Through, Past
  <2>3. motion[<<s, cur>>].payload = att /\ cfd[s] = forces
    BY <1>2, <2>2 DEF Trace, Moved
  <2>4. Move(t)
    BY <2>1 DEF AdvanceOneStep
  <2>5. cfd'[s] = att /\ cfdFrom'[s] = forces
    BY <1>1, <2>3, <2>4 DEF Move, TypeOK, SolversOK, s
  <2>6. QED BY <1>1, <1>3, <1>4, <2>5 DEF Moved, s
<1>5. CASE state # "MOTION_CONSUMED"
  <2>1. ~AdvanceOneStep(t)
    BY <1>1, <1>5 DEF AdvanceOneStep, SliceStates, SliceOp
  <2>2. UNCHANGED solvers
    BY <2>1 DEF SliceCallReturns, PublishMotion, WaitMotionConsumed, ReadLoad,
                PublishLoadConsumed
  <2>3. Through(s, "MOTION_CONSUMED")' <=> Through(s, "MOTION_CONSUMED")
    BY <1>1, <1>3, <1>5
  <2>4. QED BY <1>1, <1>2, <2>2, <2>3 DEF Moved, solvers, s
<1>6. QED BY <1>4, <1>5

LEMMA SliceCallMoved ==
  ASSUME "silent" \notin Faults, TypeOK, CommitInv, CallsInv, TraceInv, MovedInv, SliceCall
  PROVE  MovedInv'
<1>1. PICK t \in tasks : SliceCallReturns(t) \/ SliceCallRaises(t)
  BY DEF SliceCall
<1>2. UNCHANGED <<state, busy, cur, att, forces>> /\ failed \subseteq failed'
  BY <1>1 DEF SliceCallReturns, SliceCallRaises, control
<1>3. ~Settled'
  BY <1>2, PhaseNames DEF CallsInv, Settled
<1>4. SUFFICES ASSUME busy, NEW s \in Slices, s \notin failed'  PROVE Moved(s)'
  BY <1>2, <1>3 DEF MovedInv
<1>5. CASE s = t.slice
  <2>1. SliceCallReturns(t) /\ t.slice \notin failed
    BY <1>1, <1>2, <1>4, <1>5 DEF SliceCallRaises
  <2>2. Moved(t.slice)'
    BY <1>4, <2>1, CallMoves
  <2>3. QED BY <1>5, <2>2 DEF Moved, Through, Pending
<1>6. CASE s # t.slice
  <2>1. Moved(s)
    BY <1>2, <1>4 DEF MovedInv
  <2>2. cfd'[s] = cfd[s] /\ cfdFrom'[s] = cfdFrom[s] /\ (Pending(s)' <=> Pending(s))
    BY <1>1, <1>6, OtherSlice
  <2>3. \A st : Through(s, st)' <=> Through(s, st)
    BY <1>2, <2>2 DEF Through
  <2>4. QED BY <1>2, <2>1, <2>2, <2>3 DEF Moved
<1>7. QED BY <1>5, <1>6

\* All solvers are brought back from the manifest the scheduler moves to.
LEMMA RecoveryMoved ==
  ASSUME "restore" \notin Faults, FilesInv, MovedInv, Recovery  PROVE MovedInv'
<1>1. PICK m \in disk : \/ Recover(m)
                        \/ \E n \in 0..NSlices, loaded \in BOOLEAN : RestoreRaises(m, n, loaded)
                        \/ Restore(m)
  BY DEF Recovery
<1>2. CASE Recover(m) \/ Restore(m)
  <2>1. ~busy' /\ cfd' = m.cfd /\ forces' = m.att
    BY <1>2 DEF Recover, Restore, RestoreFrom
  <2>2. QED BY <2>1 DEF MovedInv, FilesInv, OneAttempt
<1>3. CASE \E n \in 0..NSlices, loaded \in BOOLEAN : RestoreRaises(m, n, loaded)
  BY <1>3 DEF RestoreRaises, control, MovedInv, Settled
<1>4. QED BY <1>1, <1>2, <1>3

\* A step that ends a transaction leaves it failed or in need of a recovery,
\* or acknowledges it.
LEMMA MovedStep ==
  ASSUME Reliable
  PROVE  TypeOK /\ CommitInv /\ CallsInv /\ FilesInv /\ MovedInv /\ [Next]_vars => MovedInv'
<1> SUFFICES ASSUME TypeOK, CommitInv, CallsInv, FilesInv, MovedInv, [Next]_vars
             PROVE  MovedInv'
  OBVIOUS
<1> USE ReliableFacts
<1>1. CASE Running
  BY <1>1, RunningSteps DEF MovedInv, Moved, Settled, SliceStates, SliceOp
<1>2. CASE RunStep
  <2>1. /\ Settled /\ busy' /\ UNCHANGED <<forces, cfd>>
    BY <1>2 DEF RunStep, Settled, solvers
  <2>2. \A s \in Slices : ~Through(s, "MOTION_CONSUMED")'
    BY <1>2, RunStepThrough DEF SliceStates, SliceOp
  <2>3. QED BY <2>1, <2>2 DEF MovedInv, Moved, Settled
<1>3. CASE SliceCall
  BY <1>3, SliceCallMoved DEF FilesInv
<1>4. CASE Recovery
  BY <1>4, RecoveryMoved
<1>5. CASE Restart
  BY <1>5 DEF Restart, Zero, MovedInv
<1>6. CASE Acknowledge
  <2>1. busy /\ state \in Late /\ ~busy' /\ forces' = att /\ UNCHANGED cfd
    BY <1>6 DEF Acknowledge, Late, solvers
  <2>2. QED BY <2>1, LateMoved DEF MovedInv
<1>7. CASE SchedulerStep /\ ~Running /\ ~Acknowledge
  <2>1. ~busy' /\ state' \in {"FAILED", "RECOVERY_REQUIRED"}
    BY <1>7 DEF SchedulerStep, Running, PredictFails, BarrierFails, MapRaises, CorrectRaises,
                CorrectionRejected, PrepareRaises, CommitRaises, FailPrecommit, FinalizeRaises,
                CommitLogRaises
  <2>2. QED BY <2>1 DEF MovedInv, Settled
<1>8. CASE UNCHANGED vars
  BY <1>8 DEF vars, control, calls, solvers, MovedInv, Moved, Settled, Through, Pending
<1>9. QED BY <1>1, <1>2, <1>3, <1>4, <1>5, <1>6, <1>7, <1>8 DEF Next

LEMMA SolversStep ==
  ASSUME Reliable
  PROVE  TypeOK /\ CommitInv /\ CallsInv /\ FilesInv /\ SolversInv /\ [Next]_vars => SolversInv'
<1> SUFFICES ASSUME TypeOK, CommitInv, CallsInv, FilesInv, SolversInv, [Next]_vars
             PROVE  SolversInv'
  OBVIOUS
<1>1. MovedInv'
  BY MovedStep DEF SolversInv
<1>2. \A m \in disk' : SolversContinue(m)'
  BY StepPublishes DEF Publishes, Published, SolversInv, SolversContinue
<1>3. ASSUME busy', state' = "CHECKPOINT_PREPARED"  PROVE SolversContinue(prepared)'
  <2>1. CASE Prepare
    <3>1. busy /\ state \in Late /\ prepared' = NewManifest
      BY <2>1 DEF Prepare, Late
    <3>2. \A s \in Slices : cfdFrom[s] = forces
      BY <3>1, LateMoved DEF SolversInv
    <3>3. QED BY <3>1, <3>2 DEF SolversContinue, NewManifest
  <2>2. CASE busy /\ state = "CHECKPOINT_PREPARED" /\ prepared' = prepared
    BY <2>2 DEF SolversInv, SolversContinue
  <2>3. QED BY <1>3, <2>1, <2>2, PreparedBy
<1>4. QED BY <1>1, <1>2, <1>3 DEF SolversInv

(***************************************************************************)
(* The solvers of a running transaction, and of a settled scheduler, are   *)
(* on the line of commits the scheduler stands on.                         *)
(***************************************************************************)
THEOREM SolversOnTheLine == ASSUME Reliable  PROVE Spec => []SolversInv
<1>1. Spec => []FilesInv
  BY FilesInvariant, ReliableFacts
<1>2. QED BY <1>1, TypeCorrect, CommitInvariant, CallsInvariant, SolversInit, SolversStep, PTL
          DEF Spec

(***************************************************************************)
(* Structure, previous forces and CFD solvers of a manifest continue one   *)
(* manifest of the step before, or the initial condition, over any number  *)
(* of failures, recoveries and restarts.                                   *)
(***************************************************************************)
THEOREM LineageIsContinuous == ASSUME Reliable  PROVE Spec => []LineageContinuous
<1>1. Spec => []StructureContinuous
  BY StructureContinues, ReliableFacts
<1>2. StructureContinuous /\ SolversInv => LineageContinuous
  BY DEF StructureContinuous, SolversInv, SolversContinue, LineageContinuous
<1>3. QED BY <1>1, <1>2, SolversOnTheLine, PTL
==============================================================================
