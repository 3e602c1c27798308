------------------------- MODULE StrongCouplingProofs -------------------------
(***************************************************************************)
(* The strong coupling is right for any number of steps and candidates,    *)
(* and with any of the calls raising.  The lemmas about the engine come    *)
(* first: what each of its operations changes and what it leaves.          *)
(***************************************************************************)
EXTENDS StrongCoupling, FiniteSetTheorems, TLAPS

\* Operations on the engine keep its candidate and its verdict.
Same(e, f) == f.cand = e.cand /\ f.row = e.row /\ f.promoted = e.promoted

Typed ==
  /\ parent \in 1 .. Len(store) /\ store \in Seq(Checkpoint) /\ version \in Versions

LEMMA AdvanceType ==
  ASSUME Typed, NEW s \in State, NEW k \in {"predicted", "corrected"}, NEW c \in Cand
  PROVE  /\ Advance(s, k, c) \in State /\ Advance(s, k, c).kind = k /\ Advance(s, k, c).cand = c
         /\ s = store[parent].json => Advance(s, k, c).base = parent
BY DEF Typed, Advance, State

LEMMA NoStateType == NoState \in State /\ Origin \in State /\ NoCand \in Cand
BY DEF NoState, Origin, State, Cand

LEMMA ActiveType == ASSUME NEW r \in Runner PROVE Active(r) \in State
BY DEF Active, Runner

LEMMA DiscardStagedType == ASSUME NEW r \in Runner PROVE DiscardStaged(r) \in Runner
BY NoStateType DEF DiscardStaged, Runner

LEMMA EngineOfType ==
  ASSUME NEW s \in State, NEW c \in Cand
  PROVE  /\ EngineOf(c, s) \in Engine /\ EngineOf(c, s).cand = c
         /\ ~EngineOf(c, s).solvers /\ ~EngineOf(c, s).discarded /\ ~EngineOf(c, s).promoted
         /\ EngineOf(c, s).runner = RunnerOn(s) /\ RunnerOn(s) \in Runner
<1>1. RunnerOn(s) \in Runner  BY NoStateType DEF RunnerOn, Runner
<1>2. NoRow \in Row  BY DEF NoRow, Row
<1>. QED BY <1>1, <1>2, NoStateType DEF EngineOf, Engine

LEMMA PredictedType ==
  ASSUME Typed, NEW e \in Engine
  PROVE  /\ Predicted(e) \in Engine /\ Same(e, Predicted(e))
         /\ Predicted(e).solvers = e.solvers /\ Predicted(e).discarded = e.discarded
<1>1. Predict(e.runner, e.cand) \in Runner
  BY AdvanceType DEF Predict, Engine, Runner
<1>. QED BY <1>1, ActiveType DEF Predicted, Engine, Same, Runner

LEMMA CorrectedType ==
  ASSUME Typed, NEW e \in Engine
  PROVE  /\ Corrected(e) \in Engine /\ Same(e, Corrected(e))
         /\ Corrected(e).solvers = e.solvers /\ Corrected(e).discarded = e.discarded
<1>1. Correct(e.runner, e.cand) \in Runner
  BY AdvanceType, ActiveType DEF Correct, Engine, Runner
<1>. QED BY <1>1 DEF Corrected, Engine, Same

LEMMA TriedType ==
  ASSUME Typed, NEW e \in Engine
  PROVE  /\ Tried(e) \in Engine /\ Same(e, Tried(e)) /\ Tried(e).trial
         /\ Tried(e).solvers = e.solvers /\ Tried(e).discarded = e.discarded
<1>1. /\ Corrected(Predicted(e)) \in Engine /\ Same(e, Corrected(Predicted(e)))
      /\ Corrected(Predicted(e)).solvers = e.solvers
      /\ Corrected(Predicted(e)).discarded = e.discarded
  BY PredictedType, CorrectedType DEF Same
<1>. QED BY <1>1 DEF Tried, Engine, Same

LEMMA TrialFailureType ==
  ASSUME NEW e \in Engine, NEW b \in BOOLEAN
  PROVE  TrialFailure(e, b) \in Engine /\ Same(e, TrialFailure(e, b))
BY DiscardStagedType DEF TrialFailure, Engine, Same

LEMMA DiscardType ==
  ASSUME NEW e \in Engine
  PROVE  Discard(e) \in Engine /\ Same(e, Discard(e)) /\ Discard(e).solvers = e.solvers
BY DiscardStagedType DEF Discard, Engine, Same

LEMMA HalfDiscardedType ==
  ASSUME engine \in Engine, NEW e \in HalfDiscarded
  PROVE  e \in Engine /\ Same(engine, e) /\ e.solvers = engine.solvers
<1>1. /\ Discard(engine) \in Engine /\ Same(engine, Discard(engine))
      /\ Discard(engine).solvers = engine.solvers
  BY DiscardType
<1>2. /\ [Discard(engine) EXCEPT !.discarded = FALSE] \in Engine
      /\ Same(engine, [Discard(engine) EXCEPT !.discarded = FALSE])
      /\ [Discard(engine) EXCEPT !.discarded = FALSE].solvers = engine.solvers
  BY <1>1 DEF Engine, Same
<1>. QED BY <1>1, <1>2 DEF HalfDiscarded, Same

LEMMA ShutDownType ==
  ASSUME NEW e \in Engine
  PROVE  /\ ShutDown(e) \in Engine /\ Same(e, ShutDown(e)) /\ ~ShutDown(e).solvers
         /\ ShutDown(e).discarded = e.discarded /\ ShutDown(e).trial = e.trial
BY NoStateType DEF ShutDown, Engine, Runner, Same

LEMMA ReadyType ==
  ASSUME NEW e \in Engine, engine \in Engine
  PROVE  /\ Ready(e) \in Engine /\ Same(e, Ready(e)) /\ Ready(e).solvers = e.solvers
         /\ Ready(e).discarded = e.discarded
BY DiscardStagedType DEF Ready, Restored, Engine, Same

LEMMA FinalizedType ==
  ASSUME NEW e \in Engine, engine \in Engine
  PROVE  /\ Finalized(e) \in Engine /\ Same(e, Finalized(e)) /\ Finalized(e).solvers = e.solvers
         /\ Finalized(e).discarded = e.discarded
<1>1. RunnerOn(Active(e.runner)) \in Runner
  BY ActiveType, EngineOfType, NoStateType DEF Engine
<1>. QED BY <1>1, ReadyType DEF Finalized, Engine, Runner, Same
-----------------------------------------------------------------------------
(* Types, and where there is room for a candidate, a row and a step.       *)

Room ==
  /\ pc \in {"construct", "trial", "decide", "judge"} => Len(rows) < MaxIterations
  /\ V1 /\ pc = "reject" => Len(rows) < MaxIterations
  /\ pc = "next" \/ (~V1 /\ pc = "reject") => rows # <<>>
  /\ streak <= Len(rows)
  /\ pc \notin {"close", "over"} => step <= Steps /\ status = "running"

TypeInv == TypeOK /\ Room

LEMMA AppendType ==
  ASSUME NEW S, NEW s \in Seq(S), NEW x \in S
  PROVE  /\ Append(s, x) \in Seq(S) /\ Len(Append(s, x)) = Len(s) + 1
         /\ Append(s, x) # <<>> /\ Append(s, x)[Len(s) + 1] = x
         /\ \A k \in 1 .. Len(s) : Append(s, x)[k] = s[k]
OBVIOUS

LEMMA EmptyType == ASSUME NEW S PROVE <<>> \in Seq(S) /\ Len(<<>>) = 0
OBVIOUS

LEMMA TypeInit == Init => TypeInv
<1> SUFFICES ASSUME Init PROVE TypeInv
  OBVIOUS
<1>1. engine \in Engine
  BY EngineOfType, NoStateType DEF Init
<1>2. store \in Seq(Checkpoint) /\ Len(store) = 1
  BY NoStateType DEF Init, Checkpoint
<1>3. rows \in Seq(Row) /\ Len(rows) = 0
  BY EmptyType DEF Init
<1>4. step \in 1 .. Steps + 1 /\ streak \in 0 .. MaxIterations /\ parent \in 1 .. Len(store)
      /\ Len(rows) <= MaxIterations
  BY <1>2, <1>3, BoundAssumption DEF Init
<1>5. version \in Versions /\ prior \in BOOLEAN /\ held \in BOOLEAN /\ open \subseteq Cand
      /\ hit \subseteq Faults
  BY DEF Init
<1>6. TypeOK
  BY <1>1, <1>2, <1>3, <1>4, <1>5 DEF Init, TypeOK
<1>. QED BY <1>3, <1>6, BoundAssumption DEF Init, TypeInv, Room

LEMMA TypeStep == TypeInv /\ [Next]_vars => TypeInv'
<1> SUFFICES ASSUME TypeInv, [Next]_vars PROVE TypeInv'
  OBVIOUS
<1>t. Typed
  BY DEF TypeInv, TypeOK, Typed
<1>c. \A e \in Engine : Closes(e) => engine' \in Engine /\ open' \subseteq Cand
  BY ShutDownType DEF Closes, TypeInv, TypeOK
<1>s. \A e \in Engine : ShutdownRaises(e) => engine' \in Engine /\ open' \subseteq Cand /\ hit' \subseteq Faults
  BY ShutDownType DEF ShutdownRaises, Fault, TypeInv, TypeOK
<1>h. HalfDiscarded \subseteq Engine /\ Discard(engine) \in Engine
  BY HalfDiscardedType, DiscardType DEF TypeInv, TypeOK
<1> USE DEF TypeInv, TypeOK, Room, At, Go, Quiet, Fault, ledger, V1
<1>1. CASE BeginStep
  <2>1. rows' \in Seq(Row) /\ Len(rows') = 0
    BY <1>1, EmptyType DEF BeginStep
  <2>2. pc' = "construct" /\ pc = "step" /\ streak' = 0 /\ prior' = FALSE
        /\ UNCHANGED <<version, step, parent, status, store, engine, held, open, hit>>
    BY <1>1 DEF BeginStep
  <2>3. streak' \in 0 .. MaxIterations /\ Len(rows') <= MaxIterations /\ Len(rows') < MaxIterations
    BY <2>1, <2>2, BoundAssumption
  <2>b. prior' \in BOOLEAN
    BY <2>2
  <2>4. TypeOK'
    BY <2>1, <2>2, <2>3, <2>b
  <2>5. Room'
    BY <2>1, <2>2, <2>3
  <2>. QED BY <2>4, <2>5
<1>2. CASE Construct
  <2>1. <<step, Len(rows) + 1>> \in Cand
    <3>1. pc = "construct"
      BY <1>2 DEF Construct
    <3>2. step \in 1 .. Steps /\ Len(rows) + 1 \in 1 .. MaxIterations
      BY <3>1, BoundAssumption
    <3>. QED BY <3>2 DEF Cand
  <2>2. store[parent].json \in State
    <3>1. store[parent] \in Checkpoint
      OBVIOUS
    <3>. QED BY <3>1 DEF Checkpoint
  <2>3. engine' \in Engine /\ open' \subseteq Cand
    BY <1>2, <2>1, <2>2, EngineOfType DEF Construct
  <2>. QED BY <1>2, <2>3 DEF Construct
<1>3. CASE Trial
  <2>1. ASSUME NEW row \in Row PROVE [Tried(engine) EXCEPT !.row = row] \in Engine
    BY <1>t, TriedType DEF Engine
  <2>. QED BY <1>3, <2>1 DEF Trial
<1>4. CASE TrialRaises
  <2>1. {engine, Predicted(engine), Corrected(Predicted(engine)), Tried(engine)} \subseteq Engine
    BY <1>t, PredictedType, CorrectedType, TriedType
  <2>2. engine' \in Engine
    BY <1>4, <2>1, TrialFailureType DEF TrialRaises
  <2>. QED BY <1>4, <2>2 DEF TrialRaises
<1>5. CASE DecideV1
  BY <1>5 DEF DecideV1, Hard, Selected, Engine, Row
<1>6. CASE DecideV2
  <2>1. rows' \in Seq(Row) /\ Len(rows') = Len(rows) + 1 /\ rows' # <<>>
    BY <1>6 DEF DecideV2, Engine
  <2>2. streak' \in Nat /\ streak' <= Len(rows')
    BY <1>6, <2>1 DEF DecideV2, Streak
  <2>. QED BY <1>6, <2>1, <2>2, BoundAssumption DEF DecideV2
<1>7. CASE Reject
  <2>1. engine' \in Engine /\ open' \subseteq Cand /\ hit' \subseteq Faults
    BY <1>7, <1>c, <1>s, <1>h DEF Reject, DiscardRaises
  <2>. QED BY <1>7, <2>1 DEF Reject
<1>8. CASE Clear
  <2>1. /\ engine' \in Engine /\ open' \subseteq Cand /\ hit' \subseteq Faults
        /\ held' \in BOOLEAN
    BY <1>8, <1>c, <1>s, <1>h DEF Clear, DiscardRaises
  <2>. QED BY <1>8, <2>1 DEF Clear
<1>9. CASE Judge
  <2>1. engine.row \in Row
    BY DEF Engine
  <2>2. /\ Append(rows, engine.row) \in Seq(Row)
        /\ Len(Append(rows, engine.row)) = Len(rows) + 1 /\ Append(rows, engine.row) # <<>>
    BY <2>1, AppendType
  <2>3. rows' \in Seq(Row) /\ Len(rows') \in {Len(rows), Len(rows) + 1} /\ (pc' = "next" => rows' # <<>>)
    BY <1>9, <2>2 DEF Judge
  <2>. QED BY <1>9, <2>3, BoundAssumption DEF Judge
<1>10. CASE NextCandidate
  BY <1>10, BoundAssumption DEF NextCandidate, Remaining
<1>11. CASE Promote
  <2>1. Written \in Checkpoint
    BY ActiveType DEF Written, Checkpoint, Engine, Runner
  <2>2. Ready(engine) \in Engine /\ [Finalized(engine) EXCEPT !.promoted = TRUE] \in Engine
    BY ReadyType, FinalizedType DEF Engine
  <2>3. engine' \in Engine
    BY <1>11, <2>2 DEF Promote
  <2>4. store' \in Seq(Checkpoint) /\ parent \in 1 .. Len(store')
    <3>1. Append(store, Written) \in Seq(Checkpoint) /\ Len(Append(store, Written)) = Len(store) + 1
      BY <2>1, AppendType
    <3>2. store' \in {store, Append(store, Written)} /\ parent' = parent
      BY <1>11 DEF Promote
    <3>. QED BY <3>1, <3>2
  <2>. QED BY <1>11, <2>3, <2>4 DEF Promote
<1>12. CASE Leave
  <2>1. /\ engine' \in Engine /\ open' \subseteq Cand /\ hit' \subseteq Faults
        /\ held' \in BOOLEAN
    BY <1>12, <1>c, <1>s DEF Leave
  <2>2. parent' \in 1 .. Len(store') /\ step' \in 1 .. Steps + 1
    BY <1>12, BoundAssumption DEF Leave, Accept
  <2>. QED BY <1>12, <2>1, <2>2, BoundAssumption DEF Leave, Accept
<1>13. CASE Abort
  <2>1. /\ engine' \in Engine /\ open' \subseteq Cand /\ hit' \subseteq Faults
        /\ held' \in BOOLEAN
    BY <1>13, <1>c, <1>s DEF Abort
  <2>. QED BY <1>13, <2>1 DEF Abort
<1>14. CASE StepFails
  BY <1>14 DEF StepFails
<1>15. CASE Raise
  BY <1>15 DEF Raise
<1>16. CASE Close
  <2>1. /\ engine' \in Engine /\ open' \subseteq Cand /\ hit' \subseteq Faults
        /\ held' \in BOOLEAN
    BY <1>16, <1>c, <1>s, <1>h DEF Close, DiscardRaises
  <2>. QED BY <1>16, <2>1 DEF Close
<1>17. CASE UNCHANGED vars
  BY <1>17 DEF vars
<1>. QED BY <1>1, <1>2, <1>3, <1>4, <1>5, <1>6, <1>7, <1>8, <1>9, <1>10, <1>11, <1>12,
  <1>13, <1>14, <1>15, <1>16, <1>17 DEF Next

LEMMA TypeAlways == Spec => []TypeInv
BY TypeInit, TypeStep, PTL DEF Spec

\* Whatever candidates are tried and whatever raises, each variable keeps its
\* type; in particular no step has more than MaxIterations candidates and no
\* more than Steps steps are made.
THEOREM StrongTypeCorrect == Spec => []TypeOK
BY TypeAlways, PTL DEF TypeInv
-----------------------------------------------------------------------------
(* What a step leaves as it is.                                            *)

LEMMA EngineKept ==
  ASSUME TypeInv, [Next]_vars, pc # "construct"
  PROVE  engine'.cand = engine.cand /\ (pc # "trial" => engine'.row = engine.row)
<1>t. Typed /\ engine \in Engine
  BY DEF TypeInv, TypeOK, Typed
<1>c. \A e \in Engine : Closes(e) /\ Same(engine, e) => Same(engine, engine')
  BY ShutDownType DEF Closes, Same
<1>s. \A e \in Engine : ShutdownRaises(e) /\ Same(engine, e) => Same(engine, engine')
  BY ShutDownType DEF ShutdownRaises, Same
<1>d. Discard(engine) \in Engine /\ Same(engine, Discard(engine)) /\ Same(engine, engine)
  BY <1>t, DiscardType DEF Same
<1>h. \A e \in HalfDiscarded : e \in Engine /\ Same(engine, e)
  BY <1>t, HalfDiscardedType
<1>1. CASE Trial
  <2>1. Tried(engine) \in Engine /\ Tried(engine).cand = engine.cand
    BY <1>t, TriedType DEF Same
  <2>. QED BY <1>1, <2>1 DEF Trial, At, Engine
<1>2. CASE TrialRaises
  <2>1. \A e \in {engine, Predicted(engine), Corrected(Predicted(engine)), Tried(engine)} :
          e \in Engine /\ e.cand = engine.cand
    BY <1>t, PredictedType, CorrectedType, TriedType DEF Same
  <2>2. engine'.cand = engine.cand
    BY <1>2, <2>1, TrialFailureType DEF TrialRaises, Same
  <2>. QED BY <1>2, <2>2 DEF TrialRaises, At
<1>3. CASE Reject
  BY <1>3, <1>t, <1>c, <1>s, <1>d, <1>h DEF Reject, Same
<1>4. CASE Clear
  BY <1>4, <1>t, <1>c, <1>s, <1>d, <1>h DEF Clear, Same
<1>5. CASE Promote
  <2>1. /\ Ready(engine) \in Engine /\ Same(engine, Ready(engine))
        /\ Finalized(engine) \in Engine /\ Same(engine, Finalized(engine))
    BY <1>t, ReadyType, FinalizedType
  <2>. QED BY <1>5, <2>1 DEF Promote, Same, Engine
<1>6. CASE Leave \/ Abort
  BY <1>6, <1>t, <1>c, <1>s, <1>d DEF Leave, Abort, Same
<1>7. CASE Close
  BY <1>7, <1>t, <1>c, <1>s, <1>d, <1>h DEF Close, Same
<1>8. CASE BeginStep \/ DecideV1 \/ DecideV2 \/ Judge \/ NextCandidate \/ StepFails \/ Raise
  BY <1>8 DEF BeginStep, DecideV1, DecideV2, Judge, NextCandidate, StepFails, Raise
<1>9. CASE Construct
  BY <1>9 DEF Construct, At
<1>10. CASE UNCHANGED vars
  BY <1>10 DEF vars
<1>. QED BY <1>1, <1>2, <1>3, <1>4, <1>5, <1>6, <1>7, <1>8, <1>9, <1>10 DEF Next

LEMMA VersionKept == ASSUME [Next]_vars PROVE version' = version
BY DEF Next, vars, ledger, BeginStep, Construct, Trial, TrialRaises, DecideV1, DecideV2,
  Reject, Clear, Judge, NextCandidate, Promote, Leave, Abort, StepFails, Raise, Close

LEMMA StoreKept ==
  ASSUME [Next]_vars
  PROVE  /\ store' \in {store, Append(store, Written)}
         /\ store' # store => pc = "promote" /\ pc' \in {"leave", "abort"} /\ Promotable
         /\ pc = "promote" /\ pc' = "leave" => store' = Append(store, Written)
BY DEF Next, vars, ledger, BeginStep, Construct, Trial, TrialRaises, DecideV1, DecideV2,
  Reject, Clear, Judge, NextCandidate, Promote, Leave, Abort, StepFails, Raise, Close, At, Go
-----------------------------------------------------------------------------
(* The chain of checkpoints.                                               *)

Busy == {"trial", "decide", "reject", "clear", "judge", "promote"}
Late == {"leave", "abort", "fail", "raise", "close", "over"}

Chain ==
  /\ \A k \in 2 .. Len(store) : store[k].parent = k - 1 /\ store[k].cand[1] = k - 1
  /\ store[1].cand = NoCand /\ parent = step
  /\ Len(store) \in {parent, parent + 1}
  /\ Len(store) = parent + 1 => pc \in Late
  /\ pc = "leave" => Len(store) = parent + 1
  /\ pc \in Busy => engine.cand[1] = step
  /\ status = "passed" => Len(store) = parent /\ step = Steps + 1

LEMMA ChainInit == Init => Chain
BY DEF Init, Chain, Busy, Late

LEMMA ChainStep == TypeInv /\ TypeInv' /\ Chain /\ [Next]_vars => Chain'
<1> SUFFICES ASSUME TypeInv, TypeInv', Chain, [Next]_vars PROVE Chain'
  OBVIOUS
<1>t. store \in Seq(Checkpoint) /\ parent \in Nat /\ step \in Nat
  BY BoundAssumption DEF TypeInv, TypeOK
<1>1. CASE Promote
  <2>1. pc = "promote" /\ Len(store) = parent /\ engine.cand[1] = step
    BY <1>1 DEF Promote, At, Chain, Busy, Late
  <2>2. Written \in Checkpoint
    BY ActiveType DEF Written, Checkpoint, Engine, Runner, TypeInv, TypeOK
  <2>3. /\ Append(store, Written) \in Seq(Checkpoint)
        /\ Len(Append(store, Written)) = parent + 1
        /\ Append(store, Written)[parent + 1] = Written
        /\ \A k \in 1 .. parent : Append(store, Written)[k] = store[k]
    BY <1>t, <2>1, <2>2, AppendType
  <2>4. Written.parent = parent /\ Written.cand[1] = parent
    BY <2>1 DEF Written, Chain
  <2>5. \A k \in 2 .. Len(store') : store'[k].parent = k - 1 /\ store'[k].cand[1] = k - 1
    <3>1. CASE store' = store
      BY <3>1 DEF Chain
    <3>2. CASE store' = Append(store, Written)
      <4>1. \A k \in 2 .. parent : store'[k] = store[k]
        BY <3>2, <2>3, <1>t
      <4>2. Len(store') = parent + 1 /\ store'[parent + 1] = Written
        BY <3>2, <2>3
      <4>3. \A k \in 2 .. parent : store'[k].parent = k - 1 /\ store'[k].cand[1] = k - 1
        BY <4>1, <2>1 DEF Chain
      <4>4. store'[parent + 1].parent = parent /\ store'[parent + 1].cand[1] = parent
        BY <4>2, <2>4
      <4>5. \A k \in 2 .. parent + 1 : k \in 2 .. parent \/ (k = parent + 1 /\ k - 1 = parent)
        BY <1>t
      <4>. QED BY <4>2, <4>3, <4>4, <4>5
    <3>. QED BY <3>1, <3>2, StoreKept
  <2>6. /\ parent' = parent /\ step' = step /\ status' = status
        /\ pc' \in {"leave", "abort", "fail"}
    BY <1>1 DEF Promote, Go, ledger
  <2>7. status # "passed"
    BY <2>1 DEF TypeInv, Room
  <2>8. Len(store') \in {parent, parent + 1} /\ (pc' = "leave" => Len(store') = parent + 1)
    BY <2>1, <2>3, StoreKept
  <2>9. store'[1].cand = NoCand
    <3>1. 1 \in 1 .. parent
      BY DEF TypeInv, TypeOK
    <3>2. Append(store, Written)[1] = store[1]
      BY <2>3, <3>1
    <3>. QED BY <3>2, StoreKept DEF Chain
  <2>. QED BY <2>5, <2>6, <2>7, <2>8, <2>9, <1>t DEF Chain, Busy, Late
<1>2. CASE Leave
  <2>1. pc = "leave" /\ Len(store) = parent + 1 /\ store' = store /\ status = "running" /\ step <= Steps
    BY <1>2 DEF Leave, At, Chain, TypeInv, Room
  <2>2. CASE Accept
    BY <1>t, <2>1, <2>2, BoundAssumption DEF Accept, Go, Chain, Busy, Late
  <2>3. CASE ~Accept
    <3>1. parent' = parent /\ step' = step /\ status' = status /\ pc' \in {"fail", "raise"}
      BY <1>2, <2>3 DEF Leave, Go
    <3>. QED BY <2>1, <3>1 DEF Chain, Busy, Late
  <2>. QED BY <2>2, <2>3
<1>3. CASE Construct
  <2>1. pc = "construct" /\ pc' \in {"trial", "fail"} /\ UNCHANGED <<ledger, store>>
    BY <1>3 DEF Construct, At, Go
  <2>2. pc' = "trial" => engine'.cand[1] = step
    BY <1>3 DEF Construct, EngineOf, Go
  <2>. QED BY <2>1, <2>2 DEF Chain, Busy, Late, ledger
<1>4. CASE BeginStep \/ Trial \/ TrialRaises \/ DecideV1 \/ DecideV2 \/ Reject \/ Clear \/ Judge
           \/ NextCandidate
  <2>1. /\ UNCHANGED <<step, parent, store, status>>
        /\ pc \in {"step", "next"} \cup Busy /\ pc # "promote"
        /\ (pc' \in Busy => pc \in Busy) /\ (pc = "clear" => pc' \in Late) /\ pc' # "leave"
    BY <1>4 DEF BeginStep, Trial, TrialRaises, DecideV1, DecideV2, Reject, Clear, Judge,
      NextCandidate, At, Go, ledger, Busy, Late
  <2>2. engine'.cand = engine.cand
    BY <2>1, EngineKept DEF Busy
  <2>. QED BY <2>1, <2>2 DEF Chain, Busy, Late
<1>5. CASE Abort \/ StepFails \/ Raise \/ Close
  <2>1. /\ UNCHANGED <<step, parent, store>> /\ pc \in Late /\ pc' \in Late /\ pc' # "leave"
        /\ (status' = "passed" => status = "passed")
    BY <1>5 DEF Abort, StepFails, Raise, Close, At, Go, ledger, Late
  <2>. QED BY <2>1 DEF Chain, Busy, Late
<1>6. CASE UNCHANGED vars
  BY <1>6 DEF vars, ledger, Chain
<1>. QED BY <1>1, <1>2, <1>3, <1>4, <1>5, <1>6 DEF Next

LEMMA ChainAlways == Spec => []Chain
BY TypeAlways, ChainInit, ChainStep, PTL DEF Spec

LEMMA ChainSuffices == TypeInv /\ Chain => OnlyLastOrphan
BY BoundAssumption DEF Chain, OnlyLastOrphan, TypeInv, TypeOK, Late

\* The checkpoints on disk are a chain whatever raised, and only the last may
\* be one that the program has not made its parent.
THEOREM OrphanIsLast == Spec => []OnlyLastOrphan
BY TypeAlways, ChainAlways, ChainSuffices, PTL

-----------------------------------------------------------------------------
(* What the adapter holds, and the gates the verdicts come from.           *)

Last(s) == s[Len(s)]

Verdict ==
  /\ pc \in {"step", "construct", "trial", "decide", "reject", "next"} \/ ~V1 => ~held
  /\ V1 /\ pc \in {"construct", "trial", "decide", "next"} =>
       (prior <=> rows # <<>> /\ Hard(Last(rows)))
  /\ V1 /\ pc \in {"reject", "judge"} => (prior <=> Hard(engine.row))
  /\ V1 /\ pc = "reject" => ~Converged(engine.row)
  /\ V1 /\ pc = "judge" => (held <=> Converged(engine.row))
  /\ pc = "judge" => V1
  /\ V1 /\ pc = "promote" => held
  /\ V1 /\ pc \in {"trial", "decide", "reject", "judge"} => engine.cand = <<step, Len(rows) + 1>>
  /\ ~V1 /\ pc \in {"trial", "decide"} => engine.cand = <<step, Len(rows) + 1>>
  /\ pc = "promote" => engine.cand = <<step, Len(rows)>>

LEMMA VerdictInit == Init => Verdict
BY DEF Init, Verdict

LEMMA VerdictStep == TypeInv /\ Verdict /\ [Next]_vars => Verdict'
<1> SUFFICES ASSUME TypeInv, Verdict, [Next]_vars PROVE Verdict'
  OBVIOUS
<1>t. rows \in Seq(Row) /\ engine.row \in Row
  BY DEF TypeInv, TypeOK, Engine
<1>v. V1' <=> V1
  BY VersionKept DEF V1
<1>a. /\ Len(Append(rows, engine.row)) = Len(rows) + 1 /\ Append(rows, engine.row) # <<>>
      /\ Last(Append(rows, engine.row)) = engine.row /\ Len(rows) \in Nat
  BY <1>t, AppendType DEF Last
<1>k. pc \notin {"construct", "trial"} => engine'.cand = engine.cand /\ engine'.row = engine.row
  BY EngineKept
<1>1. CASE BeginStep
  BY <1>1, <1>v DEF BeginStep, At, Go, Verdict
<1>2. CASE Construct
  <2>1. pc' = "trial" => engine'.cand = <<step, Len(rows) + 1>>
    BY <1>2 DEF Construct, EngineOf, Go
  <2>2. pc = "construct" /\ pc' \in {"trial", "fail"} /\ UNCHANGED <<step, rows, prior, held>>
    BY <1>2 DEF Construct, At, Go, ledger
  <2>. QED BY <2>1, <2>2, <1>v DEF Verdict, Last
<1>3. CASE Trial \/ TrialRaises
  <2>1. pc = "trial" /\ pc' \in {"decide", "clear"} /\ UNCHANGED <<step, rows, prior, held>>
    BY <1>3 DEF Trial, TrialRaises, At, Go, ledger
  <2>2. engine'.cand = engine.cand
    BY <2>1, EngineKept
  <2>. QED BY <2>1, <2>2, <1>v DEF Verdict, Last
<1>4. CASE DecideV1
  <2>1. /\ pc = "decide" /\ V1 /\ pc' \in {"judge", "reject", "clear"}
        /\ UNCHANGED <<step, rows, engine>>
    BY <1>4 DEF DecideV1, At, Go
  <2>3. prior' <=> Hard(engine.row)
    BY <1>4 DEF DecideV1
  <2>4. /\ pc' = "judge" => Selected /\ held'
        /\ pc' = "reject" => ~Selected /\ (held' <=> held)
    <3>1. \/ Selected /\ held' = TRUE /\ pc' = "judge"
          \/ ~Selected /\ held' = held /\ pc' = "reject"
          \/ pc' = "clear"
      BY <1>4 DEF DecideV1, Go
    <3>2. CASE Selected /\ held' = TRUE /\ pc' = "judge"
      BY <3>2
    <3>3. CASE ~Selected /\ held' = held /\ pc' = "reject"
      BY <3>3
    <3>4. CASE pc' = "clear"
      BY <3>4
    <3>. QED BY <3>1, <3>2, <3>3, <3>4
  <2>2. Selected <=> Converged(engine.row)
    BY <2>1 DEF Verdict, Selected, Converged, Last
  <2>. QED BY <2>1, <2>2, <2>3, <2>4, <1>v DEF Verdict, Last, Converged, Hard
<1>5. CASE DecideV2
  <2>1. /\ pc = "decide" /\ ~V1 /\ pc' \in {"promote", "reject", "clear"} /\ (held' <=> held)
        /\ UNCHANGED <<step, engine>> /\ rows' = Append(rows, engine.row)
    BY <1>5 DEF DecideV2, At, Go
  <2>. QED BY <2>1, <1>a, <1>v DEF Verdict
<1>6. CASE Reject
  <2>1. /\ pc = "reject" /\ (V1 => pc' \in {"judge", "clear"})
        /\ (~V1 => pc' \in {"next", "fail", "raise"})
        /\ UNCHANGED <<step, rows, prior, held>>
    BY <1>6 DEF Reject, At, Go, ledger
  <2>. QED BY <2>1, <1>k, <1>v DEF Verdict, Converged, Hard
<1>7. CASE Judge
  <2>1. /\ pc = "judge" /\ UNCHANGED <<step, prior, held, engine>>
        /\ pc' \in {"fail", "promote", "next"}
        /\ pc' # "fail" => rows' = Append(rows, engine.row)
        /\ pc' = "promote" => Converged(engine.row)
        /\ pc' = "next" => ~Converged(engine.row)
    BY <1>7 DEF Judge, At, Go
  <2>. QED BY <2>1, <1>a, <1>v DEF Verdict, Hard
<1>8. CASE NextCandidate
  <2>1. pc = "next" /\ pc' \in {"construct", "fail"} /\ UNCHANGED <<step, rows, prior, held>>
    BY <1>8 DEF NextCandidate, At, Go, ledger
  <2>. QED BY <2>1, <1>v DEF Verdict, Last
<1>9. CASE Leave
  <2>1. /\ pc = "leave" /\ pc' \in {"step", "close", "fail", "raise"}
        /\ pc' = "step" => ~held'
        /\ ~V1 => ~held' \/ (held' <=> held)
    BY <1>9 DEF Leave, Accept, At, Go
  <2>. QED BY <2>1, <1>v DEF Verdict
<1>10. CASE Clear \/ Promote \/ Abort \/ StepFails \/ Raise \/ Close
  <2>1. /\ pc' \in {"leave", "abort", "fail", "raise", "close", "over"}
        /\ ~held' \/ (held' <=> held)
    BY <1>10 DEF Clear, Promote, Abort, StepFails, Raise, Close, Go
  <2>. QED BY <2>1, <1>v DEF Verdict
<1>11. CASE UNCHANGED vars
  BY <1>11, <1>v DEF vars, ledger, Verdict, Last, Converged, Hard
<1>. QED BY <1>1, <1>2, <1>3, <1>4, <1>5, <1>6, <1>7, <1>8, <1>9, <1>10, <1>11 DEF Next

LEMMA VerdictAlways == Spec => []Verdict
BY TypeAlways, VerdictInit, VerdictStep, PTL DEF Spec

LEMMA VerdictSuffices == Verdict => HeldIsPromoted
BY DEF Verdict, HeldIsPromoted

\* The adapter, from its memory of the candidate before, and the coordinator,
\* from the ledger's rows, always reach the same verdict on a candidate.
THEOREM VerdictsAgree == Spec => []HeldIsPromoted
BY VerdictAlways, VerdictSuffices, PTL

-----------------------------------------------------------------------------
(* Engines are closed.                                                     *)

Between == {"step", "construct", "next", "fail", "close", "over"}
Shut    == open = {} /\ ~engine.solvers

Alive ==
  /\ open \subseteq {engine.cand}
  /\ pc \in {"step", "construct", "next"} \/ (pc = "judge" /\ ~held) => open = {}
  /\ "shutdown" \notin hit /\ (pc \in Between \/ (pc = "judge" /\ ~held)) => Shut
  /\ "shutdown" \notin hit /\ pc \in Between => ~held
  /\ pc = "raise" => "shutdown" \in hit

LEMMA AliveInit == Init => Alive
BY DEF Init, Alive, Between, Shut, EngineOf

LEMMA AliveStep == TypeInv /\ Verdict /\ Alive /\ [Next]_vars => Alive'
<1> SUFFICES ASSUME TypeInv, Verdict, Alive, [Next]_vars PROVE Alive'
  OBVIOUS
<1>t. Typed /\ engine \in Engine /\ Discard(engine) \in Engine
  BY DiscardType DEF TypeInv, TypeOK, Typed
<1>c. \A e \in Engine : Closes(e) => Shut' /\ open' \subseteq {engine'.cand}
  BY ShutDownType DEF Closes, Alive, Shut
<1>s. \A e \in Engine : ShutdownRaises(e) => "shutdown" \in hit' /\ open' = open
  BY DEF ShutdownRaises, Fault
<1>h. HalfDiscarded \subseteq Engine
  BY <1>t, HalfDiscardedType
<1>k. pc # "construct" => engine'.cand = engine.cand
  BY EngineKept
<1>C. ASSUME Shut', ~held' \/ pc' \notin Between, pc' # "raise" PROVE Alive'
  BY <1>C DEF Alive, Shut
<1>S. ASSUME "shutdown" \in hit', open' = open, pc # "construct",
             pc' \notin {"step", "construct", "next", "judge"}
      PROVE  Alive'
  BY <1>S, <1>k DEF Alive
<1>1. CASE BeginStep
  BY <1>1 DEF BeginStep, At, Go, Quiet, Alive, Between, Shut
<1>2. CASE Construct
  <2>1. /\ pc = "construct" /\ open = {} /\ ~held /\ (held' <=> held)
        /\ "shutdown" \notin hit => Shut
    BY <1>2 DEF Construct, At, Alive, Verdict, Between
  <2>2. CASE pc' = "trial"
    <3>1. engine'.cand = <<step, Len(rows) + 1>> /\ open' = {<<step, Len(rows) + 1>>}
      BY <1>2, <2>1, <2>2 DEF Construct, Go, EngineOf
    <3>. QED BY <3>1, <2>2 DEF Alive, Between
  <2>3. CASE pc' = "fail"
    <3>1. UNCHANGED <<engine, open>> /\ hit \subseteq hit'
      BY <1>2, <2>3, <2>1 DEF Construct, Go, Fault
    <3>. QED BY <3>1, <2>1, <2>3 DEF Alive, Between, Shut
  <2>. QED BY <1>2, <2>2, <2>3, <2>1 DEF Construct, Go
<1>3. CASE Trial \/ TrialRaises \/ DecideV1 \/ DecideV2
  <2>1. /\ pc \in {"trial", "decide"} /\ open' = open
        /\ pc' \in {"decide", "clear", "judge", "reject", "promote"}
        /\ pc' = "judge" => held'
    BY <1>3 DEF Trial, TrialRaises, DecideV1, DecideV2, At, Go
  <2>. QED BY <2>1, <1>k DEF Alive, Between
<1>4. CASE Reject
  <2>1. pc = "reject" /\ ~held'
    BY <1>4 DEF Reject, At, Verdict
  <2>2. CASE ShutdownRaises(Discard(engine)) /\ Go(IF V1 THEN "clear" ELSE "raise")
    BY <2>1, <2>2, <1>s, <1>t, <1>S DEF Go
  <2>3. CASE ~(ShutdownRaises(Discard(engine)) /\ Go(IF V1 THEN "clear" ELSE "raise"))
    <3>1. Shut' /\ pc' \in {"judge", "next", "clear", "fail"}
      BY <1>4, <2>3, <1>c, <1>t, <1>h DEF Reject, Go
    <3>. QED BY <3>1, <2>1, <1>C
  <2>. QED BY <2>2, <2>3
<1>5. CASE Clear
  <2> DEFINE cleared == IF V1 /\ engine.trial THEN Discard(engine) ELSE engine
  <2>1. pc = "clear" /\ cleared \in Engine
    BY <1>5, <1>t DEF Clear, At
  <2>2. CASE ShutdownRaises(cleared) /\ Go(IF V1 THEN "fail" ELSE "raise")
    BY <2>1, <2>2, <1>s, <1>S DEF Go
  <2>3. CASE ~(ShutdownRaises(cleared) /\ Go(IF V1 THEN "fail" ELSE "raise"))
    <3>1. Shut' /\ pc' = "fail" /\ ~held'
      BY <1>5, <2>1, <2>3, <1>c, <1>h DEF Clear, Go
    <3>. QED BY <3>1, <1>C
  <2>. QED BY <2>2, <2>3
<1>6. CASE Judge
  <2>1. /\ pc = "judge" /\ V1 /\ UNCHANGED <<engine, open, hit>> /\ (held' <=> held)
        /\ pc' \in {"promote", "fail", "next"}
        /\ pc' # "promote" => ~held
    BY <1>6 DEF Judge, At, Go, Quiet, Verdict, Converged, Hard, SafetyPassed
  <2>. QED BY <2>1 DEF Alive, Between, Shut
<1>7. CASE NextCandidate \/ StepFails \/ Raise
  <2>1. /\ UNCHANGED <<engine, open, hit>> /\ (held' <=> held)
        /\ \/ pc = "next" /\ pc' \in {"construct", "fail"}
           \/ pc = "fail" /\ pc' = "close"
           \/ pc = "raise" /\ pc' = "over"
    BY <1>7 DEF NextCandidate, StepFails, Raise, At, Go, Quiet
  <2>. QED BY <2>1 DEF Alive, Between, Shut
<1>8. CASE Promote
  <2>1. /\ pc = "promote" /\ open' = open /\ (V1 => held)
        /\ pc' \in {"leave", "abort"}
    BY <1>8 DEF Promote, At, Go, Verdict
  <2>. QED BY <2>1, <1>k DEF Alive, Between
<1>9. CASE Leave \/ Abort
  <2>1. pc \in {"leave", "abort"}
    BY <1>9 DEF Leave, Abort, At
  <2>2. CASE ShutdownRaises(engine) /\ Go(IF V1 THEN "fail" ELSE "raise")
    BY <2>1, <2>2, <1>s, <1>t, <1>S DEF Go
  <2>3. CASE ~(ShutdownRaises(engine) /\ Go(IF V1 THEN "fail" ELSE "raise"))
    <3>1. Shut' /\ pc' \in {"step", "close", "fail"} /\ ~held'
      BY <1>9, <2>3, <1>c, <1>t DEF Leave, Accept, Abort, Go
    <3>. QED BY <3>1, <1>C
  <2>. QED BY <2>2, <2>3
<1>10. CASE Close
  <2> DEFINE given == IF MayDiscard THEN Discard(engine) ELSE engine
  <2>1. pc = "close" /\ pc' = "over" /\ given \in Engine
    BY <1>10, <1>t DEF Close, At, Go
  <2>2. CASE ShutdownRaises(given)
    BY <2>1, <2>2, <1>s, <1>S
  <2>3. CASE ~held /\ Quiet /\ UNCHANGED <<engine, open, held>>
    BY <2>1, <2>3 DEF Alive, Quiet, Between, Shut
  <2>4. CASE ~ShutdownRaises(given) /\ held
    <3>1. Shut' /\ ~held'
      BY <1>10, <2>1, <2>4, <1>c, <1>h DEF Close
    <3>. QED BY <2>1, <3>1, <1>C
  <2>. QED BY <1>10, <2>2, <2>3, <2>4 DEF Close
<1>11. CASE UNCHANGED vars
  BY <1>11 DEF vars, ledger, Alive, Between, Shut
<1>. QED BY <1>1, <1>2, <1>3, <1>4, <1>5, <1>6, <1>7, <1>8, <1>9, <1>10, <1>11 DEF Next

LEMMA AliveAlways == Spec => []Alive
BY TypeAlways, VerdictAlways, AliveInit, AliveStep, PTL DEF Spec

LEMMA AliveSuffices == Alive => OneEngine /\ CleanEnd
<1> SUFFICES ASSUME Alive PROVE OneEngine /\ CleanEnd
  OBVIOUS
<1>1. open = {} \/ open = {engine.cand}
  BY DEF Alive
<1>2. Cardinality({}) = 0 /\ Cardinality({engine.cand}) = 1
  BY FS_EmptySet, FS_Singleton
<1>3. Cardinality(open) <= 1
  BY <1>1, <1>2
<1>. QED BY <1>3 DEF Alive, OneEngine, CleanEnd, Between, Shut

\* There is never a second engine: the one before is closed, or the program
\* goes on to its end.
THEOREM OneEngineAtATime == Spec => []OneEngine
BY AliveAlways, AliveSuffices, PTL

\* Unless a shutdown raised, the program ends with every engine closed and no
\* candidate held, whatever else raised an Exception and wherever.
THEOREM EndsClean == Spec => []CleanEnd
BY AliveAlways, AliveSuffices, PTL

-----------------------------------------------------------------------------
(* The states of the structure, from the trial to the checkpoint.          *)

\* What moved the meshes of the candidate, and what its correction is.
Moved  == [kind |-> "predicted", cand |-> engine.cand, base |-> parent]
Target == [kind |-> "corrected", cand |-> engine.cand, base |-> parent]

Staged ==
  /\ engine.trial /\ ~engine.discarded /\ ~engine.promoted
  /\ engine.motion = Moved /\ engine.runner.saved = Moved /\ engine.runner.token
  /\ engine.runner.correction = Target /\ engine.runner.pending = "correction"
  /\ ~V1 => engine.snapshot = Moved

Prepared ==
  /\ pc = "trial" =>
       engine.runner.committed = store[parent].json /\ ~engine.discarded /\ ~engine.promoted
  /\ pc \in {"decide", "promote"} \/ (pc = "judge" /\ held) => Staged

LEMMA TriedStaged ==
  ASSUME TypeInv, engine.runner.committed = store[parent].json,
         ~engine.discarded, ~engine.promoted, NEW row \in Row
  PROVE  LET e == [Tried(engine) EXCEPT !.row = row] IN
         /\ e.cand = engine.cand /\ e.trial /\ ~e.discarded /\ ~e.promoted
         /\ e.motion = Moved /\ e.runner.saved = Moved /\ e.runner.token
         /\ e.runner.correction = Target /\ e.runner.pending = "correction"
         /\ ~V1 => e.snapshot = Moved
<1>t. Typed /\ engine \in Engine /\ engine.runner \in Runner
  BY DEF TypeInv, TypeOK, Typed, Engine
<1> DEFINE r1 == Predict(engine.runner, engine.cand)
           r2 == Correct(r1, engine.cand)
           e1 == Predicted(engine)
<1>1. /\ Advance(engine.runner.committed, "predicted", engine.cand) = Moved
      /\ Advance(engine.runner.committed, "corrected", engine.cand) = Target
  BY DEF Advance, Moved, Target
<1>2. r1.prediction = Moved /\ r1.pending = "prediction"
      /\ r1.committed = engine.runner.committed /\ r1 \in Runner
  <2>1. Moved \in State
    BY <1>1, <1>t, AdvanceType DEF Engine, Runner
  <2>. QED BY <1>1, <1>t, <2>1 DEF Predict, Runner
<1>3. Active(r1) = Moved
  BY <1>2 DEF Active
<1>4. r2.saved = Moved /\ r2.token /\ r2.correction = Target /\ r2.pending = "correction"
  <2> HIDE DEF r1
  <2>. QED BY <1>1, <1>2, <1>3 DEF Correct, Runner
<1>5. /\ e1 \in Engine /\ e1.runner = r1 /\ e1.motion = Moved /\ e1.cand = engine.cand
      /\ (~V1 => e1.snapshot = Moved) /\ ~e1.discarded /\ ~e1.promoted
  BY <1>t, <1>2, <1>3, PredictedType DEF Predicted, Engine, Same
<1>6. LET e2 == Corrected(e1) IN
      /\ e2 \in Engine /\ e2.runner = r2 /\ e2.motion = Moved /\ e2.cand = engine.cand
      /\ (~V1 => e2.snapshot = Moved) /\ ~e2.discarded /\ ~e2.promoted
  <2> HIDE DEF e1, r1
  <2>. QED BY <1>t, <1>5, CorrectedType DEF Corrected, Engine, Same
<1>. QED BY <1>4, <1>6 DEF Tried, Engine

LEMMA PreparedInit == Init => Prepared
BY DEF Init, Prepared

LEMMA PreparedStep == TypeInv /\ Verdict /\ Prepared /\ [Next]_vars => Prepared'
<1> SUFFICES ASSUME TypeInv, Verdict, Prepared, [Next]_vars PROVE Prepared'
  OBVIOUS
<1>v. V1' <=> V1
  BY VersionKept DEF V1
<1>1. CASE Construct
  <2>1. pc' = "trial" => engine' = EngineOf(<<step, Len(rows) + 1>>, store[parent].json)
    BY <1>1 DEF Construct, Go
  <2>2. UNCHANGED <<store, parent>> /\ pc' \in {"trial", "fail"}
    BY <1>1 DEF Construct, ledger, Go
  <2>. QED BY <2>1, <2>2 DEF Prepared, EngineOf, RunnerOn
<1>2. CASE Trial
  <2>1. pc = "trial" /\ pc' = "decide" /\ UNCHANGED parent
    BY <1>2 DEF Trial, At, Go, ledger
  <2>2. PICK row \in Row : engine' = [Tried(engine) EXCEPT !.row = row]
    BY <1>2 DEF Trial
  <2>3. Staged'
    BY <2>1, <2>2, <1>v, TriedStaged DEF Staged, Prepared, Moved, Target
  <2>. QED BY <2>1, <2>3 DEF Prepared
<1>3. CASE DecideV1 \/ DecideV2 \/ Judge
  <2>1. /\ UNCHANGED <<engine, parent>> /\ pc \in {"decide", "judge"} /\ pc' # "trial"
        /\ pc = "judge" /\ pc' = "promote" => held
        /\ pc = "judge" => pc' \in {"promote", "fail", "next"}
    BY <1>3 DEF DecideV1, DecideV2, Judge, At, Go, Verdict
  <2>. QED BY <2>1, <1>v DEF Prepared, Staged, Moved, Target
<1>4. CASE Reject
  <2>1. ~held /\ (held' <=> held) /\ pc' \in {"judge", "next", "clear", "fail", "raise"}
    BY <1>4 DEF Reject, At, Go, Verdict
  <2>. QED BY <2>1 DEF Prepared
<1>5. CASE BeginStep \/ TrialRaises \/ Clear \/ NextCandidate \/ Promote \/ Leave \/ Abort
           \/ StepFails \/ Raise \/ Close
  <2>1. pc' \notin {"trial", "decide", "promote", "judge"}
    BY <1>5 DEF BeginStep, TrialRaises, Clear, NextCandidate, Promote, Leave, Accept, Abort,
      StepFails, Raise, Close, Go
  <2>. QED BY <2>1 DEF Prepared
<1>6. CASE UNCHANGED vars
  BY <1>6, <1>v DEF vars, ledger, Prepared, Staged, Moved, Target
<1>. QED BY <1>1, <1>2, <1>3, <1>4, <1>5, <1>6 DEF Next

LEMMA PreparedAlways == Spec => []Prepared
BY TypeAlways, VerdictAlways, PreparedInit, PreparedStep, PTL DEF Spec

LEMMA StagedPromotes ==
  ASSUME TypeInv, Verdict, Prepared, pc = "promote"
  PROVE  /\ Promotable
         /\ Written.cand = engine.cand /\ Written.parent = parent /\ Written.motion = Moved
         /\ Written.json = Written.native
         /\ V1 => Written.json = Target
         /\ ~V1 => Written.json = Moved
<1>1. Staged
  BY DEF Prepared
<1>2. Active(engine.runner) = Target
  BY <1>1 DEF Staged, Active
<1>3. engine.runner \in Runner
  BY DEF TypeInv, TypeOK, Engine
<1>4. Restored.committed = Moved /\ Restored.pending = "none"
  BY <1>1, <1>3 DEF Staged, Restored, DiscardStaged, Runner
<1>5. Active(Restored) = Moved
  BY <1>4 DEF Active
<1>. QED BY <1>1, <1>2, <1>5 DEF Staged, Promotable, Written, Verdict

\* The adapter's rollback leads to the very state that was frozen before the
\* flow was computed, so v2 never refuses a selected candidate.
THEOREM RollbackIsPredictor == Spec => []RestoresPredictor
<1>1. TypeInv /\ Verdict /\ Prepared => RestoresPredictor
  BY StagedPromotes DEF RestoresPredictor
<1>. QED BY <1>1, TypeAlways, VerdictAlways, PreparedAlways, PTL

LEMMA CoherentInit == Init => Coherent
BY DEF Init, Coherent

LEMMA CoherentStep ==
  TypeInv /\ Verdict /\ Prepared /\ Coherent /\ [Next]_vars => Coherent'
<1> SUFFICES ASSUME TypeInv, Verdict, Prepared, Coherent, [Next]_vars PROVE Coherent'
  OBVIOUS
<1>v. V1' <=> V1
  BY VersionKept DEF V1
<1>1. CASE store' = store
  BY <1>1, <1>v DEF Coherent
<1>2. CASE store' = Append(store, Written) /\ pc = "promote"
  <2>1. Written \in Checkpoint /\ store \in Seq(Checkpoint)
    BY ActiveType DEF Written, Checkpoint, Engine, Runner, TypeInv, TypeOK
  <2>2. /\ Len(store') = Len(store) + 1 /\ Len(store) \in Nat
        /\ store'[Len(store) + 1] = Written
        /\ \A k \in 1 .. Len(store) : store'[k] = store[k]
    BY <1>2, <2>1, AppendType
  <2>3. Moved # Target /\ Moved.kind = "predicted" /\ Moved.base = parent /\ Moved.cand = engine.cand
        /\ Target.base = parent /\ Target.cand = engine.cand
    BY DEF Moved, Target
  <2> DEFINE Right(c) == /\ c.json = c.native /\ c.json.cand = c.cand /\ c.json.base = c.parent
                         /\ c.motion = [kind |-> "predicted", cand |-> c.cand, base |-> c.parent]
                         /\ c.json = c.motion <=> ~V1
  <2>4. Right(Written)
    BY <1>2, <2>3, StagedPromotes DEF Moved
  <2>5. \A k \in 2 .. Len(store) : Right(store[k])
    BY DEF Coherent
  <2>6. \A k \in 2 .. Len(store') : k \in 1 .. Len(store) \/ k = Len(store) + 1
    BY <2>2
  <2>7. \A k \in 2 .. Len(store') : Right(store'[k])
    <3> HIDE DEF Right
    <3>. QED BY <2>2, <2>4, <2>5, <2>6
  <2>. QED BY <2>7, <1>v DEF Coherent
<1>. QED BY <1>1, <1>2, StoreKept

\* Every checkpoint of the coupling, orphans included, holds one candidate's
\* state, advanced from its parent's: in v1 the corrected one, in v2 the one
\* that moved the meshes.
THEOREM CheckpointsCoherent == Spec => []Coherent
BY TypeAlways, VerdictAlways, PreparedAlways, CoherentInit, CoherentStep, PTL DEF Spec

-----------------------------------------------------------------------------
(* A candidate is discarded or promoted.                                   *)

Stored == \E k \in 1 .. Len(store) : store[k].cand = engine.cand

Disposed ==
  /\ engine.discarded /\ Stored => {"promote", "shutdown"} \subseteq hit
  /\ pc \in {"step", "trial", "decide", "promote", "leave", "abort"} \/ (pc = "judge" /\ held) =>
       ~engine.discarded
  /\ pc = "leave" => engine.promoted
  /\ pc = "abort" /\ Stored => engine.promoted \/ "promote" \in hit
  /\ pc \in {"fail", "close"} /\ held /\ Stored =>
       engine.promoted \/ {"promote", "shutdown"} \subseteq hit

\* A candidate that is still being looked at has no checkpoint.
LEMMA NotStored == TypeInv /\ Chain /\ pc \in Busy => ~Stored
<1> SUFFICES ASSUME TypeInv, Chain, pc \in Busy, NEW k \in 1 .. Len(store)
             PROVE  store[k].cand # engine.cand
  BY DEF Stored
<1>1. engine.cand[1] = step /\ Len(store) = step /\ step \in Nat \ {0}
  BY BoundAssumption DEF Chain, Busy, Late, TypeInv, TypeOK
<1>2. CASE k = 1
  BY <1>1, <1>2 DEF Chain, NoCand
<1>3. CASE k # 1
  BY <1>1, <1>3 DEF Chain
<1>. QED BY <1>2, <1>3

LEMMA DisposedInit == Init => Disposed
BY DEF Init, Disposed, EngineOf

LEMMA DisposedStep ==
  TypeInv /\ Chain /\ Verdict /\ Prepared /\ Disposed /\ [Next]_vars => Disposed'
<1> SUFFICES ASSUME TypeInv, Chain, Verdict, Prepared, Disposed, [Next]_vars PROVE Disposed'
  OBVIOUS
<1>t. engine \in Engine /\ Discard(engine) \in Engine /\ Discard(engine).promoted = engine.promoted
  BY DiscardType DEF TypeInv, TypeOK, Same
<1>b. pc \in Busy => ~Stored
  BY NotStored
<1>k. pc # "construct" /\ store' = store => (Stored' <=> Stored)
  BY EngineKept DEF Stored
<1>1. CASE BeginStep \/ NextCandidate \/ StepFails \/ Raise
  <2>1. /\ UNCHANGED <<store, engine, hit>> /\ (held' <=> held)
        /\ \/ pc = "step" /\ pc' = "construct"
           \/ pc = "next" /\ pc' \in {"construct", "fail"}
           \/ pc = "fail" /\ pc' = "close"
           \/ pc = "raise" /\ pc' = "over"
    BY <1>1 DEF BeginStep, NextCandidate, StepFails, Raise, At, Go, Quiet
  <2>. QED BY <2>1, <1>k DEF Disposed, Verdict
<1>2. CASE Construct
  <2>1. pc = "construct" /\ ~held /\ (held' <=> held) /\ store' = store /\ pc' \in {"trial", "fail"}
    BY <1>2 DEF Construct, At, Go, Verdict
  <2>2. CASE pc' = "trial"
    <3>1. ~engine'.discarded
      BY <1>2, <2>2 DEF Construct, Go, EngineOf
    <3>. QED BY <2>2, <3>1 DEF Disposed
  <2>3. CASE pc' = "fail"
    <3>1. engine' = engine /\ hit \subseteq hit'
      BY <1>2, <2>3 DEF Construct, Go, Fault, Quiet
    <3>2. Stored' <=> Stored
      BY <2>1, <3>1 DEF Stored
    <3>. QED BY <2>1, <2>3, <3>1, <3>2 DEF Disposed
  <2>. QED BY <2>1, <2>2, <2>3
<1>3. CASE Trial
  <2>1. pc = "trial" /\ store' = store /\ pc' = "decide"
    BY <1>3 DEF Trial, At, Go
  <2>2. ~engine'.discarded
    <3>1. Tried(engine) \in Engine /\ Tried(engine).discarded = engine.discarded
      BY <1>t, TriedType DEF TypeInv, TypeOK, Typed
    <3>. QED BY <1>3, <3>1, <2>1 DEF Trial, Engine, Prepared
  <2>3. ~Stored'
    BY <2>1, <1>b, <1>k DEF Busy
  <2>. QED BY <2>1, <2>2, <2>3 DEF Disposed
<1>4. CASE TrialRaises \/ DecideV1 \/ DecideV2 \/ Reject \/ Clear \/ Judge
  <2>1. pc \in Busy /\ pc # "construct" /\ store' = store
    BY <1>4 DEF TrialRaises, DecideV1, DecideV2, Reject, Clear, Judge, At, Busy
  <2>2. ~Stored'
    BY <2>1, <1>b, <1>k
  <2>3. pc' \notin {"step", "trial", "decide", "leave", "abort"}
    BY <1>4 DEF TrialRaises, DecideV1, DecideV2, Reject, Clear, Judge, Go
  <2>4. pc' = "promote" \/ (pc' = "judge" /\ held') => ~engine'.discarded
    <3>1. CASE TrialRaises \/ Clear \/ Reject
      BY <3>1 DEF TrialRaises, Clear, Reject, Go, At, Verdict
    <3>2. CASE DecideV1 \/ DecideV2 \/ Judge
      BY <3>2 DEF DecideV1, DecideV2, Judge, Go, At, Verdict, Disposed
    <3>. QED BY <1>4, <3>1, <3>2
  <2>. QED BY <2>2, <2>3, <2>4 DEF Disposed
<1>5. CASE Promote
  <2>1. pc = "promote" /\ Promotable /\ ~engine.discarded /\ ~Stored /\ (held' <=> held)
    BY <1>5, <1>b, StagedPromotes DEF Promote, At, Disposed, Busy
  <2>2. /\ Ready(engine) \in Engine /\ Ready(engine).discarded = engine.discarded
        /\ Finalized(engine) \in Engine /\ Finalized(engine).discarded = engine.discarded
    BY <1>t, ReadyType, FinalizedType
  <2>3. ~engine'.discarded /\ pc' \in {"leave", "abort"} /\ (pc' = "leave" => engine'.promoted)
        /\ (pc' = "abort" => "promote" \in hit')
    BY <1>5, <2>1, <2>2 DEF Promote, Go, Fault, Engine
  <2>. QED BY <2>3 DEF Disposed
<1>6. CASE Leave \/ Abort
  <2>1. pc \in {"leave", "abort"} /\ store' = store /\ ~engine.discarded /\ hit \subseteq hit'
    BY <1>6 DEF Leave, Abort, At, Disposed, Quiet, Fault, ShutdownRaises
  <2>2. engine' \in {engine, ShutDown(engine)}
    BY <1>6 DEF Leave, Abort, Closes, ShutdownRaises
  <2>3. ~engine'.discarded /\ engine'.promoted = engine.promoted
    BY <1>t, <2>1, <2>2, ShutDownType DEF Same
  <2>4. /\ pc' \in {"step", "fail", "close", "raise"}
        /\ ~held' \/ "shutdown" \in hit' \/ pc' \notin {"fail", "close"}
    BY <1>6 DEF Leave, Accept, Abort, Go, ShutdownRaises, Fault
  <2>5. Stored' /\ pc' \in {"fail", "close"} /\ held' =>
          engine'.promoted \/ {"promote", "shutdown"} \subseteq hit'
    BY <2>1, <2>3, <2>4, <1>k DEF Disposed
  <2>. QED BY <2>3, <2>4, <2>5 DEF Disposed
<1>7. CASE Close
  <2>1. pc = "close" /\ pc' = "over" /\ store' = store /\ hit \subseteq hit'
    BY <1>7 DEF Close, At, Go, Quiet, Fault, DiscardRaises, ShutdownRaises
  <2>2. CASE ~held \/ engine.promoted
    <3>1. engine' = engine \/ engine'.discarded = engine.discarded
      BY <1>7, <2>2, <1>t, ShutDownType DEF Close, MayDiscard, DiscardRaises, Closes, ShutdownRaises
    <3>. QED BY <2>1, <3>1, <1>k DEF Disposed
  <2>3. CASE held /\ ~engine.promoted
    BY <2>1, <2>3, <1>k DEF Disposed
  <2>. QED BY <2>2, <2>3
<1>8. CASE UNCHANGED vars
  BY <1>8 DEF vars, ledger, Disposed, Stored
<1>. QED BY <1>1, <1>2, <1>3, <1>4, <1>5, <1>6, <1>7, <1>8 DEF Next

LEMMA DisposedAlways == Spec => []Disposed
BY TypeAlways, ChainAlways, VerdictAlways, PreparedAlways, DisposedInit, DisposedStep, PTL
  DEF Spec

\* A candidate that became a checkpoint is not discarded, but for an exception
\* in its promotion and another in its shutdown.
THEOREM PromotedIsKept == Spec => []PromotedNotDiscarded
<1>1. Disposed => PromotedNotDiscarded
  BY DEF Disposed, Stored, PromotedNotDiscarded
<1>. QED BY <1>1, DisposedAlways, PTL

-----------------------------------------------------------------------------
(* The ledger's rule.                                                      *)

AllSafe(s) == \A i \in 1 .. Len(s) : s[i].safe
Acceptable(s) ==
  Len(s) >= 2 /\ AllSafe(s) /\ s[Len(s)].near /\ s[Len(s) - 1].near /\ s[Len(s)].cd

LEMMA EmptyRows == AllSafe(<<>>) /\ ~Acceptable(<<>>)
BY DEF AllSafe, Acceptable

LEMMA AppendRow ==
  ASSUME NEW s \in Seq(Row), NEW row \in Row
  PROVE  LET t == Append(s, row) IN
         /\ AllSafe(t) <=> AllSafe(s) /\ row.safe
         /\ Acceptable(t) <=> /\ s # <<>> /\ AllSafe(s) /\ row.safe /\ row.near
                              /\ Last(s).near /\ row.cd
         /\ Last(t) = row /\ t # <<>> /\ Len(t) = Len(s) + 1
         /\ \A i \in 1 .. Len(t) - 1 : t[i] = s[i]
<1> DEFINE t == Append(s, row)
<1>1. /\ Len(t) = Len(s) + 1 /\ t[Len(s) + 1] = row /\ Len(s) \in Nat /\ t # <<>>
      /\ \A k \in 1 .. Len(s) : t[k] = s[k]
  BY AppendType
<1>2. s # <<>> <=> Len(s) >= 1
  OBVIOUS
<1> HIDE DEF t
<1>3. AllSafe(t) <=> AllSafe(s) /\ row.safe
  <2>1. ASSUME AllSafe(t) PROVE AllSafe(s) /\ row.safe
    <3>1. t[Len(s) + 1].safe
      BY <1>1, <2>1 DEF AllSafe
    <3>2. \A i \in 1 .. Len(s) : t[i].safe
      BY <1>1, <2>1 DEF AllSafe
    <3>. QED BY <1>1, <3>1, <3>2 DEF AllSafe
  <2>2. ASSUME AllSafe(s), row.safe PROVE AllSafe(t)
    <3>1. \A i \in 1 .. Len(t) : i \in 1 .. Len(s) \/ i = Len(s) + 1
      BY <1>1
    <3>. QED BY <1>1, <2>2, <3>1 DEF AllSafe
  <2>. QED BY <2>1, <2>2
<1>4. s # <<>> => t[Len(t) - 1] = Last(s)
  BY <1>1, <1>2 DEF Last
<1>5. t[Len(t)] = row
  BY <1>1
<1>6. Len(t) >= 2 <=> s # <<>>
  BY <1>1, <1>2
<1>7. Acceptable(t) <=> /\ s # <<>> /\ AllSafe(s) /\ row.safe /\ row.near
                        /\ Last(s).near /\ row.cd
  BY <1>3, <1>4, <1>5, <1>6 DEF Acceptable
<1>. QED BY <1>1, <1>3, <1>5, <1>7 DEF Last, t

Deciding ==
  /\ V1 => \A i \in 1 .. Len(rows) : rows[i].safe /\ rows[i].cd
  /\ ~V1 /\ pc \in {"construct", "trial", "decide", "reject", "next"} =>
       (streak >= 1 <=> rows # <<>> /\ Last(rows).near)
  /\ pc \in {"construct", "trial", "decide"} \/ (V1 /\ pc \in {"reject", "judge"}) =>
       AllSafe(rows) /\ ~Acceptable(rows)
  /\ pc = "next" \/ (~V1 /\ pc = "reject") =>
       /\ rows # <<>> /\ ~Acceptable(rows)
       /\ \A i \in 1 .. Len(rows) - 1 : rows[i].safe
  /\ pc \in {"promote", "leave"} => Acceptable(rows)

LEMMA DecidingInit == Init => Deciding
BY DEF Init, Deciding

LEMMA DecidingStep == TypeInv /\ Verdict /\ Deciding /\ [Next]_vars => Deciding'
<1> SUFFICES ASSUME TypeInv, Verdict, Deciding, [Next]_vars PROVE Deciding'
  OBVIOUS
<1>t. rows \in Seq(Row) /\ engine.row \in Row /\ streak \in Nat
  BY DEF TypeInv, TypeOK, Engine
<1>v. V1' <=> V1
  BY VersionKept DEF V1
<1>a. LET t == Append(rows, engine.row) IN
      /\ AllSafe(t) <=> AllSafe(rows) /\ engine.row.safe
      /\ Acceptable(t) <=> /\ rows # <<>> /\ AllSafe(rows) /\ engine.row.safe /\ engine.row.near
                           /\ Last(rows).near /\ engine.row.cd
      /\ Last(t) = engine.row /\ t # <<>> /\ Len(t) = Len(rows) + 1
      /\ \A i \in 1 .. Len(t) - 1 : t[i] = rows[i]
  BY <1>t, AppendRow
<1>1. CASE BeginStep
  <2>1. pc' = "construct" /\ rows' = <<>> /\ streak' = 0
    BY <1>1 DEF BeginStep, Go
  <2>2. AllSafe(rows') /\ ~Acceptable(rows') /\ Len(rows') = 0
    BY <2>1, EmptyRows, EmptyType
  <2>. QED BY <2>1, <2>2 DEF Deciding, AllSafe, Acceptable
<1>2. CASE DecideV2
  <2> DEFINE t == Append(rows, engine.row)
  <2>1. /\ pc = "decide" /\ ~V1 /\ rows' = t /\ streak' = Streak(engine.row.near)
        /\ pc' \in {"promote", "reject", "clear"}
        /\ pc' = "promote" => SafetyPassed(engine.row) /\ streak' >= 2 /\ engine.row.cd
        /\ pc' = "reject" => ~(SafetyPassed(engine.row) /\ streak' >= 2 /\ engine.row.cd)
    BY <1>2 DEF DecideV2, At, Go
  <2>2. AllSafe(rows) /\ (streak >= 1 <=> rows # <<>> /\ Last(rows).near)
    BY <2>1 DEF Deciding
  <2>3. /\ streak' >= 1 <=> engine.row.near
        /\ streak' >= 2 <=> engine.row.near /\ streak >= 1
    BY <2>1, <1>t DEF Streak
  <2>4. Acceptable(t) <=> SafetyPassed(engine.row) /\ streak' >= 2 /\ engine.row.cd
    BY <1>a, <2>1, <2>2, <2>3 DEF SafetyPassed
  <2>5. \A i \in 1 .. Len(t) - 1 : t[i].safe
    BY <1>a, <2>2, <1>t DEF AllSafe
  <2>6. t # <<>> /\ Last(t) = engine.row
    BY <1>a
  <2> HIDE DEF t
  <2>. QED BY <2>1, <2>3, <2>4, <2>5, <2>6, <1>v DEF Deciding
<1>3. CASE Judge
  <2> DEFINE t == Append(rows, engine.row)
  <2>1. /\ pc = "judge" /\ V1 /\ pc' \in {"fail", "promote", "next"}
        /\ pc' = "fail" => rows' = rows
        /\ pc' # "fail" => rows' = t /\ SafetyPassed(engine.row)
        /\ pc' = "promote" => Converged(engine.row)
        /\ pc' = "next" => ~Converged(engine.row)
    BY <1>3 DEF Judge, At, Go, Verdict
  <2>2. CASE pc' = "fail"
    BY <2>1, <2>2, <1>v DEF Deciding
  <2>3. CASE pc' # "fail"
    <3>1. engine.row.safe /\ engine.row.cd
      BY <2>1, <2>3 DEF SafetyPassed
    <3>2. rows # <<>> => Last(rows).safe /\ Last(rows).cd
      BY <2>1, <1>t DEF Deciding, Last
    <3>3. AllSafe(rows)
      BY <2>1 DEF Deciding
    <3>4. Acceptable(t) <=> Converged(engine.row)
      BY <1>a, <3>1, <3>2, <3>3 DEF Converged, Hard, Last
    <3>5. \A i \in 1 .. Len(t) : t[i].safe /\ t[i].cd
      <4>1. \A i \in 1 .. Len(t) : i \in 1 .. Len(t) - 1 \/ i = Len(t)
        BY <1>a, <1>t
      <4>2. \A i \in 1 .. Len(t) - 1 : t[i].safe /\ t[i].cd
        BY <1>a, <1>t, <2>1 DEF Deciding
      <4>3. t[Len(t)].safe /\ t[Len(t)].cd
        BY <1>a, <3>1 DEF Last
      <4>. QED BY <4>1, <4>2, <4>3
    <3>6. t # <<>> /\ Len(t) \in Nat
      BY <1>a, <1>t
    <3> HIDE DEF t
    <3>. QED BY <2>1, <2>3, <3>4, <3>5, <3>6, <1>v DEF Deciding
  <2>. QED BY <2>2, <2>3
<1>4. CASE NextCandidate
  <2>1. /\ pc = "next" /\ pc' \in {"construct", "fail"} /\ UNCHANGED <<rows, streak>>
        /\ pc' = "construct" => Last(rows).safe
    BY <1>4 DEF NextCandidate, At, Go, ledger, SafetyPassed, Last
  <2>2. rows # <<>> /\ ~Acceptable(rows) /\ \A i \in 1 .. Len(rows) - 1 : rows[i].safe
    BY <2>1 DEF Deciding
  <2>3. pc' = "construct" => AllSafe(rows)
    <3>1. \A i \in 1 .. Len(rows) : i \in 1 .. Len(rows) - 1 \/ i = Len(rows)
      BY <1>t
    <3>. QED BY <2>1, <2>2, <3>1 DEF AllSafe, Last
  <2>. QED BY <2>1, <2>2, <2>3, <1>v DEF Deciding
<1>5. CASE Reject
  <2>1. /\ pc = "reject" /\ UNCHANGED <<rows, streak>>
        /\ V1 => pc' \in {"judge", "clear"}
        /\ ~V1 => pc' \in {"next", "fail", "raise"}
    BY <1>5 DEF Reject, At, Go, ledger
  <2>. QED BY <2>1, <1>v DEF Deciding
<1>6. CASE Construct \/ Trial \/ DecideV1 \/ TrialRaises \/ Promote
  <2>1. /\ UNCHANGED <<rows, streak>>
        /\ \/ pc = "construct" /\ pc' \in {"trial", "fail"}
           \/ pc = "trial" /\ pc' \in {"decide", "clear"}
           \/ pc = "decide" /\ V1 /\ pc' \in {"judge", "reject", "clear"}
           \/ pc = "promote" /\ pc' \in {"leave", "abort", "fail"}
    BY <1>6 DEF Construct, Trial, DecideV1, TrialRaises, Promote, At, Go, ledger
  <2>. QED BY <2>1, <1>v DEF Deciding
<1>7. CASE Clear \/ Leave \/ Abort \/ StepFails \/ Raise \/ Close
  <2>1. UNCHANGED rows /\ pc' \in {"step", "fail", "raise", "close", "over"}
    BY <1>7 DEF Clear, Leave, Accept, Abort, StepFails, Raise, Close, Go, ledger
  <2>. QED BY <2>1, <1>v DEF Deciding
<1>8. CASE UNCHANGED vars
  BY <1>8, <1>v DEF vars, ledger, Deciding
<1>. QED BY <1>1, <1>2, <1>3, <1>4, <1>5, <1>6, <1>7, <1>8 DEF Next

LEMMA DecidingAlways == Spec => []Deciding
BY TypeAlways, VerdictAlways, DecidingInit, DecidingStep, PTL DEF Spec


LEMMA LedgerInit == Init => Ledger!Init
BY DEF Init, Ledger!Init

\* A step of the program that is none of the ledger's.
LEMMA LedgerStutter ==
  ASSUME step' = step, status' = status, rows' = rows, pc # "step", pc' # "step"
  PROVE  UNCHANGED Ledger!vars
BY DEF Ledger!vars

LEMMA LedgerStep == TypeInv /\ Verdict /\ Deciding /\ [Next]_vars => [Ledger!Next]_(Ledger!vars)
<1> SUFFICES ASSUME TypeInv, Verdict, Deciding, [Next]_vars
             PROVE  Ledger!Next \/ UNCHANGED Ledger!vars
  OBVIOUS
<1>r. pc \notin {"close", "over"} => status = "running"
  BY DEF TypeInv, Room
<1>1. CASE BeginStep
  BY <1>1, <1>r DEF BeginStep, At, Go, Ledger!vars
<1>2. CASE DecideV2 \/ (Judge /\ pc' # "fail")
  <2>1. /\ pc \in {"decide", "judge"} /\ pc' # "step" /\ UNCHANGED <<step, status>>
        /\ rows' = Append(rows, engine.row) /\ (pc = "judge" => V1)
    BY <1>2 DEF DecideV2, Judge, At, Go, Verdict
  <2>2. Len(rows) < MaxIterations /\ engine.row \in Ledger!Row
    BY <2>1 DEF TypeInv, TypeOK, Room, Engine, Row, Ledger!Row
  <2>3. AllSafe(rows) /\ ~Acceptable(rows)
    BY <2>1 DEF Deciding
  <2>4. Ledger!Candidate(engine.row)
    BY <2>1, <2>2, <2>3, <1>r DEF Ledger!Candidate, Ledger!Accepted, Ledger!AcceptedAt, AllSafe, Acceptable
  <2>. QED BY <2>2, <2>4 DEF Ledger!Next
<1>3. CASE Leave /\ Accept
  <2>1. /\ pc = "leave" /\ status = "running" /\ Acceptable(rows) /\ step' = step + 1
        /\ status' = IF step = Steps THEN "passed" ELSE status
        /\ pc' = IF step = Steps THEN "close" ELSE "step"
    BY <1>3, <1>r DEF Leave, Accept, At, Go, Deciding
  <2>2. Ledger!Commit
    BY <2>1 DEF Ledger!Commit, Ledger!Accepted, Ledger!AcceptedAt, Acceptable, AllSafe
  <2>. QED BY <2>2 DEF Ledger!Next
<1>4. CASE StepFails \/ Raise
  <2>1. /\ pc \in {"fail", "raise"} /\ pc' \in {"close", "over"} /\ status = "running"
        /\ status' \in {"failed", "raised"} /\ UNCHANGED <<step, rows>>
    BY <1>4, <1>r DEF StepFails, Raise, At, Go
  <2>2. Ledger!Fail
    BY <2>1 DEF Ledger!Fail
  <2>. QED BY <2>2 DEF Ledger!Next
<1>5. CASE \/ Construct \/ Trial \/ TrialRaises \/ DecideV1 \/ Reject \/ Clear
           \/ (Judge /\ pc' = "fail") \/ NextCandidate \/ Promote \/ (Leave /\ ~Accept)
           \/ Abort \/ Close
  <2>1. UNCHANGED <<step, status, rows>> /\ pc # "step" /\ pc' # "step"
    BY <1>5 DEF Construct, Trial, TrialRaises, DecideV1, Reject, Clear, Judge, NextCandidate,
      Promote, Leave, Abort, Close, At, Go, ledger
  <2>. QED BY <2>1, LedgerStutter
<1>6. CASE UNCHANGED vars
  BY <1>6 DEF vars, ledger, Ledger!vars
<1>. QED BY <1>1, <1>2, <1>3, <1>4, <1>5, <1>6 DEF Next

\* Both programs do what the ledger promises, for any number of steps and
\* candidates: a step is committed by the first two converged candidates in a
\* row of which the second is acceptable, and nothing follows a failure.
THEOREM ProgramsImplementLedger == Spec => Implements
<1>1. Init => Ledger!Init
  BY LedgerInit
<1>2. TypeInv /\ Verdict /\ Deciding /\ [Next]_vars => [Ledger!Next]_(Ledger!vars)
  BY LedgerStep
<1>. QED BY <1>1, <1>2, TypeAlways, VerdictAlways, DecidingAlways, PTL
  DEF Spec, Implements, Ledger!Spec
\* A new candidate follows only one that could not be committed and was safe.
LEMMA LedgerFirst ==
  ASSUME TypeOK, Ledger!FirstAccepted, [Ledger!Next]_(Ledger!vars)
  PROVE  Ledger!FirstAccepted'
<1> DEFINE seq == IF pc = "step" \/ status = "passed" THEN <<>> ELSE rows
           Committable(s, n) ==
             n >= 2 /\ (\A i \in 1 .. n : s[i].safe) /\ s[n].near /\ s[n - 1].near /\ s[n].cd
           First(s) == \A n \in 1 .. Len(s) - 1 : s[n].safe /\ ~Committable(s, n)
<1>1. seq \in Seq(Ledger!Row)
  BY DEF TypeOK, Row, Ledger!Row
<1>2. (Ledger!FirstAccepted <=> First(seq)) /\ (Ledger!FirstAccepted' <=> First(seq'))
  BY DEF Ledger!FirstAccepted, Ledger!AcceptedAt
<1>3. ASSUME NEW row \in Ledger!Row, Ledger!Candidate(row)  PROVE First(seq')
  <2>1. seq' = Append(seq, row)
    BY <1>3 DEF Ledger!Candidate
  <2>2. (\A i \in 1 .. Len(seq) : seq[i].safe) /\ ~Committable(seq, Len(seq)) /\ First(seq)
    BY <1>2, <1>3 DEF Ledger!Candidate, Ledger!Accepted, Ledger!AcceptedAt
  <2>3. Len(seq') = Len(seq) + 1 /\ \A i \in 1 .. Len(seq) : seq'[i] = seq[i]
    BY <1>1, <2>1
  <2>4. ASSUME NEW n \in 1 .. Len(seq)  PROVE seq'[n].safe /\ ~Committable(seq', n)
    <3>1. seq[n].safe /\ ~Committable(seq, n)
      BY <1>1, <2>2
    <3>2. Committable(seq', n) <=> Committable(seq, n)
      BY <1>1, <2>3
    <3>3. QED BY <2>3, <3>1, <3>2
  <2>5. QED BY <1>1, <2>3, <2>4
<1>4. CASE Ledger!Commit
  <2>1. seq' = <<>>
    BY <1>4 DEF Ledger!Commit
  <2>2. First(seq')
    BY <2>1
  <2>3. QED BY <1>2, <2>2
<1>5. CASE Ledger!Fail \/ UNCHANGED Ledger!vars
  BY <1>2, <1>5 DEF Ledger!Fail, Ledger!vars
<1>6. QED BY <1>2, <1>3, <1>4, <1>5 DEF Ledger!Next

(***************************************************************************)
(* What the programs inherit of the ledger: while candidates of a step are *)
(* tried, every one before the last is safe and could not have been        *)
(* committed.  So the committed candidate is the first that may be, and    *)
(* none follows an unsafe one, in the adapter's program and in v2's.       *)
(***************************************************************************)
THEOREM FirstIsCommitted == Spec => []Ledger!FirstAccepted
<1>1. Ledger!Init => Ledger!FirstAccepted
  BY DEF Ledger!Init, Ledger!FirstAccepted
<1>2. QED BY <1>1, LedgerFirst, StrongTypeCorrect, ProgramsImplementLedger, PTL
          DEF Implements, Ledger!Spec
===============================================================================
