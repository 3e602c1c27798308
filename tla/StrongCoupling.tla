---------------------------- MODULE StrongCoupling ----------------------------
(***************************************************************************)
(* The fixed-point (strong) coupling of a physical step, in both versions: *)
(*   "v1"  OuterFixedPointCoordinator and its StrongCouplingLedger call    *)
(*         the engines through RealSidecarAdapter;                         *)
(*   "v2"  run_three_step of predictor_consistent_strong_v2 drives them    *)
(*         itself and commits the predictor instead of the corrector.      *)
(* A candidate is one engine: a fresh case root restored from the step's   *)
(* parent checkpoint, that predicts with the relaxed force, computes the   *)
(* flow, corrects, and is then either discarded or promoted.               *)
(*                                                                         *)
(* Simplifications.  The steps inside a trial are those of the scheduler's *)
(* transaction (MultiSliceScheduler, OpenFoamSlice); here a trial raises   *)
(* or delivers the verdicts of the gates, which are free.  A state of the  *)
(* structure is named by how it was computed.  The message of an exception *)
(* is blank or not.  Checkpoints are immutable and their hashes are their  *)
(* positions in the list of all that were ever committed to disk.          *)
(***************************************************************************)
EXTENDS Integers, Sequences, FiniteSets

CONSTANTS Steps,          \* bound: the physical steps of a run (three)
          MaxIterations,  \* candidates a step may take
          Versions,       \* the programs looked at, a subset of {"v1", "v2"}
          Faults          \* the calls that may raise (AllFaults below)

AllFaults ==
  {"construct",  \* making an engine
   "trial",      \* its trial
   "evidence",   \* writing gates and ledgers
   "discard",    \* giving up a trial
   "promote",    \* the checkpoint of the selected candidate
   "shutdown"}   \* stopping an engine

ASSUME BoundAssumption == Steps \in Nat \ {0} /\ MaxIterations \in Nat \ {0}
ASSUME ChoiceAssumption == Versions \subseteq {"v1", "v2"} /\ Faults \subseteq AllFaults

VARIABLES
  version,  \* which program
  step,     \* the physical step
  rows,     \* result.iterations, step_row["iterations"]: the gates passed
  streak,   \* v2: residual_consecutive_count
  prior,    \* v1: the adapter's _prior_hard_gate of the step
  parent,   \* the committed checkpoint of the step before
  store,    \* all checkpoints on disk, in the order they were committed
  engine,   \* the engine made last
  held,     \* v1: the adapter's pending candidate is that engine
  open,     \* the candidates whose engine is not closed
  pc,       \* what the program does next
  status,   \* "running", "failed", "raised" (an exception left it) or "passed"
  hit       \* the faults that have happened

ledger == <<version, step, rows, streak, prior, parent, status>>
vars   == <<ledger, store, engine, held, open, pc, hit>>

\* A candidate is its step and its number; NoCand made the first checkpoint.
NoCand == <<0, 0>>
Cand   == {NoCand} \cup (1 .. Steps) \X (1 .. MaxIterations)
Row    == [safe : BOOLEAN, near : BOOLEAN, cd : BOOLEAN]

\* base is the checkpoint whose state was advanced, 0 for any other state.
State   == [kind : {"initial", "predicted", "corrected", "none"}, cand : Cand, base : Nat]
NoState == [kind |-> "none", cand |-> NoCand, base |-> 0]
Origin  == [kind |-> "initial", cand |-> NoCand, base |-> 0]

Checkpoint == [cand : Cand, parent : Nat, force : Cand,
               json : State, native : State, motion : State]

\* The runner's files and pending, and the adapter's token.
Runner == [committed : State, prediction : State, correction : State,
           pending : {"none", "prediction", "correction"},
           token : BOOLEAN, saved : State]
Engine == [cand : Cand, trial : BOOLEAN, discarded : BOOLEAN, promoted : BOOLEAN,
           solvers : BOOLEAN, row : Row, motion : State, snapshot : State, runner : Runner]

NoRow == [safe |-> FALSE, near |-> FALSE, cd |-> FALSE]

RunnerOn(state) ==
  [committed |-> state, prediction |-> NoState, correction |-> NoState,
   pending |-> "none", token |-> FALSE, saved |-> NoState]

EngineOf(cand, state) ==
  [cand |-> cand, trial |-> FALSE, discarded |-> FALSE, promoted |-> FALSE,
   solvers |-> FALSE, row |-> NoRow, motion |-> NoState, snapshot |-> NoState,
   runner |-> RunnerOn(state)]

Init ==
  /\ version \in Versions /\ step = 1 /\ rows = <<>> /\ streak = 0 /\ prior = FALSE
  /\ parent = 1
  /\ store = <<[cand |-> NoCand, parent |-> 0, force |-> NoCand,
                json |-> Origin, native |-> Origin, motion |-> Origin]>>
  /\ engine = EngineOf(NoCand, Origin) /\ held = FALSE /\ open = {}
  /\ pc = "step" /\ status = "running" /\ hit = {}

V1 == version = "v1"
At(here)    == pc = here
Go(there)   == pc' = there
Quiet       == UNCHANGED hit
Fault(kind) == kind \in Faults /\ hit' = hit \cup {kind}
-----------------------------------------------------------------------------
(* The structure: VariableStepRunner, a LowReStage4FRunner that computes   *)
(* each state in a MATLAB process of its own, and ProductionANCFAdapter.   *)

Advance(state, kind, cand) ==
  [kind |-> kind, cand |-> cand,
   base |-> IF state = store[parent].json THEN parent ELSE 0]

Active(r) == CASE r.pending = "correction" -> r.correction
               [] r.pending = "prediction" -> r.prediction
               [] OTHER -> r.committed

Predict(r, cand) ==
  [r EXCEPT !.prediction = Advance(r.committed, "predicted", cand), !.pending = "prediction"]

\* Mutant: the corrector goes on from the predictor.
CorrectPredicted(r, cand) ==
  [r EXCEPT !.saved = Active(r), !.token = TRUE, !.pending = "correction",
            !.correction = Advance(Active(r), "corrected", cand)]

\* Mutant: the predictor is not what is saved.
SaveCommitted(r, cand) ==
  [r EXCEPT !.saved = r.committed, !.token = TRUE, !.pending = "correction",
            !.correction = Advance(r.committed, "corrected", cand)]

\* correct_all saves the runner's active state, then corrects from the
\* committed one.
Correct(r, cand) ==
  [r EXCEPT !.saved = Active(r), !.token = TRUE, !.pending = "correction",
            !.correction = Advance(r.committed, "corrected", cand)]

\* discard_staged: the adapter loads what it saved, the runner drops the rest.
DiscardStaged(r) ==
  [r EXCEPT !.committed = IF r.token THEN r.saved ELSE @, !.token = FALSE,
            !.prediction = NoState, !.correction = NoState, !.pending = "none"]
-----------------------------------------------------------------------------
(* One candidate.                                                          *)

BeginStep ==
  /\ At("step") /\ Go("construct")
  /\ rows' = <<>> /\ streak' = 0 /\ prior' = FALSE
  /\ UNCHANGED <<version, step, parent, status, store, engine, held, open>> /\ Quiet

\* The adapter makes no engine while it holds one.
Construct ==
  /\ At("construct")
  /\ \/ /\ Quiet
        /\ IF held THEN Go("fail") /\ UNCHANGED <<engine, open>> ELSE
             LET cand == <<step, Len(rows) + 1>> IN
             /\ engine' = EngineOf(cand, store[parent].json)
             /\ open' = open \cup {cand} /\ Go("trial")
     \/ Fault("construct") /\ Go("fail") /\ UNCHANGED <<engine, open>>
  /\ UNCHANGED <<ledger, store, held>>

\* What the trial has published and frozen once the predictor is known.
Predicted(e) ==
  LET r == Predict(e.runner, e.cand) IN
  [e EXCEPT !.runner = r, !.motion = r.prediction,
            !.snapshot = IF V1 THEN @ ELSE Active(r)]

Corrected(e) == [e EXCEPT !.runner = Correct(e.runner, e.cand)]

Tried(e) == [Corrected(Predicted(e)) EXCEPT !.trial = TRUE]

Trial ==
  /\ At("trial") /\ Go("decide") /\ Quiet
  /\ \E row \in Row :
       engine' = [Tried(engine) EXCEPT !.row = row]
  /\ UNCHANGED <<ledger, store, held, open>>

\* _trial_failure: let the solvers finish, which may raise and leave some at
\* work, and discard.
TrialFailure(e, busy) ==
  [e EXCEPT !.solvers = busy, !.discarded = TRUE, !.runner = DiscardStaged(e.runner)]

TrialRaises ==
  /\ At("trial") /\ Fault("trial") /\ Go("clear")
  /\ \/ \E e \in {engine, Predicted(engine), Corrected(Predicted(engine)), Tried(engine)},
           busy \in BOOLEAN : engine' = TrialFailure(e, busy)
     \* v2 rewrites the evidence once v1's trial is through.
     \/ ~V1 /\ engine' = Tried(engine)
  /\ UNCHANGED <<ledger, store, held, open>>
-----------------------------------------------------------------------------
(* What becomes of it.                                                     *)

Hard(row) == row.safe /\ row.near /\ row.cd

\* v1: all gates but the residual stop a candidate, Cd among them; v2: a large
\* Cd only bars it from being committed.
SafetyPassed(row) == row.safe /\ (V1 => row.cd)

\* Mutant: any candidate but the first has a predecessor that passed.
SelectedUnchecked == Hard(engine.row) /\ rows # <<>>

\* The adapter's own copy of the ledger's condition.
Selected == Hard(engine.row) /\ prior

DecideV1 ==
  /\ At("decide") /\ V1 /\ prior' = Hard(engine.row)
  /\ \/ /\ Selected /\ held' = TRUE /\ Go("judge") /\ Quiet
     \/ /\ ~Selected /\ UNCHANGED held /\ Go("reject") /\ Quiet
     \* Writing the gates or, with the candidate held already, the ledger.
     \/ /\ Fault("evidence") /\ held' \in {FALSE, Selected} /\ Go("clear")
  /\ UNCHANGED <<version, step, rows, streak, parent, status, store, engine, open>>

\* Mutant: a candidate that misses does not end the row.
StreakOfAll(near) == IF near THEN streak + 1 ELSE streak

Streak(near) == IF near THEN streak + 1 ELSE 0

DecideV2 ==
  LET row == engine.row IN
  /\ At("decide") /\ ~V1
  /\ streak' = Streak(row.near) /\ rows' = Append(rows, row)
  /\ \/ /\ SafetyPassed(row) /\ streak' >= 2 /\ row.cd /\ Go("promote") /\ Quiet
     \/ /\ ~(SafetyPassed(row) /\ streak' >= 2 /\ row.cd) /\ Go("reject") /\ Quiet
     \/ /\ Fault("evidence") /\ Go("clear")
  /\ UNCHANGED <<version, step, prior, parent, status, store, engine, held, open>>

\* Mutant: a promoted candidate is discarded too.
MayDiscardAny == engine.trial

\* discard_trial refuses a promoted candidate and leaves a discarded one alone.
MayDiscard == engine.trial /\ ~engine.promoted

Discard(e) == [e EXCEPT !.runner = DiscardStaged(e.runner), !.discarded = TRUE]

\* It may raise in dropping the staged state, which it does even if waiting for
\* the solvers raised, or in writing the evidence.
HalfDiscarded == {engine, [Discard(engine) EXCEPT !.discarded = FALSE], Discard(engine)}
DiscardRaises == Fault("discard") /\ MayDiscard /\ ~engine.discarded

\* shutdown: stop the solvers, then the runner; closed is set last.
ShutDown(e) == [e EXCEPT !.solvers = FALSE,
                         !.runner.prediction = NoState, !.runner.correction = NoState,
                         !.runner.pending = "none"]
Closes(e) == engine' = ShutDown(e) /\ open' = open \ {engine.cand}

\* A shutdown that raises has stopped everything or not; a closed engine's
\* does nothing.
ShutdownRaises(e) ==
  /\ Fault("shutdown") /\ engine.cand \in open
  /\ engine' \in {e, ShutDown(e)} /\ UNCHANGED open

\* Mutant: what disposing of a candidate raises is dropped.
RejectSilently ==
  /\ At("reject") /\ Go(IF V1 THEN "judge" ELSE "next")
  /\ \/ Quiet /\ Closes(Discard(engine))
     \/ ShutdownRaises(Discard(engine))
  /\ UNCHANGED <<ledger, store, held>>

\* A candidate that is not promoted: discarded, then shut down, whatever the
\* discarding does.  v1's handler of exceptions comes after.
Reject ==
  /\ At("reject")
  /\ \/ /\ Quiet /\ Closes(Discard(engine))
        /\ Go(IF V1 THEN "judge" ELSE "next")
     \/ /\ V1 /\ Fault("evidence") /\ Closes(Discard(engine)) /\ Go("clear")
     \/ /\ DiscardRaises /\ \E e \in HalfDiscarded : Closes(e)
        /\ Go(IF V1 THEN "clear" ELSE "fail")
     \/ ShutdownRaises(Discard(engine)) /\ Go(IF V1 THEN "clear" ELSE "raise")
  /\ UNCHANGED <<ledger, store, held>>

\* Mutant: the handler leaves the engine to the caller.
ClearNothing ==
  /\ At("clear") /\ Quiet /\ Go("fail")
  /\ UNCHANGED <<ledger, store, engine, open, held>>

\* After an exception.  v1 discards the trial if there is one; v2 only shuts
\* the engine down.
Clear ==
  LET cleared == IF V1 /\ engine.trial THEN Discard(engine) ELSE engine IN
  /\ At("clear")
  /\ \/ Quiet /\ Closes(cleared) /\ held' = FALSE /\ Go("fail")
     \/ /\ V1 /\ DiscardRaises /\ \E e \in HalfDiscarded : Closes(e)
        /\ held' = FALSE /\ Go("fail")
     \/ /\ ShutdownRaises(cleared) /\ UNCHANGED held
        /\ Go(IF V1 THEN "fail" ELSE "raise")
  /\ UNCHANGED <<ledger, store>>

\* StrongCouplingLedger.record_iteration.
Converged(row) == Hard(row) /\ rows # <<>> /\ Hard(rows[Len(rows)])

\* Mutant: only candidates that pass are iterations.
JudgePassing ==
  /\ At("judge") /\ Quiet
  /\ Go(IF Converged(engine.row) THEN "promote" ELSE "construct")
  /\ rows' = IF Hard(engine.row) THEN Append(rows, engine.row) ELSE rows
  /\ UNCHANGED <<version, step, streak, prior, parent, status, store, engine, held, open>>

\* v1: the coordinator judges when the adapter has decided.
Judge ==
  LET row == engine.row IN
  /\ At("judge") /\ Quiet
  /\ \/ ~SafetyPassed(row) /\ Go("fail") /\ UNCHANGED rows
     \/ /\ SafetyPassed(row) /\ rows' = Append(rows, row)
        /\ Go(IF Converged(row) THEN "promote" ELSE "next")
  /\ UNCHANGED <<version, step, streak, prior, parent, status, store, engine, held, open>>

\* Mutant: the limit is looked at too late.
LateLimit == Len(rows) <= MaxIterations

Remaining == Len(rows) < MaxIterations

\* The next candidate with the force relaxed, if there may be one.  v2 leaves
\* its loop here for an unsafe candidate.
NextCandidate ==
  /\ At("next") /\ Quiet
  /\ Go(IF SafetyPassed(rows[Len(rows)]) /\ Remaining THEN "construct" ELSE "fail")
  /\ UNCHANGED <<ledger, store, engine, held, open>>
-----------------------------------------------------------------------------
(* The selected candidate.                                                 *)

\* _restore_predictor_for_promotion.
Restored == DiscardStaged(engine.runner)

Promotable ==
  /\ engine.trial /\ ~engine.discarded /\ ~engine.promoted
  /\ V1 => held
  /\ ~V1 => Active(Restored) = engine.snapshot

\* What the checkpoint holds: the staged correction and the runner's active
\* state; in v2 the frozen predictor.
Written ==
  [cand |-> engine.cand, parent |-> parent, force |-> engine.cand,
   json   |-> IF V1 THEN engine.runner.correction ELSE engine.snapshot,
   native |-> IF V1 THEN Active(engine.runner) ELSE engine.snapshot,
   motion |-> engine.motion]

Ready(e) == IF V1 THEN e ELSE [e EXCEPT !.runner = Restored]

Finalized(e) ==
  IF V1 THEN [e EXCEPT !.runner = RunnerOn(Active(e.runner)), !.runner.saved = e.runner.saved]
        ELSE Ready(e)

\* Everything up to the checkpoint's rename may raise, and what follows too.
Promote ==
  /\ At("promote")
  /\ \/ /\ Quiet
        /\ IF Promotable
             THEN /\ store' = Append(store, Written) /\ Go("leave")
                  /\ engine' = [Finalized(engine) EXCEPT !.promoted = TRUE]
             ELSE /\ Go(IF V1 /\ ~held THEN "fail" ELSE "abort")
                  /\ UNCHANGED <<store, engine>>
     \/ /\ Promotable /\ Fault("promote") /\ Go("abort")
        /\ \/ engine' = Ready(engine) /\ UNCHANGED store
           \/ engine' = Ready(engine) /\ store' = Append(store, Written)
           \/ /\ engine' = [Finalized(engine) EXCEPT !.promoted = TRUE]
              /\ store' = Append(store, Written)
  /\ UNCHANGED <<ledger, held, open>>

\* Mutant: the parent is not replaced.
AcceptOnly ==
  /\ parent' = parent /\ step' = step + 1
  /\ status' = IF step = Steps THEN "passed" ELSE status
  /\ Go(IF step = Steps THEN "close" ELSE "step")

\* The parent is replaced once the engine is shut down and, in v1, the receipt
\* is validated and the ledger has committed.
Accept ==
  /\ parent' = Len(store) /\ step' = step + 1
  /\ status' = IF step = Steps THEN "passed" ELSE status
  /\ Go(IF step = Steps THEN "close" ELSE "step")

Leave ==
  /\ At("leave")
  /\ \/ Quiet /\ Accept /\ Closes(engine) /\ held' = FALSE
     \/ /\ V1 /\ Fault("evidence") /\ Closes(engine) /\ held' = FALSE /\ Go("fail")
        /\ UNCHANGED <<parent, step, status>>
     \/ /\ ShutdownRaises(engine) /\ Go(IF V1 THEN "fail" ELSE "raise")
        /\ UNCHANGED <<parent, step, status, held>>
  /\ UNCHANGED <<version, rows, streak, prior, store>>

Abort ==
  /\ At("abort")
  /\ \/ Quiet /\ Closes(engine) /\ held' = FALSE /\ Go("fail")
     \/ V1 /\ Fault("evidence") /\ Closes(engine) /\ held' = FALSE /\ Go("fail")
     \/ ShutdownRaises(engine) /\ UNCHANGED held /\ Go(IF V1 THEN "fail" ELSE "raise")
  /\ UNCHANGED <<ledger, store>>
-----------------------------------------------------------------------------
(* The end.                                                                *)

\* v1: ledger.fail refuses a blank reason and its ValueError leaves the
\* coordinator before it blocks.
StepFails ==
  /\ At("fail") /\ Quiet /\ Go("close")
  /\ status' \in (IF V1 /\ hit # {} THEN {"failed", "raised"} ELSE {"failed"})
  /\ UNCHANGED <<version, step, rows, streak, prior, parent, store, engine, held, open>>

\* v2: an exception of shutdown leaves run_three_step.
Raise ==
  /\ At("raise") /\ Quiet /\ Go("over") /\ status' = "raised"
  /\ UNCHANGED <<version, step, rows, streak, prior, parent, store, engine, held, open>>

\* v1: RealSidecarAdapter.close disposes of a candidate still held.  Its
\* exceptions are recorded, not raised.
Close ==
  LET given == IF MayDiscard THEN Discard(engine) ELSE engine IN
  /\ At("close") /\ Go("over")
  /\ \/ ~held /\ Quiet /\ UNCHANGED <<engine, open, held>>
     \/ held /\ Quiet /\ Closes(given) /\ held' = FALSE
     \/ held /\ DiscardRaises /\ (\E e \in HalfDiscarded : Closes(e)) /\ held' = FALSE
     \/ held /\ ShutdownRaises(given) /\ UNCHANGED held
  /\ UNCHANGED <<ledger, store>>

Next ==
  \/ BeginStep \/ Construct \/ Trial \/ TrialRaises \/ DecideV1 \/ DecideV2
  \/ Reject \/ Clear \/ Judge \/ NextCandidate
  \/ Promote \/ Leave \/ Abort \/ StepFails \/ Raise \/ Close

\* The program is one thread and each of its waits has a timeout.
Spec == Init /\ [][Next]_vars /\ WF_vars(Next)
-----------------------------------------------------------------------------
(* Properties.                                                             *)

\* Each variable has its type.
TypeOK ==
  /\ version \in Versions /\ step \in 1 .. Steps + 1
  /\ rows \in Seq(Row) /\ Len(rows) <= MaxIterations
  /\ streak \in 0 .. MaxIterations /\ prior \in BOOLEAN
  /\ store \in Seq(Checkpoint) /\ parent \in 1 .. Len(store)
  /\ engine \in Engine /\ held \in BOOLEAN /\ open \subseteq Cand
  /\ pc \in {"step", "construct", "trial", "decide", "reject", "clear", "judge", "next",
             "promote", "leave", "abort", "fail", "raise", "close", "over"}
  /\ status \in {"running", "failed", "raised", "passed"} /\ hit \subseteq Faults

\* The adapter holds a candidate exactly when the coordinator's next operation
\* promotes it, though each computes that condition for itself, the adapter
\* from its own memory of the candidate before (real_runner.py 70-76, 152-154;
\* contract.py 157-159).
HeldIsPromoted ==
  /\ pc \in {"step", "construct", "trial"} => ~held
  /\ V1 /\ pc = "judge" => (held <=> Converged(engine.row))
  /\ V1 /\ pc = "promote" => held /\ engine.cand = <<step, Len(rows)>>

\* A checkpoint of the coupling is of one candidate: its state was advanced
\* from the state of the checkpoint it names as its parent, JSON and native
\* state agree, and in v2 that state is the very one that moved the CFD meshes
\* (iteration_engine.py of v2, 45-67, 105-176).
Coherent ==
  \A k \in 2 .. Len(store) : LET c == store[k] IN
    /\ c.json = c.native /\ c.json.cand = c.cand /\ c.json.base = c.parent
    /\ c.motion = [kind |-> "predicted", cand |-> c.cand, base |-> c.parent]
    /\ c.json = c.motion <=> ~V1

\* v2 never has to refuse a selected candidate because the runner, rolled back
\* after its corrector, is not in the state that was frozen before the CFD ran:
\* the adapter's rollback leads to the predictor (ancf_adapter.py 103-119;
\* iteration_engine.py of v2, 157-166).
RestoresPredictor == ~V1 /\ pc = "promote" => Promotable

\* At most one engine is alive, whatever disposing of one came to
\* (real_runner.py 71).
OneEngine == Cardinality(open) <= 1 /\ (pc = "construct" => open = {})

\* The checkpoints on disk are a chain, one per step and each the child of the
\* one before.  Only the last may be an orphan, one that the program has not
\* made the parent of its next step, and then no further step is begun
\* (coordinator.py 271-285; real_runner.py of v2, 151-168).
OnlyLastOrphan ==
  /\ \A k \in 2 .. Len(store) : store[k].parent = k - 1 /\ store[k].cand[1] = k - 1
  /\ Len(store) \in {parent, parent + 1}
  /\ Len(store) = parent + 1 => pc \in {"leave", "abort", "fail", "raise", "close", "over"}
  /\ status = "passed" => Len(store) = Steps + 1 /\ parent = Len(store)

\* When the program ends and no shutdown raised, every engine is closed, no
\* solver is at work and nothing is held: each way out of a candidate by an
\* Exception, through nested handlers that may raise themselves, shuts its engine
\* down.  (No handler catches a KeyboardInterrupt, which is not modelled.)
CleanEnd ==
  pc = "over" /\ "shutdown" \notin hit => open = {} /\ ~engine.solvers /\ ~held

\* A candidate whose checkpoint is on disk is not recorded as discarded, though
\* the adapter's close disposes of what a failed promotion left held; the one
\* way to it needs two exceptions, one between the checkpoint's rename and the
\* engine's note of it, one in the shutdown (iteration_engine.py 370-428;
\* real_runner.py 174-200).
PromotedNotDiscarded ==
  \A k \in 1 .. Len(store) :
    store[k].cand = engine.cand /\ engine.discarded => {"promote", "shutdown"} \subseteq hit

\* The program ends, within its iterations and steps.
Ends == <>(pc = "over")

\* Both programs do what the ledger promises.  A commit of the ledger is the
\* moment the new parent is accepted; the exception that leaves a program is a
\* failure.
Ledger == INSTANCE FixedPoint WITH
  rows   <- IF pc = "step" \/ status = "passed" THEN <<>> ELSE rows,
  status <- IF status = "raised" THEN "failed" ELSE status

Implements == Ledger!Spec
===============================================================================
