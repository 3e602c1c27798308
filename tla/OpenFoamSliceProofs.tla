------------------------- MODULE OpenFoamSliceProofs -------------------------
(***************************************************************************)
(* Proofs about OpenFoamSlice: types, the freshness of acknowledgements    *)
(* and loads, restarts, and that the files and processes implement         *)
(* MotionExchange, for every number of slices, steps, runs and permits,    *)
(* every engine and every set of faults.                                   *)
(*                                                                         *)
(* The invariant is one predicate per slice.  It says where the solver can *)
(* be relative to the motion published last (not yet read, acknowledged    *)
(* and waiting for the next, computing, through), and which of these the   *)
(* stage of the driver's call allows.  A call that has raised leaves the   *)
(* solver where it was, so the four places do not mention the stage.       *)
(***************************************************************************)
EXTENDS OpenFoamSlice, FiniteSetTheorems, TLAPS

Now(s) == ready[s].step
Num(s) == ready[s].number
NoAcksFrom(s, k) == \A j \in Steps : j >= k => acks[s][j] = 0
Stopped == {"hung", "failed", "killed"}

\* Nothing beyond the clock is on disk, or exactly this step's row and fields.
Unsolved(s) == dirs[s] \subseteq 0 .. clock /\ \A r \in forces[s] : r.time <= clock

Answering(s) == [start |-> solver[s].start, time |-> clock + 1,
                 seed |-> solver[s].seed, motion |-> Num(s)]

Solved(s) ==
  /\ clock + 1 \in dirs[s] /\ dirs[s] \subseteq 0 .. clock + 1
  /\ Answering(s) \in forces[s]
  /\ \A r \in forces[s] : r.time <= clock \/ r = Answering(s)

Seeded(s) == solver[s].seed = IF ~OneShot THEN 1
                              ELSE IF Now(s) = clock THEN Num(s) ELSE Num(s) - 1

Acked(s) == /\ acks[s][Now(s)] = Num(s) /\ NoAcksFrom(s, Now(s) + 1)
            /\ solver[s].motion = Num(s) /\ Seeded(s)

\* A solver of this run, not beyond its end.
Engaged(s) ==
  /\ Now(s) \in {clock, clock + 1} /\ Num(s) > 0
  /\ solver[s].start <= clock /\ solver[s].start < solver[s].end
  /\ solver[s].at <= solver[s].end /\ solver[s].end <= MaxSteps
  /\ IF OneShot THEN solver[s].start = clock /\ solver[s].end = clock + 1
     ELSE solver[s].end = MaxSteps

\* The motion is published and not acknowledged,
Unread(s) ==
  /\ Engaged(s) /\ csv[s] = ready[s]
  /\ solver[s].at = Now(s) /\ NoAcksFrom(s, Now(s)) /\ Unsolved(s)
  /\ solver[s].state \in {"waiting", "matched", "read"} \cup Stopped
  /\ solver[s].state = "read" => solver[s].motion = Num(s)
  /\ IF Now(s) = clock
     THEN /\ solver[s].start = clock /\ (~OneShot => Num(s) = 1)
          /\ solver[s].state = "read" => solver[s].seed = Num(s)
     ELSE Seeded(s)

\* the solver waits for the next one,
Waiting(s) ==
  /\ Engaged(s) /\ Acked(s) /\ solver[s].at = Now(s) + 1
  /\ solver[s].state \in {"waiting"} \cup Stopped
  /\ IF Now(s) = clock THEN Unsolved(s) ELSE Solved(s)

\* it computes the step,
Solving(s) ==
  /\ Engaged(s) /\ Acked(s) /\ solver[s].at = Now(s) /\ Now(s) = clock + 1 /\ Unsolved(s)
  /\ solver[s].state \in {"solving"} \cup Stopped

\* it is through with its last step.
Closed(s) ==
  /\ Engaged(s) /\ Acked(s) /\ solver[s].at = Now(s) /\ Now(s) = solver[s].end
  /\ solver[s].state \in {"closing", "ended"} \cup Stopped
  /\ IF Now(s) = clock THEN Unsolved(s) ELSE Solved(s)

\* There is no solver yet for this step.
Dormant(s) ==
  /\ solver[s].state \in {"none", "ended"} /\ Unsolved(s) /\ NoAcksFrom(s, clock + 1)
  /\ Now(s) \in {-1, clock}
  /\ ~OneShot => /\ solver[s].state = "none"
                 /\ Num(s) = IF stage[s] \in {"armed", "raised"} THEN 1 ELSE 0

Computing(s) == Waiting(s) \/ Solving(s) \/ Closed(s)

\* What each stage of the driver's call knows.
BeforeLaunch(s) ==
  /\ stage[s] = "begun" => \/ Dormant(s)
                           \/ ~OneShot /\ Now(s) = clock /\ (Waiting(s) \/ Closed(s))
  /\ stage[s] = "written" => /\ Dormant(s) /\ NoAcksFrom(s, clock)
                             /\ csv[s] = [step |-> clock, number |-> Num(s) + 1]
  /\ stage[s] = "armed" => Dormant(s) /\ NoAcksFrom(s, clock) /\ Now(s) = clock

AfterLaunch(s) ==
  /\ stage[s] = "launched" => /\ Now(s) = clock /\ solver[s].start = clock
                              /\ Unread(s) \/ Waiting(s)
  /\ stage[s] = "seeded" => Now(s) = clock /\ solver[s].start = clock /\ Waiting(s)
  /\ stage[s] \in {"launched", "seeded"} /\ ~OneShot => Num(s) = 1
  /\ stage[s] = "aimed" => /\ Now(s) = clock /\ Waiting(s)
                           /\ csv[s] = [step |-> clock + 1, number |-> Num(s) + 1]
  /\ stage[s] = "published" => Now(s) = clock + 1 /\ (Unread(s) \/ Computing(s))
  /\ stage[s] = "consumed" => Now(s) = clock + 1 /\ Computing(s)

AfterLoad(s) ==
  /\ stage[s] \in {"loaded", "finished"} =>
       Now(s) = clock + 1 /\ (Waiting(s) \/ Closed(s)) /\ load[s] = Answering(s)
  /\ stage[s] = "finished" /\ OneShot => solver[s].state = "ended"
  /\ stage[s] = "raised" => blamed /\ (Dormant(s) \/ Unread(s) \/ Computing(s))

Published(s) ==
  /\ ready[s] = bridge[s] /\ clock \in dirs[s]
  /\ IF Now(s) = -1 THEN Num(s) = 0 ELSE Num(s) > 0
  /\ stage[s] \notin {"written", "aimed"} => csv[s] = ready[s]

\* A solver that is not what it should be is somebody's fault.
Accounted(s) ==
  /\ solver[s].state = "failed" => blamed
  /\ solver[s].state = "killed" => main # "running" /\ (blamed \/ phase = "idle")
  /\ mode # "pooled" /\ main # "running" => ~Living(s)

FilesInv(s) == Published(s) /\ Accounted(s)

SliceInv(s) == BeforeLaunch(s) /\ AfterLaunch(s) /\ AfterLoad(s) /\ FilesInv(s)

\* The stages of a phase, and what all slices have before the next one.
Within(p) ==
  CASE p = "publish" -> {"begun", "written", "armed", "launched", "seeded", "aimed", "published",
                         "raised"}
    [] p = "consume" -> {"published", "consumed", "raised"}
    [] p = "load"    -> {"consumed", "loaded", "raised"}
    [] p = "finish"  -> {"loaded", "finished", "raised"}
    [] OTHER         -> {"begun"}

PhaseOf(s) ==
  /\ stage[s] \in Within(phase)
  /\ phase \in {"consume", "load", "finish"} => Now(s) = clock + 1
  /\ IF phase = "finish" \/ stage[s] = "loaded" THEN load[s].time = clock + 1
     ELSE load[s].time <= clock
  /\ phase = "finish" => clock + 1 \in dirs[s]

PhaseInv ==
  /\ committed = IF phase = "finish" THEN clock + 1 ELSE clock
  /\ phase # "idle" => clock < MaxSteps
  /\ \A s \in Slices : PhaseOf(s)

IInv == TypeOK /\ PhaseInv /\ \A s \in Slices : SliceInv(s)
-----------------------------------------------------------------------------
LEMMA StepNumbers ==
  /\ MaxSteps \in Nat /\ MaxSteps > 0 /\ 0 \in Steps /\ Steps \subseteq Int
  /\ \A k \in Steps : k \in Nat /\ k <= MaxSteps
  /\ \A k \in Steps : k < MaxSteps => k + 1 \in Steps
  /\ MaxSteps \in Steps
  BY BoundAssumption DEF Steps

LEMMA StepOrder ==
  ASSUME NEW k \in Int
  PROVE  /\ \A j \in Steps : j >= k => j = k \/ j >= k + 1
         /\ \A j \in Steps : j >= k + 1 => j >= k /\ j # k
  BY BoundAssumption DEF Steps

LEMMA FreshTypes ==
  NoMotion \in Motions /\ NoRow \in Rows /\ NoSolver \in Solvers
  BY StepNumbers DEF NoMotion, NoRow, NoSolver, Motions, Rows, Solvers, Alive

\* The parts of a slice.
LEMMA SliceTypes ==
  ASSUME TypeOK, NEW s \in Slices
  PROVE  /\ stage[s] \in Stages /\ clock \in Steps /\ committed \in Steps
         /\ bridge[s] \in Motions /\ csv[s] \in Motions /\ ready[s] \in Motions
         /\ load[s] \in Rows /\ acks[s] \in [Steps -> Nat]
         /\ forces[s] \subseteq Rows /\ dirs[s] \subseteq Steps /\ solver[s] \in Solvers
         /\ ready[s].step \in Steps \cup {-1} /\ ready[s].number \in Nat
         /\ csv[s].step \in Steps \cup {-1} /\ csv[s].number \in Nat
         /\ bridge[s].step \in Steps \cup {-1} /\ bridge[s].number \in Nat
         /\ solver[s].start \in Steps /\ solver[s].end \in Steps /\ solver[s].at \in Steps
         /\ solver[s].seed \in Nat /\ solver[s].motion \in Nat
  BY DEF TypeOK, Motions, Solvers

\* A solver whose state or place changes.
LEMMA SolverRecord ==
  ASSUME NEW r \in Solvers
  PROVE  /\ \A st \in Alive \cup {"ended", "failed", "killed"} : [r EXCEPT !.state = st] \in Solvers
         /\ \A n, m \in Nat : [r EXCEPT !.state = "read", !.motion = n, !.seed = m] \in Solvers
         /\ Onward(r) \in Solvers
<1>1. \A st \in Alive \cup {"ended", "failed", "killed"} : [r EXCEPT !.state = st] \in Solvers
  BY DEF Solvers
<1>2. \A n, m \in Nat : [r EXCEPT !.state = "read", !.motion = n, !.seed = m] \in Solvers
  BY DEF Solvers, Alive
<1>3. Onward(r) \in Solvers
  <2>1. r.at \in Steps /\ r.end \in Steps
    BY DEF Solvers
  <2>2. r.at < r.end => r.at + 1 \in Steps
    BY <2>1, BoundAssumption DEF Steps
  <2>3. CASE r.at < r.end
    BY <2>2, <2>3 DEF Onward, Solvers, Alive
  <2>4. CASE ~(r.at < r.end)
    BY <2>4 DEF Onward, Solvers, Alive
  <2>5. QED BY <2>3, <2>4
<1>4. QED BY <1>1, <1>2, <1>3

\* The latest time directory.
LEMMA Latest ==
  ASSUME TypeOK, NEW s \in Slices, clock \in dirs[s], dirs[s] \subseteq 0 .. clock
  PROVE  StartTime(s) = clock
<1>1. clock \in Int
  BY SliceTypes, StepNumbers
<1>2. \E d \in dirs[s] : \A e \in dirs[s] : e <= d
  BY <1>1
<1>3. LatestTime(s) \in dirs[s] /\ \A e \in dirs[s] : e <= LatestTime(s)
  BY <1>2 DEF LatestTime
<1>4. LatestTime(s) = clock
  BY <1>1, <1>3
<1>5. QED BY <1>4 DEF StartTime

LEMMA CallTypes ==
  ASSUME IInv, NEW s \in Slices, Call(s) \/ TimesOut(s)  PROVE TypeOK'
<1> USE StepNumbers, SliceTypes DEF RestOfDriver, case
<1>0. TypeOK /\ (phase # "idle" => clock + 1 \in Steps)
  BY DEF IInv, PhaseInv
<1>1. ASSUME NEW to \in Stages, To(s, to)  PROVE stage' \in [Slices -> Stages]
  BY <1>0, <1>1 DEF To, TypeOK
<1>2. ASSUME NEW step \in Steps, WriteCsv(s, step)  PROVE csv' \in [Slices -> Motions]
  BY <1>0, <1>2 DEF WriteCsv, TypeOK, Motions
<1>3. ASSUME RemoveOldAck(s)  PROVE acks' \in [Slices -> [Steps -> Nat]]
  BY <1>0, <1>3 DEF RemoveOldAck, TypeOK
<1>4. CASE SeedCsv(s)
  BY <1>0, <1>1, <1>2, <1>3, <1>4 DEF SeedCsv, TypeOK, Stages
<1>5. CASE SeedReady(s) \/ TargetReady(s)
  BY <1>0, <1>1, <1>5 DEF SeedReady, TargetReady, Announce, TypeOK, Stages
<1>6. CASE Launch(s)
  <2>1. stage[s] = "armed" /\ phase = "publish"
    BY <1>6 DEF Launch, At, Calling
  <2>2. StartTime(s) = clock
    BY <1>0, <2>1, Latest DEF IInv, SliceInv, BeforeLaunch, FilesInv, Published, Dormant, Unsolved
  <2>3. solver' \in [Slices -> Solvers]
    BY <1>0, <1>6, <2>1, <2>2 DEF Launch, TypeOK, Solvers, Alive
  <2>4. QED BY <1>0, <1>1, <1>6, <2>3 DEF Launch, TypeOK, Stages
<1>7. CASE SeedConsumed(s) \/ TargetConsumed(s)
  BY <1>0, <1>1, <1>7 DEF SeedConsumed, TargetConsumed, Acknowledges, Moves, TypeOK, Stages
<1>8. CASE TargetCsv(s)
  <2>1. phase = "publish"
    BY <1>8 DEF TargetCsv, Calling
  <2>2. QED BY <1>0, <1>1, <1>2, <1>8, <2>1 DEF TargetCsv, TypeOK, Stages
<1>9. CASE TakeLoad(s)
  <2>1. load' \in [Slices -> Rows]
    BY <1>0, <1>9 DEF TakeLoad, RowsAtTarget, TypeOK
  <2>2. QED BY <1>0, <1>1, <1>9, <2>1 DEF TakeLoad, TypeOK, Stages
<1>10. CASE Finish(s)
  BY <1>0, <1>1, <1>10 DEF Finish, Moves, TypeOK, Stages
<1>11. CASE SeesExit(s) \/ TimesOut(s)
  BY <1>0, <1>1, <1>11 DEF SeesExit, TimesOut, Raises, TypeOK, Stages
<1>12. QED BY <1>4, <1>5, <1>6, <1>7, <1>8, <1>9, <1>10, <1>11 DEF Call

LEMMA MainTypes ==
  ASSUME IInv, Main \/ Rerun  PROVE TypeOK'
<1> USE StepNumbers DEF case
<1>0. TypeOK /\ (phase # "idle" => clock + 1 \in Steps)
  BY DEF IInv, PhaseInv, TypeOK
<1>1. CASE Begin
  BY <1>0, <1>1 DEF Begin, TypeOK, Phases
<1>2. CASE NextCall
  BY <1>0, <1>2 DEF NextCall, TypeOK, Phases
<1>3. CASE Commit
  BY <1>0, <1>3 DEF Commit, TypeOK, Phases
<1>4. CASE EndStep
  BY <1>0, <1>4 DEF EndStep, TypeOK, Phases, Stages
<1>5. CASE Stop
  <2>1. solver' \in [Slices -> Solvers]
    BY <1>0, <1>5 DEF Stop, KillAll, TypeOK, Solvers
  <2>2. QED BY <1>0, <1>5, <2>1 DEF Stop, TypeOK
<1>6. CASE Close
  BY <1>0, <1>6 DEF Close, TypeOK
<1>7. CASE Rerun
  <2>1. /\ csv' \in [Slices -> Motions] /\ ready' \in [Slices -> Motions]
        /\ acks' \in [Slices -> [Steps -> Nat]] /\ forces' \in [Slices -> SUBSET Rows]
        /\ dirs' \in [Slices -> SUBSET Steps]
    BY <1>0, <1>7, FreshTypes DEF Rerun, FreshCase, TypeOK
  <2>2. /\ bridge' \in [Slices -> Motions] /\ load' \in [Slices -> Rows]
        /\ solver' \in [Slices -> Solvers] /\ stage' \in [Slices -> Stages]
    BY <1>0, <1>7, FreshTypes DEF Rerun, Stages
  <2>3. run' \in 1 .. MaxRuns
    BY <1>0, <1>7, BoundAssumption DEF Rerun, TypeOK
  <2>4. QED BY <1>0, <1>7, <2>1, <2>2, <2>3 DEF Rerun, TypeOK, Phases
<1>8. QED BY <1>1, <1>2, <1>3, <1>4, <1>5, <1>6, <1>7 DEF Main

LEMMA SolverTypes ==
  ASSUME IInv, NEW s \in Slices, Compute(s) \/ Crash(s) \/ Hang(s)  PROVE TypeOK'
<1> USE StepNumbers, SliceTypes DEF case, driver, Alone
<1>0. TypeOK
  BY DEF IInv
<1>1. ASSUME NEW to \in Solvers, solver' = [solver EXCEPT ![s] = to]
      PROVE  solver' \in [Slices -> Solvers]
  BY <1>0, <1>1 DEF TypeOK
<1>2. Onward(solver[s]) \in Solvers
  BY <1>0, SolverRecord
<1>3. CASE See(s)
  <2>1. \A st \in {"matched", "failed"} : [solver[s] EXCEPT !.state = st] \in Solvers
    BY <1>0, SolverRecord DEF Alive
  <2>2. QED BY <1>0, <1>1, <1>3, <2>1 DEF See, Solver, TypeOK
<1>4. CASE Read(s)
  <2>1. /\ [solver[s] EXCEPT !.state = "failed"] \in Solvers
        /\ \A m \in Nat : [solver[s] EXCEPT !.state = "read", !.motion = csv[s].number,
                                            !.seed = m] \in Solvers
    BY <1>0, SolverRecord
  <2>2. (IF solver[s].at = solver[s].start THEN csv[s].number ELSE solver[s].seed) \in Nat
    BY <1>0
  <2>3. solver' \in [Slices -> Solvers]
    BY <1>1, <1>4, <2>1, <2>2 DEF Read, Solver
  <2>4. QED BY <1>0, <1>4, <2>3 DEF Read, TypeOK
<1>5. CASE Acknowledge(s)
  <2>1. [solver[s] EXCEPT !.state = "solving"] \in Solvers
    BY <1>0 DEF Solvers, Alive
  <2>2. solver' \in [Slices -> Solvers]
    BY <1>0, <1>1, <1>2, <1>5, <2>1 DEF Acknowledge, Solver
  <2>3. acks' \in [Slices -> [Steps -> Nat]]
    BY <1>0, <1>5 DEF Acknowledge, TypeOK
  <2>4. QED BY <1>0, <1>5, <2>2, <2>3 DEF Acknowledge, TypeOK
<1>6. CASE Solve(s)
  <2>1. [start |-> solver[s].start, time |-> solver[s].at,
         seed |-> solver[s].seed, motion |-> solver[s].motion] \in Rows
    BY <1>0 DEF Rows
  <2>2. forces' \in [Slices -> SUBSET Rows]
    BY <1>0, <1>6, <2>1 DEF Solve, TypeOK
  <2>3. dirs' \in [Slices -> SUBSET Steps]
    BY <1>0, <1>6 DEF Solve, TypeOK
  <2>4. solver' \in [Slices -> Solvers]
    BY <1>1, <1>2, <1>6 DEF Solve, Solver
  <2>5. QED BY <1>0, <1>6, <2>2, <2>3, <2>4 DEF Solve, TypeOK
<1>7. CASE Exit(s)
  <2>1. [solver[s] EXCEPT !.state = "ended"] \in Solvers
    BY <1>0 DEF Solvers
  <2>2. QED BY <1>0, <1>1, <1>7, <2>1 DEF Exit, Solver, TypeOK
<1>8. CASE Crash(s) \/ Hang(s)
  <2>1. \E st \in {"failed", "hung"} :
          solver' = [solver EXCEPT ![s] = [solver[s] EXCEPT !.state = st]]
    BY <1>8 DEF Crash, Hang, Fails
  <2>2. solver' \in [Slices -> Solvers]
    BY <1>0, <1>1, <2>1, SolverRecord DEF Alive
  <2>3. QED BY <1>0, <1>8, <2>2 DEF Crash, Hang, Fails, TypeOK
<1>9. QED BY <1>3, <1>4, <1>5, <1>6, <1>7, <1>8 DEF Compute

LEMMA TypeStep == IInv /\ [Next]_vars => TypeOK'
<1> SUFFICES ASSUME IInv, [Next]_vars  PROVE TypeOK'
  OBVIOUS
<1>1. CASE UNCHANGED vars
  BY <1>1 DEF IInv, TypeOK, vars, driver, case
<1>2. QED BY <1>1, CallTypes, MainTypes, SolverTypes DEF Next
-----------------------------------------------------------------------------
\* Where the solver is depends on its slice's files, the clock and the engine;
\* motion.csv matters only while a motion is not read.
LEMMA PlacesKeep ==
  ASSUME NEW s \in Slices, mode' = mode, clock' = clock, ready'[s] = ready[s],
         acks'[s] = acks[s], forces'[s] = forces[s], dirs'[s] = dirs[s], solver'[s] = solver[s]
  PROVE  /\ Waiting(s)' = Waiting(s) /\ Solving(s)' = Solving(s)
         /\ Closed(s)' = Closed(s) /\ Computing(s)' = Computing(s)
         /\ Unsolved(s)' = Unsolved(s) /\ Answering(s)' = Answering(s)
         /\ Seeded(s)' = Seeded(s) /\ Engaged(s)' = Engaged(s) /\ OneShot' = OneShot
         /\ Now(s)' = Now(s) /\ Num(s)' = Num(s) /\ Living(s)' = Living(s)
         /\ \A k : NoAcksFrom(s, k)' = NoAcksFrom(s, k)
<1>1. /\ Unsolved(s)' = Unsolved(s) /\ Answering(s)' = Answering(s)
      /\ Now(s)' = Now(s) /\ Num(s)' = Num(s) /\ Living(s)' = Living(s) /\ OneShot' = OneShot
      /\ \A k : NoAcksFrom(s, k)' = NoAcksFrom(s, k)
  BY DEF Unsolved, Answering, Now, Num, NoAcksFrom, Living, OneShot
<1>2. Solved(s)' = Solved(s) /\ Seeded(s)' = Seeded(s) /\ Engaged(s)' = Engaged(s)
  BY <1>1 DEF Solved, Seeded, Engaged
<1>3. Acked(s)' = Acked(s)
  BY <1>1, <1>2 DEF Acked
<1>4. Waiting(s)' = Waiting(s) /\ Solving(s)' = Solving(s) /\ Closed(s)' = Closed(s)
  BY <1>1, <1>2, <1>3 DEF Waiting, Solving, Closed
<1>5. Computing(s)' = Computing(s)
  BY <1>4 DEF Computing
<1>6. QED BY <1>1, <1>2, <1>4, <1>5

LEMMA PlacesSame ==
  ASSUME NEW s \in Slices, mode' = mode, clock' = clock, ready'[s] = ready[s], csv'[s] = csv[s],
         acks'[s] = acks[s], forces'[s] = forces[s], dirs'[s] = dirs[s], solver'[s] = solver[s]
  PROVE  /\ Unread(s)' = Unread(s) /\ Waiting(s)' = Waiting(s) /\ Solving(s)' = Solving(s)
         /\ Closed(s)' = Closed(s) /\ Computing(s)' = Computing(s)
         /\ Unsolved(s)' = Unsolved(s) /\ Answering(s)' = Answering(s)
         /\ Now(s)' = Now(s) /\ Num(s)' = Num(s) /\ Living(s)' = Living(s) /\ OneShot' = OneShot
         /\ \A k : NoAcksFrom(s, k)' = NoAcksFrom(s, k)
  BY PlacesKeep DEF Unread

\* A slice none of whose variables changes.
Same(s) == /\ stage'[s] = stage[s] /\ bridge'[s] = bridge[s] /\ load'[s] = load[s]
           /\ csv'[s] = csv[s] /\ ready'[s] = ready[s] /\ acks'[s] = acks[s]
           /\ forces'[s] = forces[s] /\ dirs'[s] = dirs[s] /\ solver'[s] = solver[s]

LEMMA SliceSame ==
  ASSUME NEW s \in Slices, SliceInv(s), Same(s),
         mode' = mode, clock' = clock, main' = main, phase' = phase, blamed => blamed'
  PROVE  SliceInv(s)'
<1>1. OneShot' = OneShot
  BY DEF OneShot
<1>2. Dormant(s)' = Dormant(s)
  BY <1>1, PlacesSame DEF Same, Dormant
<1>3. BeforeLaunch(s)'
  BY <1>1, <1>2, PlacesSame DEF Same, SliceInv, BeforeLaunch
<1>4. AfterLaunch(s)'
  BY PlacesSame DEF Same, SliceInv, AfterLaunch
<1>5. AfterLoad(s)'
  BY <1>1, <1>2, PlacesSame DEF Same, SliceInv, AfterLoad
<1>6. Published(s)' /\ Accounted(s)'
  BY PlacesSame DEF Same, SliceInv, FilesInv, Published, Accounted
<1>7. QED BY <1>3, <1>4, <1>5, <1>6 DEF SliceInv, FilesInv

\* A call of s leaves the other slices and the rest of the driver alone.
LEMMA CallFrame ==
  ASSUME IInv, NEW s \in Slices, Call(s) \/ TimesOut(s)
  PROVE  /\ UNCHANGED <<mode, run, main, phase, clock, committed>> /\ (blamed => blamed')
         /\ \A t \in Slices \ {s} : Same(t)
         /\ UNCHANGED <<forces, dirs>>
<1> USE DEF RestOfDriver, case
<1>1. TypeOK
  BY DEF IInv
<1>2. ASSUME NEW to, To(s, to)  PROVE \A t \in Slices \ {s} : stage'[t] = stage[t]
  BY <1>1, <1>2 DEF To, TypeOK
<1>3. ASSUME NEW step, WriteCsv(s, step)  PROVE \A t \in Slices \ {s} : csv'[t] = csv[t]
  BY <1>1, <1>3 DEF WriteCsv, TypeOK
<1>4. CASE SeedCsv(s)
  BY <1>1, <1>2, <1>3, <1>4 DEF SeedCsv, RemoveOldAck, Same, TypeOK
<1>5. CASE SeedReady(s) \/ TargetReady(s)
  BY <1>1, <1>2, <1>5 DEF SeedReady, TargetReady, Announce, Same, TypeOK
<1>6. CASE Launch(s)
  BY <1>1, <1>2, <1>6 DEF Launch, Same, TypeOK
<1>7. CASE SeedConsumed(s) \/ TargetConsumed(s)
  BY <1>1, <1>2, <1>7 DEF SeedConsumed, TargetConsumed, Acknowledges, Moves, Same, TypeOK
<1>8. CASE TargetCsv(s)
  BY <1>1, <1>2, <1>3, <1>8 DEF TargetCsv, Same, TypeOK
<1>9. CASE TakeLoad(s)
  BY <1>1, <1>2, <1>9 DEF TakeLoad, Same, TypeOK
<1>10. CASE Finish(s)
  BY <1>1, <1>2, <1>10 DEF Finish, Moves, Same, TypeOK
<1>11. CASE SeesExit(s) \/ TimesOut(s)
  BY <1>1, <1>2, <1>11 DEF SeesExit, TimesOut, Raises, Same, TypeOK
<1>12. QED BY <1>4, <1>5, <1>6, <1>7, <1>8, <1>9, <1>10, <1>11 DEF Call

\* What the invariant says of a slice in a running step.
LEMMA SliceFacts ==
  ASSUME IInv, NEW s \in Slices
  PROVE  /\ SliceInv(s) /\ BeforeLaunch(s) /\ AfterLaunch(s) /\ AfterLoad(s)
         /\ Published(s) /\ Accounted(s) /\ clock \in Nat /\ MaxSteps \in Nat
         /\ Now(s) \in Int /\ Num(s) \in Nat
         /\ (phase # "idle" => clock < MaxSteps /\ clock + 1 \in Steps)
         /\ ready[s] = [step |-> Now(s), number |-> Num(s)]
         /\ bridge[s] = ready[s] /\ clock \in Steps
<1>1. TypeOK /\ PhaseInv /\ SliceInv(s)
  BY DEF IInv
<1>2. BeforeLaunch(s) /\ AfterLaunch(s) /\ AfterLoad(s) /\ Published(s) /\ Accounted(s)
  BY <1>1 DEF SliceInv, FilesInv
<1>3. clock \in Steps /\ clock \in Nat /\ MaxSteps \in Nat
  BY <1>1, SliceTypes, StepNumbers
<1>4. ready[s] \in Motions
  BY <1>1, SliceTypes
<1>5. ready[s] = [step |-> Now(s), number |-> Num(s)]
  BY <1>4 DEF Motions, Now, Num
<1>6. Now(s) \in Int /\ Num(s) \in Nat
  <2>1. Now(s) \in Steps \cup {-1} /\ Num(s) \in Nat
    BY <1>4 DEF Motions, Now, Num
  <2>2. QED BY <2>1, BoundAssumption DEF Steps
<1>7. phase # "idle" => clock < MaxSteps /\ clock + 1 \in Steps
  BY <1>1, <1>3, StepNumbers DEF PhaseInv
<1>8. bridge[s] = ready[s]
  BY <1>2 DEF Published
<1>9. QED BY <1>1, <1>2, <1>3, <1>5, <1>6, <1>7, <1>8

LEMMA ClockFacts ==
  IInv => /\ clock \in Nat /\ clock \in Int /\ clock \in Steps /\ clock # -1
          /\ clock + 1 \in Int /\ clock < clock + 1 /\ clock # clock + 1
          /\ MaxSteps \in Nat /\ clock <= MaxSteps
          /\ (phase # "idle" => clock < MaxSteps /\ clock + 1 \in Steps)
<1>1. IInv => clock \in Steps
  BY DEF IInv, TypeOK
<1>2. Steps = 0 .. MaxSteps /\ MaxSteps \in Nat
  BY BoundAssumption DEF Steps
<1>3. QED BY <1>1, <1>2 DEF IInv, PhaseInv

LEMMA SliceNumbers ==
  ASSUME IInv, NEW s \in Slices
  PROVE  /\ Now(s) \in Int /\ Num(s) \in Int /\ solver[s].start \in Int
         /\ solver[s].end \in Int /\ solver[s].at \in Int
<1>1. Now(s) \in Int /\ Num(s) \in Int
  <2>1. Now(s) \in Int /\ Num(s) \in Nat
    BY SliceFacts
  <2>2. QED BY <2>1
<1>2. solver[s].start \in Steps /\ solver[s].end \in Steps /\ solver[s].at \in Steps
  BY SliceTypes DEF IInv
<1>3. QED BY <1>1, <1>2, BoundAssumption DEF Steps

LEMMA AccountedSame ==
  ASSUME NEW s \in Slices, Accounted(s), solver'[s].state = solver[s].state,
         mode' = mode, main' = main, phase' = phase, blamed => blamed'
  PROVE  Accounted(s)'
  BY DEF Accounted, Living

LEMMA SeedCsvStep ==
  ASSUME IInv, NEW s \in Slices, SeedCsv(s)  PROVE SliceInv(s)'
<1>1. /\ stage[s] = "begun" /\ stage'[s] = "written" /\ phase = "publish"
      /\ csv'[s] = [step |-> clock, number |-> Num(s) + 1]
      /\ acks'[s] = [acks[s] EXCEPT ![clock] = 0]
      /\ ready'[s] = ready[s] /\ bridge'[s] = bridge[s] /\ solver'[s] = solver[s]
      /\ forces'[s] = forces[s] /\ dirs'[s] = dirs[s]
      /\ UNCHANGED <<mode, clock, main, phase, blamed>>
      /\ OneShot \/ solver[s].state = "none"
  BY SliceFacts DEF SeedCsv, Calling, At, To, WriteCsv, RemoveOldAck, RestOfDriver, Starts, IInv,
                    TypeOK
<1>2. Dormant(s)
  BY <1>1, SliceFacts DEF BeforeLaunch, Waiting, Closed, Stopped
<1>3. NoAcksFrom(s, clock)' /\ NoAcksFrom(s, clock + 1)'
  <2>1. \A j \in Steps : acks'[s][j] = IF j = clock THEN 0 ELSE acks[s][j]
    BY <1>1, SliceTypes DEF IInv
  <2>2. clock \in Int
    BY ClockFacts
  <2>3. \A j \in Steps : /\ j >= clock => j = clock \/ j >= clock + 1
                         /\ j >= clock + 1 => j # clock
    BY <2>2, StepOrder
  <2>4. QED BY <1>1, <1>2, <2>1, <2>3 DEF Dormant, NoAcksFrom
<1>4. /\ Now(s)' = Now(s) /\ Num(s)' = Num(s) /\ OneShot' = OneShot /\ Unsolved(s)' = Unsolved(s)
  BY <1>1 DEF Now, Num, OneShot, Unsolved
<1>5. Dormant(s)'
  BY <1>1, <1>2, <1>3, <1>4 DEF Dormant
<1>6. Published(s)'
  BY <1>1, <1>4, SliceFacts DEF Published
<1>7. Accounted(s)'
  BY <1>1, AccountedSame, SliceFacts
<1>8. BeforeLaunch(s)' /\ AfterLaunch(s)' /\ AfterLoad(s)'
  BY <1>1, <1>3, <1>4, <1>5 DEF BeforeLaunch, AfterLaunch, AfterLoad
<1>9. QED BY <1>6, <1>7, <1>8 DEF SliceInv, FilesInv

LEMMA SeedReadyStep ==
  ASSUME IInv, NEW s \in Slices, SeedReady(s)  PROVE SliceInv(s)'
<1>1. /\ stage[s] = "written" /\ stage'[s] = "armed"
      /\ ready'[s] = csv[s] /\ bridge'[s] = csv[s] /\ csv'[s] = csv[s]
      /\ acks'[s] = acks[s] /\ solver'[s] = solver[s]
      /\ forces'[s] = forces[s] /\ dirs'[s] = dirs[s]
      /\ UNCHANGED <<mode, clock, main, phase, blamed>>
  BY DEF SeedReady, Announce, At, To, RestOfDriver, IInv, TypeOK
<1>2. Dormant(s) /\ NoAcksFrom(s, clock) /\ csv[s] = [step |-> clock, number |-> Num(s) + 1]
  BY <1>1, SliceFacts DEF BeforeLaunch
<1>3. /\ Now(s)' = clock /\ Num(s)' = Num(s) + 1 /\ OneShot' = OneShot
      /\ Unsolved(s)' = Unsolved(s)
      /\ NoAcksFrom(s, clock)' = NoAcksFrom(s, clock)
      /\ NoAcksFrom(s, clock + 1)' = NoAcksFrom(s, clock + 1)
  BY <1>1, <1>2 DEF Now, Num, OneShot, Unsolved, NoAcksFrom
<1>4. Dormant(s)'
  <2>1. ~OneShot => Num(s) = 0
    BY <1>1, <1>2 DEF Dormant
  <2>2. ~OneShot' => Num(s)' = IF stage'[s] \in {"armed", "raised"} THEN 1 ELSE 0
    BY <1>1, <1>3, <2>1
  <2>3. QED BY <1>1, <1>2, <1>3, <2>2 DEF Dormant
<1>5. Published(s)'
  <2>1. Num(s) + 1 > 0 /\ clock # -1 /\ clock \in dirs[s]
    <3>1. Num(s) \in Nat /\ Published(s)
      BY SliceFacts
    <3>2. QED BY <3>1, ClockFacts DEF Published
  <2>2. QED BY <1>1, <1>3, <2>1 DEF Published
<1>6. Accounted(s)'
  BY <1>1, AccountedSame, SliceFacts
<1>7. BeforeLaunch(s)' /\ AfterLaunch(s)' /\ AfterLoad(s)'
  BY <1>1, <1>2, <1>3, <1>4 DEF BeforeLaunch, AfterLaunch, AfterLoad
<1>8. QED BY <1>5, <1>6, <1>7 DEF SliceInv, FilesInv

LEMMA LaunchStep ==
  ASSUME IInv, NEW s \in Slices, Launch(s)  PROVE SliceInv(s)'
<1>1. /\ stage[s] = "armed" /\ stage'[s] = "launched" /\ phase = "publish"
      /\ main = "running" \/ mode = "pooled"
      /\ ready'[s] = ready[s] /\ bridge'[s] = bridge[s] /\ csv'[s] = csv[s]
      /\ acks'[s] = acks[s] /\ forces'[s] = forces[s] /\ dirs'[s] = dirs[s]
      /\ UNCHANGED <<mode, clock, main, phase, blamed>>
      /\ solver'[s] = [state |-> "waiting", start |-> StartTime(s), at |-> StartTime(s),
                       end |-> IF OneShot THEN clock + 1 ELSE MaxSteps, seed |-> 0, motion |-> 0]
  BY DEF Launch, At, To, Calling, RestOfDriver, case, IInv, TypeOK
<1>2. Dormant(s) /\ NoAcksFrom(s, clock) /\ Now(s) = clock
  BY <1>1, SliceFacts DEF BeforeLaunch
<1>3. clock \in dirs[s] /\ csv[s] = ready[s] /\ Num(s) > 0
  <2>1. clock # -1
    BY ClockFacts
  <2>2. QED BY <1>1, <1>2, <2>1, SliceFacts DEF Published
<1>4. StartTime(s) = clock
  BY <1>2, <1>3, Latest DEF Dormant, Unsolved, IInv
<1>5. /\ Now(s)' = clock /\ Num(s)' = Num(s) /\ OneShot' = OneShot /\ Unsolved(s)'
      /\ NoAcksFrom(s, Now(s))'
  BY <1>1, <1>2 DEF Now, Num, OneShot, Unsolved, NoAcksFrom, Dormant
<1>6. Engaged(s)'
  <2>1. clock \in Nat /\ MaxSteps \in Nat /\ clock < MaxSteps
    BY <1>1, SliceFacts
  <2>2. /\ solver'[s].start = clock /\ solver'[s].at = clock
        /\ solver'[s].end = IF OneShot THEN clock + 1 ELSE MaxSteps
    BY <1>1, <1>4
  <2>3. CASE OneShot
    BY <1>1, <1>3, <1>5, <2>1, <2>2, <2>3 DEF Engaged
  <2>4. CASE ~OneShot
    BY <1>1, <1>3, <1>5, <2>1, <2>2, <2>4 DEF Engaged
  <2>5. QED BY <2>3, <2>4
<1>7. Unread(s)'
  <2>1. ~OneShot => Num(s) = 1
    BY <1>1, <1>2 DEF Dormant
  <2>2. solver'[s].state = "waiting" /\ solver'[s].at = clock /\ solver'[s].start = clock
    BY <1>1, <1>4
  <2>3. QED BY <1>1, <1>3, <1>5, <1>6, <2>1, <2>2 DEF Unread
<1>8. Published(s)'
  <2>1. clock # -1
    BY ClockFacts
  <2>2. QED BY <1>1, <1>3, <1>5, <2>1, SliceFacts DEF Published
<1>9. Accounted(s)'
  BY <1>1 DEF Accounted
<1>10. ~OneShot' => Num(s)' = 1
  BY <1>1, <1>2, <1>5 DEF Dormant
<1>11. BeforeLaunch(s)' /\ AfterLaunch(s)' /\ AfterLoad(s)'
  BY <1>1, <1>4, <1>5, <1>7, <1>10 DEF BeforeLaunch, AfterLaunch, AfterLoad
<1>12. QED BY <1>8, <1>9, <1>11 DEF SliceInv, FilesInv

\* A call that changes only how far it has come.
LEMMA MovesFrame ==
  ASSUME IInv, NEW s \in Slices, NEW from, NEW to, Moves(s, from, to)
  PROVE  /\ stage[s] = from /\ stage'[s] = to
         /\ ready'[s] = ready[s] /\ bridge'[s] = bridge[s] /\ csv'[s] = csv[s]
         /\ acks'[s] = acks[s] /\ forces'[s] = forces[s] /\ dirs'[s] = dirs[s]
         /\ solver'[s] = solver[s] /\ load'[s] = load[s]
         /\ UNCHANGED <<mode, clock, main, phase, blamed>>
  BY DEF Moves, At, To, RestOfDriver, case, IInv, TypeOK

LEMMA PublishedSame ==
  ASSUME NEW s \in Slices, Published(s), clock' = clock, ready'[s] = ready[s],
         bridge'[s] = bridge[s], csv'[s] = csv[s], dirs'[s] = dirs[s],
         stage[s] \notin {"written", "aimed"}
  PROVE  Published(s)'
  BY DEF Published, Now, Num

LEMMA MovesFiles ==
  ASSUME IInv, NEW s \in Slices, NEW from, NEW to, Moves(s, from, to),
         from \notin {"written", "aimed"}
  PROVE  Published(s)' /\ Accounted(s)'
<1>1. Published(s) /\ Accounted(s)
  BY SliceFacts
<1>2. /\ stage[s] = from /\ stage'[s] = to
      /\ ready'[s] = ready[s] /\ bridge'[s] = bridge[s] /\ csv'[s] = csv[s]
      /\ dirs'[s] = dirs[s] /\ solver'[s] = solver[s]
      /\ UNCHANGED <<mode, clock, main, phase, blamed>>
  BY MovesFrame
<1>3. Published(s)'
  BY <1>1, <1>2, PublishedSame
<1>4. QED BY <1>1, <1>2, <1>3, AccountedSame

\* An acknowledgement that is there is that of the motion published last.
LEMMA AckIsValid ==
  ASSUME IInv, NEW s \in Slices, NEW k \in Steps, Now(s) = k, Unread(s) \/ Computing(s),
         Acknowledged(s, k)
  PROVE  Computing(s) /\ Valid(s, k)
<1>1. k \in Int /\ k >= k
  BY StepNumbers
<1>2. ~Unread(s)
  BY <1>1 DEF Unread, NoAcksFrom, Acknowledged
<1>3. acks[s][k] = Num(s)
  BY <1>2 DEF Computing, Waiting, Solving, Closed, Acked
<1>4. Num(s) \in Int /\ bridge[s].number = Num(s)
  <2>1. Num(s) \in Nat /\ bridge[s] = ready[s]
    BY SliceFacts
  <2>2. QED BY <2>1 DEF Num
<1>5. QED BY <1>2, <1>3, <1>4 DEF Valid

LEMMA SeedConsumedStep ==
  ASSUME IInv, NEW s \in Slices, SeedConsumed(s)  PROVE SliceInv(s)'
<1>1. stage[s] = "launched" /\ Acknowledged(s, clock)
  BY DEF SeedConsumed, Acknowledges, Moves, At
<1>2. /\ Now(s) = clock /\ solver[s].start = clock /\ (Unread(s) \/ Waiting(s))
      /\ (~OneShot => Num(s) = 1)
  BY <1>1, SliceFacts DEF AfterLaunch
<1>3. Computing(s) /\ Valid(s, clock)
  BY <1>1, <1>2, AckIsValid, ClockFacts DEF Computing
<1>4. Waiting(s)
  <2>1. ~Unread(s)
    <3>1. clock >= clock /\ clock \in Steps
      BY ClockFacts
    <3>2. QED BY <1>1, <1>2, <3>1 DEF Unread, NoAcksFrom, Acknowledged
  <2>2. QED BY <1>2, <2>1
<1>5. Moves(s, "launched", "seeded")
  BY <1>3 DEF SeedConsumed, Acknowledges
<1>6. /\ Waiting(s)' /\ Now(s)' = clock' /\ solver'[s].start = clock'
      /\ (~OneShot' => Num(s)' = 1)
  BY <1>2, <1>4, <1>5, MovesFrame, PlacesSame
<1>7. Published(s)' /\ Accounted(s)'
  BY <1>5, MovesFiles
<1>8. stage'[s] = "seeded"
  BY <1>5, MovesFrame
<1>9. BeforeLaunch(s)' /\ AfterLaunch(s)' /\ AfterLoad(s)'
  BY <1>6, <1>8 DEF BeforeLaunch, AfterLaunch, AfterLoad
<1>10. QED BY <1>7, <1>9 DEF SliceInv, FilesInv

LEMMA TargetConsumedStep ==
  ASSUME IInv, NEW s \in Slices, TargetConsumed(s)  PROVE SliceInv(s)'
<1>1. stage[s] = "published" /\ Acknowledged(s, clock + 1) /\ clock + 1 \in Steps
  BY ClockFacts DEF TargetConsumed, Acknowledges, Moves, At, Calling
<1>2. Now(s) = clock + 1 /\ (Unread(s) \/ Computing(s))
  BY <1>1, SliceFacts DEF AfterLaunch
<1>3. Computing(s) /\ Valid(s, clock + 1)
  BY <1>1, <1>2, AckIsValid
<1>4. Moves(s, "published", "consumed")
  BY <1>3 DEF TargetConsumed, Acknowledges
<1>5. Computing(s)' /\ Now(s)' = clock' + 1
  BY <1>2, <1>3, <1>4, MovesFrame, PlacesSame
<1>6. Published(s)' /\ Accounted(s)'
  BY <1>4, MovesFiles
<1>7. stage'[s] = "consumed"
  BY <1>4, MovesFrame
<1>8. BeforeLaunch(s)' /\ AfterLaunch(s)' /\ AfterLoad(s)'
  BY <1>5, <1>7 DEF BeforeLaunch, AfterLaunch, AfterLoad
<1>9. QED BY <1>6, <1>8 DEF SliceInv, FilesInv

LEMMA TargetCsvStep ==
  ASSUME IInv, NEW s \in Slices, TargetCsv(s)  PROVE SliceInv(s)'
<1>1. /\ stage[s] \in {"begun", "seeded"} /\ stage'[s] = "aimed" /\ phase = "publish"
      /\ stage[s] = "begun" => ~OneShot /\ solver[s].state # "none"
      /\ csv'[s] = [step |-> clock + 1, number |-> bridge[s].number + 1]
      /\ acks'[s] = acks[s] /\ ready'[s] = ready[s] /\ bridge'[s] = bridge[s]
      /\ solver'[s] = solver[s] /\ forces'[s] = forces[s] /\ dirs'[s] = dirs[s]
      /\ UNCHANGED <<mode, clock, main, phase, blamed>>
  BY DEF TargetCsv, Calling, At, To, WriteCsv, RestOfDriver, Starts, IInv, TypeOK
<1>2. Now(s) = clock /\ Waiting(s)
  <2>1. CASE stage[s] = "seeded"
    BY <2>1, SliceFacts DEF AfterLaunch
  <2>2. CASE stage[s] = "begun"
    <3>1. Now(s) = clock /\ (Waiting(s) \/ Closed(s))
      BY <1>1, <2>2, SliceFacts DEF BeforeLaunch, Dormant
    <3>2. Closed(s) => Now(s) = MaxSteps
      BY <1>1, <2>2 DEF Closed, Engaged
    <3>3. QED BY <1>1, <3>1, <3>2, ClockFacts
  <2>3. QED BY <1>1, <2>1, <2>2
<1>3. Now(s)' = clock' /\ Waiting(s)' /\ Num(s)' = Num(s)
  BY <1>1, <1>2, PlacesKeep
<1>4. csv'[s] = [step |-> clock' + 1, number |-> Num(s)' + 1]
  BY <1>1, <1>3, SliceFacts DEF Num
<1>5. Published(s)'
  BY <1>1, SliceFacts DEF Published, Now, Num
<1>6. Accounted(s)'
  BY <1>1, AccountedSame, SliceFacts
<1>7. BeforeLaunch(s)' /\ AfterLaunch(s)' /\ AfterLoad(s)'
  BY <1>1, <1>3, <1>4 DEF BeforeLaunch, AfterLaunch, AfterLoad
<1>8. QED BY <1>5, <1>6, <1>7 DEF SliceInv, FilesInv

LEMMA TargetReadyStep ==
  ASSUME IInv, NEW s \in Slices, TargetReady(s)  PROVE SliceInv(s)'
<1>1. /\ stage[s] = "aimed" /\ stage'[s] = "published" /\ phase = "publish"
      /\ ready'[s] = csv[s] /\ bridge'[s] = csv[s] /\ csv'[s] = csv[s]
      /\ acks'[s] = acks[s] /\ solver'[s] = solver[s]
      /\ forces'[s] = forces[s] /\ dirs'[s] = dirs[s]
      /\ UNCHANGED <<mode, clock, main, phase, blamed>>
  BY DEF TargetReady, Calling, Announce, At, To, RestOfDriver, IInv, TypeOK
<1>2. Now(s) = clock /\ Waiting(s) /\ csv[s] = [step |-> clock + 1, number |-> Num(s) + 1]
  BY <1>1, SliceFacts DEF AfterLaunch
<1>3. Engaged(s) /\ Acked(s) /\ Unsolved(s) /\ solver[s].at = clock + 1
      /\ solver[s].state \in {"waiting"} \cup Stopped
  BY <1>2 DEF Waiting
<1>4. /\ Now(s)' = clock + 1 /\ Num(s)' = Num(s) + 1 /\ OneShot' = OneShot
      /\ Unsolved(s)' /\ NoAcksFrom(s, clock + 1)'
  BY <1>1, <1>2, <1>3 DEF Now, Num, OneShot, Unsolved, NoAcksFrom, Acked
<1>5. clock \in Int /\ clock + 1 # clock /\ clock + 1 # -1
  BY ClockFacts
<1>6. Num(s) \in Nat /\ Num(s) + 1 > 0 /\ Num(s) + 1 - 1 = Num(s)
  <2>1. Num(s) \in Nat
    BY SliceFacts
  <2>2. QED BY <2>1
<1>7. Engaged(s)'
  BY <1>1, <1>3, <1>4, <1>6 DEF Engaged
<1>8. Seeded(s)'
  <2>1. solver[s].seed = IF ~OneShot THEN 1 ELSE Num(s)
    BY <1>2, <1>3 DEF Acked, Seeded
  <2>2. QED BY <1>1, <1>4, <1>5, <1>6, <2>1 DEF Seeded
<1>9. Unread(s)'
  BY <1>1, <1>3, <1>4, <1>5, <1>7, <1>8 DEF Unread, Stopped
<1>10. Published(s)'
  <2>1. clock \in dirs[s]
    BY SliceFacts DEF Published
  <2>2. QED BY <1>1, <1>4, <1>5, <1>6, <2>1 DEF Published
<1>11. Accounted(s)'
  BY <1>1, AccountedSame, SliceFacts
<1>12. BeforeLaunch(s)' /\ AfterLaunch(s)' /\ AfterLoad(s)'
  BY <1>1, <1>4, <1>9 DEF BeforeLaunch, AfterLaunch, AfterLoad
<1>13. QED BY <1>10, <1>11, <1>12 DEF SliceInv, FilesInv

LEMMA TakeLoadStep ==
  ASSUME IInv, NEW s \in Slices, TakeLoad(s)
  PROVE  SliceInv(s)' /\ load'[s].time = clock + 1
<1>1. /\ stage[s] = "consumed" /\ stage'[s] = "loaded"
      /\ ready'[s] = ready[s] /\ bridge'[s] = bridge[s] /\ csv'[s] = csv[s]
      /\ acks'[s] = acks[s] /\ solver'[s] = solver[s]
      /\ forces'[s] = forces[s] /\ dirs'[s] = dirs[s]
      /\ UNCHANGED <<mode, clock, main, phase, blamed>>
      /\ load'[s] \in forces[s] /\ load'[s].time = clock + 1
  BY DEF TakeLoad, RowsAtTarget, At, To, RestOfDriver, case, IInv, TypeOK
<1>2. Now(s) = clock + 1 /\ Computing(s)
  BY <1>1, SliceFacts DEF AfterLaunch
<1>3. clock \in Int /\ clock + 1 # clock /\ ~(clock + 1 <= clock)
  BY ClockFacts
<1>4. ~Unsolved(s)
  BY <1>1, <1>3 DEF Unsolved
<1>5. (Waiting(s) \/ Closed(s)) /\ Solved(s)
  BY <1>2, <1>3, <1>4 DEF Computing, Solving, Waiting, Closed
<1>6. load'[s] = Answering(s)
  BY <1>1, <1>3, <1>5 DEF Solved
<1>7. Now(s)' = clock' + 1 /\ (Waiting(s)' \/ Closed(s)') /\ Answering(s)' = Answering(s)
  BY <1>1, <1>2, <1>5, PlacesSame
<1>8. Published(s)' /\ Accounted(s)'
  <2>1. Published(s) /\ Accounted(s)
    BY SliceFacts
  <2>2. QED BY <1>1, <2>1, PublishedSame, AccountedSame
<1>9. BeforeLaunch(s)' /\ AfterLaunch(s)' /\ AfterLoad(s)'
  BY <1>1, <1>6, <1>7 DEF BeforeLaunch, AfterLaunch, AfterLoad
<1>10. QED BY <1>1, <1>8, <1>9 DEF SliceInv, FilesInv

LEMMA FinishStep ==
  ASSUME IInv, NEW s \in Slices, Finish(s)  PROVE SliceInv(s)'
<1>1. Moves(s, "loaded", "finished") /\ (OneShot => solver[s].state = "ended")
  BY DEF Finish
<1>2. Published(s)' /\ Accounted(s)'
  BY <1>1, MovesFiles
<1>3. /\ stage[s] = "loaded" /\ stage'[s] = "finished" /\ load'[s] = load[s]
      /\ ready'[s] = ready[s] /\ csv'[s] = csv[s] /\ acks'[s] = acks[s]
      /\ forces'[s] = forces[s] /\ dirs'[s] = dirs[s] /\ solver'[s] = solver[s]
      /\ UNCHANGED <<mode, clock>>
  BY <1>1, MovesFrame
<1>4. Now(s) = clock + 1 /\ (Waiting(s) \/ Closed(s)) /\ load[s] = Answering(s)
  BY <1>3, SliceFacts DEF AfterLoad
<1>5. /\ Now(s)' = clock' + 1 /\ (Waiting(s)' \/ Closed(s)') /\ Answering(s)' = Answering(s)
      /\ OneShot' = OneShot
  BY <1>3, <1>4, PlacesSame
<1>6. BeforeLaunch(s)' /\ AfterLaunch(s)' /\ AfterLoad(s)'
  BY <1>1, <1>3, <1>4, <1>5 DEF BeforeLaunch, AfterLaunch, AfterLoad
<1>7. QED BY <1>2, <1>6 DEF SliceInv, FilesInv

LEMMA RaiseStep ==
  ASSUME IInv, NEW s \in Slices, SeesExit(s) \/ TimesOut(s)  PROVE SliceInv(s)'
<1>1. /\ stage'[s] = "raised" /\ Waits(s) /\ load'[s] = load[s]
      /\ ready'[s] = ready[s] /\ bridge'[s] = bridge[s] /\ csv'[s] = csv[s]
      /\ acks'[s] = acks[s] /\ forces'[s] = forces[s] /\ dirs'[s] = dirs[s]
      /\ solver'[s] = solver[s] /\ UNCHANGED <<mode, clock, main, phase>>
      /\ (blamed => blamed')
  BY DEF SeesExit, TimesOut, Raises, To, RestOfDriver, case, IInv, TypeOK
<1>2. stage[s] \in {"armed", "launched", "published", "consumed", "loaded"} /\ phase # "idle"
  BY <1>1 DEF Waits, At
<1>3. Published(s) /\ Accounted(s) /\ BeforeLaunch(s) /\ AfterLaunch(s) /\ AfterLoad(s)
  BY SliceFacts
<1>4. blamed'
  <2>1. CASE SeesExit(s)
    BY <1>1, <1>2, <1>3, <2>1 DEF SeesExit, Exited, Accounted
  <2>2. CASE TimesOut(s)
    BY <2>2 DEF TimesOut
  <2>3. QED BY <2>1, <2>2
<1>5. Dormant(s)' \/ Unread(s)' \/ Computing(s)'
  <2>1. CASE stage[s] = "armed"
    <3>1. Dormant(s)
      BY <1>3, <2>1 DEF BeforeLaunch
    <3>2. Dormant(s)'
      BY <1>1, <2>1, <3>1, PlacesSame DEF Dormant
    <3>3. QED BY <3>2
  <2>2. CASE stage[s] # "armed"
    <3>1. Unread(s) \/ Computing(s)
      BY <1>2, <1>3, <2>2 DEF AfterLaunch, AfterLoad, Computing
    <3>2. QED BY <1>1, <3>1, PlacesSame
  <2>3. QED BY <2>1, <2>2
<1>6. Published(s)' /\ Accounted(s)'
  BY <1>1, <1>2, <1>3, PublishedSame, AccountedSame
<1>7. BeforeLaunch(s)' /\ AfterLaunch(s)' /\ AfterLoad(s)'
  BY <1>1, <1>4, <1>5 DEF BeforeLaunch, AfterLaunch, AfterLoad
<1>8. QED BY <1>6, <1>7 DEF SliceInv, FilesInv
-----------------------------------------------------------------------------
\* A slice's solver is at one of these places.
LEMMA Placed ==
  ASSUME IInv, NEW s \in Slices
  PROVE  Dormant(s) \/ Unread(s) \/ Waiting(s) \/ Solving(s) \/ Closed(s)
<1>1. BeforeLaunch(s) /\ AfterLaunch(s) /\ AfterLoad(s) /\ stage[s] \in Stages
  BY SliceFacts, SliceTypes DEF IInv
<1>2. QED BY <1>1 DEF BeforeLaunch, AfterLaunch, AfterLoad, Computing, Stages

\* A solver changes nothing of the driver, of the motions and of other slices.
LEMMA SolverFrame ==
  ASSUME IInv, NEW s \in Slices, Compute(s) \/ Crash(s) \/ Hang(s)
  PROVE  /\ UNCHANGED <<mode, run, main, phase, stage, clock, committed, bridge, load, csv, ready>>
         /\ (blamed => blamed') /\ solver[s].state \in Alive
         /\ \A t \in Slices \ {s} : Same(t)
         /\ dirs[s] \subseteq dirs'[s]
<1>1. TypeOK
  BY DEF IInv
<1>2. ASSUME NEW from, NEW to, Solver(s, from, to)
      PROVE  solver[s].state = from /\ solver'[s] = to
             /\ \A t \in Slices \ {s} : solver'[t] = solver[t]
  BY <1>1, <1>2 DEF Solver, TypeOK
<1>3. CASE See(s)
  BY <1>1, <1>2, <1>3 DEF See, Alone, driver, case, Same, Alive
<1>4. CASE Read(s)
  BY <1>1, <1>2, <1>4 DEF Read, Alone, driver, case, Same, Alive
<1>5. CASE Acknowledge(s)
  <2>1. solver[s].state = "read" /\ \A t \in Slices \ {s} : solver'[t] = solver[t]
    BY <1>2, <1>5 DEF Acknowledge, AcknowledgingStates
  <2>2. QED BY <1>1, <1>5, <2>1 DEF Acknowledge, Alone, driver, Same, Alive, TypeOK
<1>6. CASE Solve(s)
  <2>1. solver[s].state = "solving" /\ \A t \in Slices \ {s} : solver'[t] = solver[t]
    BY <1>2, <1>6 DEF Solve
  <2>2. QED BY <1>1, <1>6, <2>1 DEF Solve, Alone, driver, Same, Alive, TypeOK
<1>7. CASE Exit(s)
  BY <1>1, <1>2, <1>7 DEF Exit, Alone, driver, case, Same, Alive
<1>8. CASE Crash(s) \/ Hang(s)
  BY <1>1, <1>8 DEF Crash, Hang, Fails, Living, driver, case, Same, TypeOK
<1>9. QED BY <1>3, <1>4, <1>5, <1>6, <1>7, <1>8 DEF Compute

\* A step that changes only the solver's state.
OnlyState(s) ==
  /\ UNCHANGED <<mode, clock>> /\ ready'[s] = ready[s] /\ csv'[s] = csv[s]
  /\ acks'[s] = acks[s] /\ forces'[s] = forces[s] /\ dirs'[s] = dirs[s]
  /\ solver'[s].start = solver[s].start /\ solver'[s].end = solver[s].end
  /\ solver'[s].at = solver[s].at /\ solver'[s].seed = solver[s].seed
  /\ solver'[s].motion = solver[s].motion

LEMMA OnlyStateKeeps ==
  ASSUME NEW s \in Slices, OnlyState(s)
  PROVE  /\ Now(s)' = Now(s) /\ Num(s)' = Num(s) /\ OneShot' = OneShot
         /\ Unsolved(s)' = Unsolved(s) /\ Solved(s)' = Solved(s) /\ Seeded(s)' = Seeded(s)
         /\ Acked(s)' = Acked(s) /\ Engaged(s)' = Engaged(s) /\ Answering(s)' = Answering(s)
         /\ \A k : NoAcksFrom(s, k)' = NoAcksFrom(s, k)
<1>1. /\ Unsolved(s)' = Unsolved(s) /\ Answering(s)' = Answering(s)
      /\ Now(s)' = Now(s) /\ Num(s)' = Num(s) /\ OneShot' = OneShot
      /\ \A k : NoAcksFrom(s, k)' = NoAcksFrom(s, k)
  BY DEF OnlyState, Unsolved, Answering, Now, Num, NoAcksFrom, OneShot
<1>2. Solved(s)' = Solved(s) /\ Seeded(s)' = Seeded(s) /\ Engaged(s)' = Engaged(s)
  BY <1>1 DEF OnlyState, Solved, Seeded, Engaged
<1>3. Acked(s)' = Acked(s)
  BY <1>1, <1>2 DEF OnlyState, Acked
<1>4. QED BY <1>1, <1>2, <1>3

\* How a solver may move from place to place.
Moved(s) ==
  /\ ~Dormant(s)
  /\ Unread(s) => Unread(s)' \/ Solving(s)' \/ (Now(s) = clock /\ Waiting(s)')
  /\ Waiting(s) => Waiting(s)' /\ Answering(s)' = Answering(s)
  /\ Closed(s) => Closed(s)' /\ Answering(s)' = Answering(s)
  /\ Solving(s) => Computing(s)'
  /\ solver'[s].start = solver[s].start
  /\ solver'[s].state = "failed" => blamed'
  /\ solver'[s].state # "killed"

LEMMA SeeMoves ==
  ASSUME IInv, NEW s \in Slices, See(s)  PROVE Moved(s)
<1>1. solver[s].state = "waiting" /\ Now(s) >= solver[s].at
  BY DEF See, Solver, Now
<1>2. Now(s) \in Int /\ ~(Now(s) >= Now(s) + 1)
  <2>1. Now(s) \in Int
    BY SliceFacts
  <2>2. QED BY <2>1
<1>3. ~Dormant(s) /\ ~Waiting(s) /\ ~Solving(s) /\ ~Closed(s)
  BY <1>1, <1>2 DEF Dormant, Waiting, Solving, Closed, Stopped
<1>4. Unread(s) /\ solver[s].at = Now(s)
  BY <1>3, Placed DEF Unread
<1>5. solver'[s] = [solver[s] EXCEPT !.state = "matched"]
  BY <1>4 DEF See, Solver, Now, IInv, TypeOK
<1>6. solver[s] \in Solvers
  BY SliceTypes DEF IInv
<1>7. solver'[s].state = "matched" /\ OnlyState(s)
  BY <1>5, <1>6 DEF OnlyState, See, Alone, driver, case, Solvers
<1>8. Unread(s)'
  BY <1>4, <1>7, OnlyStateKeeps DEF OnlyState, Unread
<1>9. QED BY <1>3, <1>7, <1>8 DEF Moved, OnlyState

LEMMA ReadMoves ==
  ASSUME IInv, NEW s \in Slices, Read(s)  PROVE Moved(s)
<1>1. solver[s].state = "matched"
  BY DEF Read, Solver
<1>2. ~Dormant(s) /\ ~Waiting(s) /\ ~Solving(s) /\ ~Closed(s)
  BY <1>1 DEF Dormant, Waiting, Solving, Closed, Stopped
<1>3. Unread(s) /\ csv[s] = ready[s] /\ solver[s].at = Now(s)
  BY <1>2, Placed DEF Unread
<1>4. solver'[s] = [solver[s] EXCEPT !.state = "read", !.motion = Num(s),
                      !.seed = IF solver[s].at = solver[s].start THEN Num(s) ELSE @]
  BY <1>3 DEF Read, Solver, Now, Num, IInv, TypeOK
<1>5. solver[s] \in Solvers
  BY SliceTypes DEF IInv
<1>6. /\ solver'[s].state = "read" /\ solver'[s].motion = Num(s)
      /\ solver'[s].start = solver[s].start /\ solver'[s].end = solver[s].end
      /\ solver'[s].at = solver[s].at
      /\ solver'[s].seed = IF solver[s].at = solver[s].start THEN Num(s) ELSE solver[s].seed
  BY <1>4, <1>5 DEF Solvers
<1>7. /\ UNCHANGED <<mode, clock>> /\ ready'[s] = ready[s] /\ csv'[s] = csv[s]
      /\ acks'[s] = acks[s] /\ forces'[s] = forces[s] /\ dirs'[s] = dirs[s]
  BY DEF Read, Alone, driver, case
<1>8. /\ Now(s)' = Now(s) /\ Num(s)' = Num(s) /\ OneShot' = OneShot
      /\ Unsolved(s)' = Unsolved(s) /\ NoAcksFrom(s, Now(s))' = NoAcksFrom(s, Now(s))
  BY <1>7 DEF Now, Num, OneShot, Unsolved, NoAcksFrom
<1>9. Engaged(s)'
  BY <1>3, <1>6, <1>7, <1>8 DEF Unread, Engaged
<1>10. IF Now(s)' = clock'
       THEN /\ solver'[s].start = clock' /\ (~OneShot' => Num(s)' = 1)
            /\ solver'[s].seed = Num(s)'
       ELSE Seeded(s)'
  <2>1. CASE Now(s) = clock
    BY <1>3, <1>6, <1>7, <1>8, <2>1 DEF Unread
  <2>2. CASE Now(s) # clock
    <3>1. Now(s) = clock + 1 /\ solver[s].start <= clock
      BY <1>3, <2>2 DEF Unread, Engaged
    <3>2. solver[s].start \in Int /\ clock \in Int
      BY ClockFacts, SliceTypes, StepNumbers DEF IInv
    <3>3. solver[s].at # solver[s].start
      BY <1>3, <3>1, <3>2
    <3>4. QED BY <1>3, <1>6, <1>7, <1>8, <2>2, <3>3 DEF Unread, Seeded
  <2>3. QED BY <2>1, <2>2
<1>11. Unread(s)'
  BY <1>3, <1>6, <1>7, <1>8, <1>9, <1>10 DEF Unread
<1>12. QED BY <1>2, <1>6, <1>11 DEF Moved

LEMMA AcknowledgeMoves ==
  ASSUME IInv, NEW s \in Slices, Acknowledge(s)  PROVE Moved(s)
<1>1. solver[s].state = "read"
  BY DEF Acknowledge, AcknowledgingStates
<1>2. ~Dormant(s) /\ ~Waiting(s) /\ ~Solving(s) /\ ~Closed(s)
  BY <1>1 DEF Dormant, Waiting, Solving, Closed, Stopped
<1>3. Unread(s)
  BY <1>2, Placed
<1>4. /\ Engaged(s) /\ solver[s].at = Now(s) /\ NoAcksFrom(s, Now(s)) /\ Unsolved(s)
      /\ solver[s].motion = Num(s) /\ solver[s].at \in Steps
  BY <1>1, <1>3, SliceTypes DEF Unread, IInv
<1>5. /\ Now(s) \in Int /\ clock \in Int /\ clock # clock + 1 /\ solver[s].start \in Int
      /\ solver[s].end \in Int /\ solver[s].at \in Int
  BY <1>4, ClockFacts, SliceNumbers
<1>6. /\ UNCHANGED <<mode, clock>> /\ ready'[s] = ready[s] /\ csv'[s] = csv[s]
      /\ forces'[s] = forces[s] /\ dirs'[s] = dirs[s]
      /\ acks'[s] = [acks[s] EXCEPT ![Now(s)] = Num(s)]
      /\ solver'[s] = IF solver[s].at = solver[s].start THEN Onward(solver[s])
                      ELSE [solver[s] EXCEPT !.state = "solving"]
  BY <1>4 DEF Acknowledge, Solver, Alone, driver, Now, Num, IInv, TypeOK
<1>7. /\ Now(s)' = Now(s) /\ Num(s)' = Num(s) /\ OneShot' = OneShot /\ Unsolved(s)'
  BY <1>4, <1>6 DEF Now, Num, OneShot, Unsolved
<1>8. acks'[s][Now(s)] = Num(s) /\ NoAcksFrom(s, Now(s) + 1)'
  <2>1. \A j \in Steps : acks'[s][j] = IF j = Now(s) THEN Num(s) ELSE acks[s][j]
    BY <1>6, SliceTypes DEF IInv
  <2>2. \A j \in Steps : j >= Now(s) + 1 => j >= Now(s) /\ j # Now(s)
    BY <1>5, StepOrder
  <2>3. QED BY <1>4, <1>7, <2>1, <2>2 DEF NoAcksFrom
<1>9. solver[s] \in Solvers
  BY SliceTypes DEF IInv
<1>10. CASE solver[s].at = solver[s].start
  <2>1. Now(s) = clock /\ solver[s].at < solver[s].end /\ solver[s].start = clock
    BY <1>4, <1>5, <1>10 DEF Engaged
  <2>2. /\ solver'[s].state = "waiting" /\ solver'[s].at = Now(s) + 1
        /\ solver'[s].start = solver[s].start /\ solver'[s].end = solver[s].end
        /\ solver'[s].seed = solver[s].seed /\ solver'[s].motion = Num(s)
    BY <1>4, <1>6, <1>9, <1>10, <2>1 DEF Onward, Solvers
  <2>3. Engaged(s)'
    <3>1. Now(s) + 1 <= solver[s].end
      BY <1>4, <1>5, <2>1
    <3>2. QED BY <1>4, <1>6, <1>7, <2>2, <3>1 DEF Engaged
  <2>4. Seeded(s)'
    BY <1>1, <1>3, <1>6, <1>7, <2>1, <2>2 DEF Unread, Seeded
  <2>5. Acked(s)'
    BY <1>7, <1>8, <2>2, <2>4 DEF Acked
  <2>6. Waiting(s)'
    BY <1>6, <1>7, <2>1, <2>2, <2>3, <2>5 DEF Waiting
  <2>7. QED BY <1>2, <2>1, <2>2, <2>6 DEF Moved
<1>11. CASE solver[s].at # solver[s].start
  <2>1. Now(s) = clock + 1 /\ Seeded(s)
    BY <1>3, <1>4, <1>5, <1>11 DEF Unread, Engaged
  <2>2. /\ solver'[s].state = "solving" /\ solver'[s].at = solver[s].at
        /\ solver'[s].start = solver[s].start /\ solver'[s].end = solver[s].end
        /\ solver'[s].seed = solver[s].seed /\ solver'[s].motion = Num(s)
    BY <1>4, <1>6, <1>9, <1>11 DEF Solvers
  <2>3. Engaged(s)'
    BY <1>4, <1>6, <1>7, <2>2 DEF Engaged
  <2>4. Acked(s)'
    BY <1>6, <1>7, <1>8, <2>1, <2>2 DEF Acked, Seeded
  <2>5. Solving(s)'
    BY <1>4, <1>6, <1>7, <2>1, <2>2, <2>3, <2>4 DEF Solving
  <2>6. QED BY <1>2, <2>2, <2>5 DEF Moved
<1>12. QED BY <1>10, <1>11

LEMMA SolveMoves ==
  ASSUME IInv, NEW s \in Slices, Solve(s)  PROVE Moved(s)
<1>1. solver[s].state = "solving"
  BY DEF Solve, Solver
<1>2. ~Dormant(s) /\ ~Waiting(s) /\ ~Unread(s) /\ ~Closed(s)
  BY <1>1 DEF Dormant, Waiting, Unread, Closed, Stopped
<1>3. Solving(s)
  BY <1>2, Placed
<1>4. /\ Engaged(s) /\ Acked(s) /\ Unsolved(s) /\ solver[s].at = Now(s) /\ Now(s) = clock + 1
      /\ solver[s].motion = Num(s)
  BY <1>3 DEF Solving, Acked
<1>5. /\ clock \in Nat /\ clock # clock + 1 /\ solver[s].end \in Int
  BY ClockFacts, SliceNumbers
<1>6. /\ UNCHANGED <<mode, clock>> /\ ready'[s] = ready[s] /\ csv'[s] = csv[s]
      /\ acks'[s] = acks[s] /\ dirs'[s] = dirs[s] \cup {clock + 1}
      /\ forces'[s] = forces[s] \cup {Answering(s)} /\ solver'[s] = Onward(solver[s])
  BY <1>4 DEF Solve, Solver, Alone, driver, Answering, IInv, TypeOK
<1>7. solver[s] \in Solvers
  BY SliceTypes DEF IInv
<1>8. /\ solver'[s].start = solver[s].start /\ solver'[s].end = solver[s].end
      /\ solver'[s].seed = solver[s].seed /\ solver'[s].motion = solver[s].motion
      /\ IF Now(s) < solver[s].end
         THEN solver'[s].state = "waiting" /\ solver'[s].at = Now(s) + 1
         ELSE solver'[s].state = "closing" /\ solver'[s].at = Now(s)
  BY <1>4, <1>6, <1>7 DEF Onward, Solvers
<1>9. /\ Now(s)' = Now(s) /\ Num(s)' = Num(s) /\ OneShot' = OneShot
      /\ Answering(s)' = Answering(s) /\ NoAcksFrom(s, Now(s) + 1)' = NoAcksFrom(s, Now(s) + 1)
  BY <1>6, <1>8 DEF Now, Num, OneShot, Answering, NoAcksFrom
<1>10. Solved(s)'
  <2>1. clock + 1 \in dirs'[s] /\ Answering(s) \in forces'[s]
    BY <1>6
  <2>2. dirs'[s] \subseteq 0 .. clock + 1
    BY <1>4, <1>5, <1>6 DEF Unsolved
  <2>3. \A r \in forces'[s] : r.time <= clock \/ r = Answering(s)
    BY <1>4, <1>6 DEF Unsolved
  <2>4. QED BY <1>6, <1>9, <2>1, <2>2, <2>3 DEF Solved
<1>11. Acked(s)'
  BY <1>4, <1>6, <1>8, <1>9 DEF Acked, Seeded
<1>12. CASE Now(s) < solver[s].end
  <2>1. Now(s) + 1 <= solver[s].end
    BY <1>4, <1>5, <1>12
  <2>2. Engaged(s)'
    BY <1>4, <1>6, <1>8, <1>9, <1>12, <2>1 DEF Engaged
  <2>3. Waiting(s)'
    BY <1>4, <1>5, <1>6, <1>8, <1>9, <1>10, <1>11, <1>12, <2>2 DEF Waiting
  <2>4. QED BY <1>2, <1>8, <1>12, <2>3 DEF Moved, Computing
<1>13. CASE ~(Now(s) < solver[s].end)
  <2>1. Now(s) = solver[s].end
    BY <1>4, <1>5, <1>13 DEF Engaged
  <2>2. Engaged(s)'
    BY <1>4, <1>6, <1>8, <1>9, <1>13 DEF Engaged
  <2>3. Closed(s)'
    BY <1>4, <1>5, <1>6, <1>8, <1>9, <1>10, <1>11, <1>13, <2>1, <2>2 DEF Closed
  <2>4. QED BY <1>2, <1>8, <1>13, <2>3 DEF Moved, Computing
<1>14. QED BY <1>12, <1>13

LEMMA ExitMoves ==
  ASSUME IInv, NEW s \in Slices, Exit(s)  PROVE Moved(s)
<1>1. solver[s].state = "closing" /\ solver'[s] = [solver[s] EXCEPT !.state = "ended"]
  BY DEF Exit, Solver, IInv, TypeOK
<1>2. ~Dormant(s) /\ ~Waiting(s) /\ ~Unread(s) /\ ~Solving(s)
  BY <1>1 DEF Dormant, Waiting, Unread, Solving, Stopped
<1>3. solver[s] \in Solvers
  BY SliceTypes DEF IInv
<1>4. solver'[s].state = "ended" /\ OnlyState(s)
  BY <1>1, <1>3 DEF OnlyState, Exit, Alone, driver, case, Solvers
<1>5. Closed(s) => Closed(s)' /\ Answering(s)' = Answering(s)
  BY <1>4, OnlyStateKeeps DEF OnlyState, Closed
<1>6. QED BY <1>2, <1>4, <1>5 DEF Moved, OnlyState

LEMMA FailMoves ==
  ASSUME IInv, NEW s \in Slices, Crash(s) \/ Hang(s)  PROVE Moved(s)
<1>1. /\ solver[s].state \in Alive /\ blamed'
      /\ \E how \in {"failed", "hung"} : solver'[s] = [solver[s] EXCEPT !.state = how]
  BY DEF Crash, Hang, Fails, Living, IInv, TypeOK
<1>2. ~Dormant(s)
  BY <1>1 DEF Dormant, Alive
<1>3. solver[s] \in Solvers
  BY SliceTypes DEF IInv
<1>4. solver'[s].state \in {"failed", "hung"} /\ OnlyState(s)
  BY <1>1, <1>3 DEF OnlyState, Crash, Hang, Fails, driver, case, Solvers
<1>5. Unread(s) => Unread(s)'
  BY <1>4, OnlyStateKeeps DEF OnlyState, Unread, Stopped
<1>6. /\ Waiting(s) => Waiting(s)'
      /\ Closed(s) => Closed(s)'
      /\ Solving(s) => Solving(s)'
      /\ Answering(s)' = Answering(s)
  BY <1>4, OnlyStateKeeps DEF OnlyState, Waiting, Closed, Solving, Stopped
<1>7. QED BY <1>1, <1>2, <1>4, <1>5, <1>6 DEF Moved, OnlyState, Computing

LEMMA SolverStep ==
  ASSUME IInv, NEW s \in Slices, Compute(s) \/ Crash(s) \/ Hang(s)  PROVE SliceInv(s)'
<1>1. Moved(s)
  BY SeeMoves, ReadMoves, AcknowledgeMoves, SolveMoves, ExitMoves, FailMoves DEF Compute
<1>2. /\ UNCHANGED <<mode, main, phase, stage, clock, bridge, load, csv, ready>>
      /\ (blamed => blamed') /\ solver[s].state \in Alive /\ dirs[s] \subseteq dirs'[s]
  BY SolverFrame
<1>3. BeforeLaunch(s) /\ AfterLaunch(s) /\ AfterLoad(s) /\ Published(s) /\ Accounted(s)
  BY SliceFacts
<1>4. Now(s)' = Now(s) /\ Num(s)' = Num(s) /\ OneShot' = OneShot /\ clock # clock + 1
  BY <1>2, ClockFacts DEF Now, Num, OneShot
<1>5. Published(s)'
  BY <1>2, <1>3, <1>4 DEF Published
<1>6. Accounted(s)'
  <2>1. mode = "pooled" \/ main = "running"
    BY <1>2, <1>3 DEF Accounted, Living
  <2>2. QED BY <1>1, <1>2, <2>1 DEF Accounted, Moved
<1>7. Now(s) = clock => ~Solving(s)'
  BY <1>2, <1>4 DEF Solving
<1>8. BeforeLaunch(s)'
  BY <1>1, <1>2, <1>3, <1>4 DEF BeforeLaunch, Moved
<1>9. AfterLaunch(s)'
  <2>1. Unread(s) => Unread(s)' \/ Computing(s)'
    BY <1>1 DEF Moved, Computing
  <2>2. Computing(s) => Computing(s)'
    BY <1>1 DEF Moved, Computing
  <2>3. CASE stage[s] = "launched"
    BY <1>1, <1>2, <1>3, <1>4, <1>7, <2>3 DEF AfterLaunch, Moved
  <2>4. CASE stage[s] \in {"seeded", "aimed"}
    BY <1>1, <1>2, <1>3, <1>4, <2>4 DEF AfterLaunch, Moved
  <2>5. CASE stage[s] \in {"published", "consumed"}
    BY <1>2, <1>3, <1>4, <2>1, <2>2, <2>5 DEF AfterLaunch
  <2>6. CASE stage[s] \notin {"launched", "seeded", "aimed", "published", "consumed"}
    BY <1>2, <2>6 DEF AfterLaunch
  <2>7. QED BY <2>3, <2>4, <2>5, <2>6
<1>10. AfterLoad(s)'
  <2>1. CASE stage[s] = "loaded" \/ (stage[s] = "finished" /\ ~OneShot)
    BY <1>1, <1>2, <1>3, <1>4, <2>1 DEF AfterLoad, Moved
  <2>2. ~(stage[s] = "finished" /\ OneShot)
    BY <1>2, <1>3 DEF AfterLoad, Alive
  <2>3. CASE stage[s] = "raised"
    <3>1. Unread(s)' \/ Computing(s)'
      BY <1>1, <1>3, <2>3 DEF AfterLoad, Moved, Computing
    <3>2. QED BY <1>2, <1>3, <2>3, <3>1 DEF AfterLoad
  <2>4. CASE stage[s] \notin {"loaded", "finished", "raised"}
    BY <1>2, <2>4 DEF AfterLoad
  <2>5. QED BY <2>1, <2>2, <2>3, <2>4
<1>11. QED BY <1>5, <1>6, <1>8, <1>9, <1>10 DEF SliceInv, FilesInv

LEMMA CallStep ==
  ASSUME IInv, NEW s \in Slices, Call(s) \/ TimesOut(s)  PROVE SliceInv(s)'
  BY SeedCsvStep, SeedReadyStep, LaunchStep, SeedConsumedStep, TargetCsvStep, TargetReadyStep,
     TargetConsumedStep, TakeLoadStep, FinishStep, RaiseStep DEF Call

\* The other slices when one moves.
LEMMA OneSlice ==
  ASSUME IInv, NEW s \in Slices,
         Call(s) \/ TimesOut(s) \/ Compute(s) \/ Crash(s) \/ Hang(s)
  PROVE  \A t \in Slices : SliceInv(t)'
<1>1. /\ UNCHANGED <<mode, clock, main, phase>> /\ (blamed => blamed')
      /\ \A t \in Slices \ {s} : Same(t)
  BY CallFrame, SolverFrame
<1>2. SliceInv(s)'
  BY CallStep, SolverStep
<1>3. ASSUME NEW t \in Slices \ {s}  PROVE SliceInv(t)'
  <2>1. SliceInv(t) /\ Same(t)
    BY <1>1 DEF IInv
  <2>2. QED BY <1>1, <2>1, SliceSame
<1>4. QED BY <1>2, <1>3
-----------------------------------------------------------------------------
\* The main thread's steps.
LEMMA SameSlices ==
  ASSUME IInv, UNCHANGED <<mode, clock, stage, bridge, load, case, solver, blamed>>,
         NEW s \in Slices
  PROVE  BeforeLaunch(s)' /\ AfterLaunch(s)' /\ AfterLoad(s)' /\ Published(s)'
<1>1. BeforeLaunch(s) /\ AfterLaunch(s) /\ AfterLoad(s) /\ Published(s)
  BY SliceFacts
<1>2. Same(s)
  BY DEF Same, case
<1>3. OneShot' = OneShot
  BY DEF OneShot
<1>4. Dormant(s)' = Dormant(s)
  BY <1>2, <1>3, PlacesSame DEF Same, Dormant
<1>5. BeforeLaunch(s)'
  BY <1>1, <1>2, <1>3, <1>4, PlacesSame DEF Same, BeforeLaunch
<1>6. AfterLaunch(s)'
  BY <1>1, <1>2, PlacesSame DEF Same, AfterLaunch
<1>7. AfterLoad(s)'
  BY <1>1, <1>2, <1>3, <1>4, PlacesSame DEF Same, AfterLoad
<1>8. Published(s)'
  BY <1>1, <1>2, PlacesSame DEF Same, Published
<1>9. QED BY <1>5, <1>6, <1>7, <1>8

LEMMA CallsStep ==
  ASSUME IInv, Begin \/ NextCall \/ Commit \/ Close  PROVE \A s \in Slices : SliceInv(s)'
<1> SUFFICES ASSUME NEW s \in Slices  PROVE SliceInv(s)'
  OBVIOUS
<1>1. UNCHANGED <<mode, clock, stage, bridge, load, case, solver, blamed>>
  BY DEF Begin, NextCall, Commit, Close
<1>2. BeforeLaunch(s)' /\ AfterLaunch(s)' /\ AfterLoad(s)' /\ Published(s)'
  BY <1>1, SameSlices
<1>3. Accounted(s) /\ solver'[s] = solver[s]
  BY <1>1, SliceFacts
<1>4. Living(s)' = Living(s)
  BY <1>3 DEF Living
<1>5. CASE Begin \/ NextCall \/ Commit
  <2>1. main = "running" /\ main' = "running"
    BY <1>5 DEF Begin, NextCall, Commit
  <2>2. QED BY <1>1, <1>2, <1>3, <2>1 DEF Accounted, SliceInv, FilesInv
<1>6. CASE Close
  <2>1. main = "stopped" /\ main' = "over" /\ phase' = phase
    BY <1>6 DEF Close
  <2>2. QED BY <1>1, <1>2, <1>3, <1>4, <2>1 DEF Accounted, SliceInv, FilesInv
<1>7. QED BY <1>5, <1>6

LEMMA EndStepStep ==
  ASSUME IInv, EndStep, NEW s \in Slices  PROVE SliceInv(s)'
<1>1. /\ main = "running" /\ clock' = clock + 1 /\ stage[s] = "finished" /\ stage'[s] = "begun"
      /\ UNCHANGED <<mode, main, bridge, load, csv, ready, acks, forces, dirs, solver, blamed>>
  BY DEF EndStep, AllThrough, Goal, case
<1>2. /\ Now(s) = clock + 1 /\ (Waiting(s) \/ Closed(s))
      /\ (OneShot => solver[s].state = "ended")
  BY <1>1, SliceFacts DEF AfterLoad
<1>3. clock \in Nat /\ clock # clock + 1
  BY ClockFacts
<1>4. Solved(s) /\ Engaged(s) /\ Acked(s)
  BY <1>2, <1>3 DEF Waiting, Closed
<1>5. Now(s)' = Now(s) /\ Num(s)' = Num(s) /\ OneShot' = OneShot /\ Now(s)' = clock'
  BY <1>1, <1>2 DEF Now, Num, OneShot
<1>6. Unsolved(s)' /\ clock' \in dirs'[s]
  <2>1. \A r \in forces[s] : r.time <= clock \/ r.time = clock + 1
    BY <1>4 DEF Solved, Answering
  <2>2. \A r \in forces[s] : r.time <= clock + 1
    <3>1. \A r \in forces[s] : r.time \in Int
      BY SliceTypes, StepNumbers DEF IInv, Rows
    <3>2. QED BY <1>3, <2>1, <3>1
  <2>3. QED BY <1>1, <1>4, <2>2 DEF Solved, Unsolved
<1>7. NoAcksFrom(s, clock + 1)'
  BY <1>1, <1>2, <1>4 DEF Acked, NoAcksFrom
<1>8. Dormant(s)' \/ (~OneShot' /\ Now(s)' = clock' /\ (Waiting(s)' \/ Closed(s)'))
  <2>1. CASE OneShot
    BY <1>1, <1>2, <1>5, <1>6, <1>7, <2>1 DEF Dormant
  <2>2. CASE ~OneShot
    <3>1. Engaged(s)'
      <4>1. solver[s].start \in Int /\ solver[s].start <= clock + 1
        BY <1>3, <1>4, SliceNumbers DEF Engaged
      <4>2. QED BY <1>1, <1>4, <1>5, <2>2, <4>1 DEF Engaged
    <3>2. Acked(s)'
      BY <1>1, <1>2, <1>4, <1>5, <2>2 DEF Acked, Seeded, NoAcksFrom
    <3>3. Waiting(s) => Waiting(s)'
      BY <1>1, <1>5, <1>6, <3>1, <3>2 DEF Waiting
    <3>4. Closed(s) => Closed(s)'
      BY <1>1, <1>5, <1>6, <3>1, <3>2 DEF Closed
    <3>5. QED BY <1>2, <1>5, <2>2, <3>3, <3>4
  <2>3. QED BY <2>1, <2>2
<1>9. Published(s)'
  <2>1. Published(s)
    BY SliceFacts
  <2>2. QED BY <1>1, <1>5, <1>6, <2>1 DEF Published
<1>10. Accounted(s)'
  <2>1. Accounted(s)
    BY SliceFacts
  <2>2. QED BY <1>1, <2>1 DEF Accounted, Living
<1>11. BeforeLaunch(s)' /\ AfterLaunch(s)' /\ AfterLoad(s)'
  BY <1>1, <1>8 DEF BeforeLaunch, AfterLaunch, AfterLoad
<1>12. QED BY <1>9, <1>10, <1>11 DEF SliceInv, FilesInv

LEMMA StopStep ==
  ASSUME IInv, Stop, NEW s \in Slices  PROVE SliceInv(s)'
<1>1. /\ main = "running" /\ main' = "stopped"
      /\ UNCHANGED <<mode, phase, stage, clock, bridge, load, csv, ready, acks, forces, dirs,
                     blamed>>
      /\ solver'[s] = IF Living(s) THEN [solver[s] EXCEPT !.state = "killed"] ELSE solver[s]
  BY DEF Stop, KillAll, case
<1>2. BeforeLaunch(s) /\ AfterLaunch(s) /\ AfterLoad(s) /\ Published(s) /\ Accounted(s)
  BY SliceFacts
<1>3. solver[s] \in Solvers
  BY SliceTypes DEF IInv
<1>4. /\ OnlyState(s)
      /\ IF Living(s) THEN solver'[s].state = "killed" ELSE solver'[s].state = solver[s].state
  BY <1>1, <1>3 DEF OnlyState, Solvers
<1>5. blamed \/ phase = "idle"
  <2>1. ASSUME Failed  PROVE blamed
    <3>1. PICK t \in Slices : stage[t] = "raised"
      BY <2>1 DEF Failed
    <3>2. AfterLoad(t)
      BY SliceFacts
    <3>3. QED BY <3>1, <3>2 DEF AfterLoad
  <2>2. QED BY <2>1 DEF Stop
<1>6. /\ Unread(s) => Unread(s)'
      /\ Dormant(s) => Dormant(s)' /\ ~Living(s)
      /\ Waiting(s) => Waiting(s)'
      /\ Solving(s) => Solving(s)'
      /\ Closed(s) => Closed(s)'
  <2>1. Unread(s) => Unread(s)'
    BY <1>1, <1>4, OnlyStateKeeps DEF Unread, Stopped
  <2>2. Dormant(s) => Dormant(s)' /\ ~Living(s)
    BY <1>1, <1>4, OnlyStateKeeps DEF Dormant, Living, Alive
  <2>3. Waiting(s) => Waiting(s)'
    BY <1>1, <1>4, OnlyStateKeeps DEF Waiting, Stopped
  <2>4. Solving(s) => Solving(s)'
    BY <1>1, <1>4, OnlyStateKeeps DEF Solving, Stopped
  <2>5. Closed(s) => Closed(s)'
    BY <1>1, <1>4, OnlyStateKeeps DEF Closed, Stopped
  <2>6. QED BY <2>1, <2>2, <2>3, <2>4, <2>5
<1>7. /\ Now(s)' = Now(s) /\ Num(s)' = Num(s) /\ OneShot' = OneShot
      /\ Answering(s)' = Answering(s) /\ solver'[s].start = solver[s].start
      /\ \A k : NoAcksFrom(s, k)' = NoAcksFrom(s, k)
  BY <1>4, OnlyStateKeeps DEF OnlyState
<1>8. BeforeLaunch(s)'
  BY <1>1, <1>2, <1>6, <1>7 DEF BeforeLaunch
<1>9. Computing(s) => Computing(s)'
  BY <1>6 DEF Computing
<1>10. AfterLaunch(s)'
  BY <1>1, <1>2, <1>6, <1>7, <1>9 DEF AfterLaunch
<1>11. AfterLoad(s)'
  <2>1. solver[s].state = "ended" => solver'[s].state = "ended"
    BY <1>4 DEF Living, Alive
  <2>2. QED BY <1>1, <1>2, <1>6, <1>7, <1>9, <2>1 DEF AfterLoad
<1>12. Published(s)'
  BY <1>1, <1>2, <1>7 DEF Published
<1>13. Accounted(s)'
  BY <1>1, <1>2, <1>4, <1>5 DEF Accounted, Living, Alive
<1>14. QED BY <1>8, <1>10, <1>11, <1>12, <1>13 DEF SliceInv, FilesInv

\* A slice in a fresh case.
Fresh(s) ==
  /\ stage[s] = "begun" /\ bridge[s] = NoMotion /\ ready[s] = NoMotion /\ csv[s] = NoMotion
  /\ acks[s] = [k \in Steps |-> 0] /\ forces[s] = {} /\ dirs[s] = {0, clock}
  /\ solver[s] = NoSolver /\ load[s] = NoRow /\ main = "running"

LEMMA FreshSlice ==
  ASSUME NEW s \in Slices, Fresh(s), clock \in Nat  PROVE SliceInv(s)
<1>1. Now(s) = -1 /\ Num(s) = 0 /\ solver[s].state = "none"
  BY DEF Fresh, NoMotion, NoSolver, Now, Num
<1>2. Unsolved(s)
  BY DEF Fresh, Unsolved
<1>3. NoAcksFrom(s, clock + 1)
  BY DEF Fresh, NoAcksFrom
<1>4. Dormant(s)
  BY <1>1, <1>2, <1>3 DEF Fresh, Dormant
<1>5. Published(s) /\ Accounted(s)
  BY <1>1 DEF Fresh, Published, Accounted, Living, Alive
<1>6. BeforeLaunch(s) /\ AfterLaunch(s) /\ AfterLoad(s)
  BY <1>4 DEF Fresh, BeforeLaunch, AfterLaunch, AfterLoad
<1>7. QED BY <1>5, <1>6 DEF SliceInv, FilesInv

\* The same of the next state.
LEMMA RerunStep ==
  ASSUME IInv, Rerun, NEW s \in Slices  PROVE SliceInv(s)'
<1>1. Fresh(s)'
  BY DEF Rerun, FreshCase, Fresh
<1>2. clock' \in Nat
  BY StepNumbers DEF Rerun, IInv, TypeOK
<1>3. QED
  <2>1. Now(s)' = -1 /\ Num(s)' = 0 /\ solver'[s].state = "none"
    BY <1>1 DEF Fresh, NoMotion, NoSolver, Now, Num
  <2>2. Unsolved(s)'
    BY <1>1, <1>2 DEF Fresh, Unsolved
  <2>3. NoAcksFrom(s, clock + 1)'
    BY <1>1 DEF Fresh, NoAcksFrom
  <2>4. Dormant(s)'
    BY <1>1, <2>1, <2>2, <2>3 DEF Fresh, Dormant
  <2>5. Published(s)' /\ Accounted(s)'
    BY <1>1, <1>2, <2>1 DEF Fresh, Published, Accounted, Living, Alive
  <2>6. BeforeLaunch(s)' /\ AfterLaunch(s)' /\ AfterLoad(s)'
    BY <1>1, <2>4 DEF Fresh, BeforeLaunch, AfterLaunch, AfterLoad
  <2>7. QED BY <2>5, <2>6 DEF SliceInv, FilesInv
-----------------------------------------------------------------------------
\* The phases.
LEMMA PhaseSame ==
  ASSUME NEW s \in Slices, PhaseOf(s), phase' = phase, clock' = clock, stage'[s] = stage[s],
         ready'[s] = ready[s], load'[s] = load[s], dirs[s] \subseteq dirs'[s]
  PROVE  PhaseOf(s)'
  BY DEF PhaseOf, Now

LEMMA PhaseCall ==
  ASSUME IInv, NEW s \in Slices, Call(s) \/ TimesOut(s)  PROVE PhaseOf(s)'
<1> USE DEF RestOfDriver, case
<1>1. PhaseOf(s) /\ UNCHANGED <<phase, clock, dirs>>
  BY CallFrame DEF IInv, PhaseInv
<1>2. ASSUME NEW to, To(s, to)  PROVE stage'[s] = to
  BY <1>2 DEF To, IInv, TypeOK
<1>3. CASE SeedCsv(s) \/ SeedReady(s) \/ Launch(s) \/ SeedConsumed(s) \/ TargetCsv(s)
           \/ TargetReady(s)
  <2>1. phase = "publish" /\ load' = load
    BY <1>3 DEF SeedCsv, SeedReady, Launch, SeedConsumed, TargetCsv, TargetReady, Calling,
                Announce, Acknowledges, Moves
  <2>2. stage'[s] \in {"written", "armed", "launched", "seeded", "aimed", "published", "raised"}
    BY <1>2, <1>3 DEF SeedCsv, SeedReady, Launch, SeedConsumed, TargetCsv, TargetReady,
                      Announce, Acknowledges, Moves
  <2>3. stage[s] # "loaded"
    BY <1>1, <2>1 DEF PhaseOf, Within
  <2>4. QED BY <1>1, <2>1, <2>2, <2>3 DEF PhaseOf, Within
<1>4. CASE TargetConsumed(s)
  <2>1. /\ phase = "consume" /\ load' = load /\ ready' = ready
        /\ stage'[s] \in {"consumed", "raised"}
    BY <1>2, <1>4 DEF TargetConsumed, Calling, Acknowledges, Moves
  <2>2. stage[s] # "loaded"
    BY <1>1, <2>1 DEF PhaseOf, Within
  <2>3. QED BY <1>1, <2>1, <2>2 DEF PhaseOf, Within, Now
<1>5. CASE TakeLoad(s)
  <2>1. phase = "load" /\ ready' = ready /\ stage'[s] = "loaded" /\ load'[s].time = clock + 1
    BY <1>2, <1>5, TakeLoadStep DEF TakeLoad, Calling
  <2>2. QED BY <1>1, <2>1 DEF PhaseOf, Within, Now
<1>6. CASE Finish(s)
  <2>1. /\ phase = "finish" /\ load' = load /\ ready' = ready /\ stage'[s] = "finished"
    BY <1>2, <1>6 DEF Finish, Calling, Moves
  <2>2. QED BY <1>1, <2>1 DEF PhaseOf, Within, Now
<1>7. CASE SeesExit(s) \/ TimesOut(s)
  <2>1. load' = load /\ ready' = ready /\ stage'[s] = "raised" /\ Waits(s)
    BY <1>2, <1>7 DEF SeesExit, TimesOut, Raises
  <2>2. phase \in {"publish", "consume", "load", "finish"}
        /\ (stage[s] = "loaded" => phase = "finish")
    BY <2>1 DEF Waits, At
  <2>3. QED BY <1>1, <2>1, <2>2 DEF PhaseOf, Within, Now
<1>8. QED BY <1>3, <1>4, <1>5, <1>6, <1>7 DEF Call

LEMMA PhaseStep == IInv /\ [Next]_vars => PhaseInv'
<1> SUFFICES ASSUME IInv, [Next]_vars  PROVE PhaseInv'
  OBVIOUS
<1>1. /\ committed = IF phase = "finish" THEN clock + 1 ELSE clock
      /\ phase # "idle" => clock < MaxSteps
      /\ \A s \in Slices : PhaseOf(s)
  BY DEF IInv, PhaseInv
<1>2. SUFFICES /\ committed' = IF phase' = "finish" THEN clock' + 1 ELSE clock'
               /\ phase' # "idle" => clock' < MaxSteps
               /\ \A s \in Slices : PhaseOf(s)'
  BY DEF PhaseInv, PhaseOf
<1>3. CASE UNCHANGED vars
  BY <1>1, <1>3 DEF vars, driver, case, PhaseOf, Now
<1>4. ASSUME NEW s \in Slices, Call(s) \/ TimesOut(s) \/ Compute(s) \/ Crash(s) \/ Hang(s)
      PROVE  /\ UNCHANGED <<committed, phase, clock>>
             /\ \A t \in Slices : PhaseOf(t)'
  <2>1. UNCHANGED <<committed, phase, clock>> /\ \A t \in Slices \ {s} : Same(t)
    BY <1>4, CallFrame, SolverFrame
  <2>2. ASSUME NEW t \in Slices \ {s}  PROVE PhaseOf(t)'
    BY <1>1, <2>1, PhaseSame DEF Same
  <2>3. CASE Call(s) \/ TimesOut(s)
    BY <2>1, <2>2, <2>3, PhaseCall
  <2>4. CASE Compute(s) \/ Crash(s) \/ Hang(s)
    <3>1. UNCHANGED <<phase, stage, clock, load, ready>> /\ dirs[s] \subseteq dirs'[s]
      BY <2>4, SolverFrame
    <3>2. PhaseOf(s)'
      BY <1>1, <3>1, PhaseSame
    <3>3. QED BY <2>1, <2>2, <3>2
  <2>5. QED BY <1>4, <2>3, <2>4
<1>5. CASE Begin
  <2>1. \A s \in Slices : PhaseOf(s)'
    BY <1>1, <1>5 DEF Begin, PhaseOf, Within, Now, case
  <2>2. QED BY <1>1, <1>5, <2>1 DEF Begin
<1>6. CASE NextCall
  <2>1. UNCHANGED <<stage, clock, committed, load, ready, dirs>>
        /\ phase \in {"publish", "consume"} /\ phase' \in {"consume", "load"}
    BY <1>6 DEF NextCall, case
  <2>2. ASSUME NEW s \in Slices  PROVE PhaseOf(s)'
    <3>1. stage[s] = Goal(phase) /\ AfterLaunch(s)
      BY <1>6, SliceFacts DEF NextCall, AllThrough
    <3>2. stage[s] \in {"published", "consumed"} /\ stage[s] \in Within(phase')
      BY <1>6, <3>1 DEF NextCall, Goal, Within
    <3>3. Now(s) = clock + 1
      BY <3>1, <3>2 DEF AfterLaunch
    <3>4. load[s].time <= clock
      BY <1>1, <2>1, <3>2 DEF PhaseOf
    <3>5. QED BY <2>1, <3>2, <3>3, <3>4 DEF PhaseOf, Now
  <2>3. QED BY <1>1, <2>1, <2>2
<1>7. CASE Commit
  <2>1. UNCHANGED <<stage, clock, load, ready, dirs>> /\ committed' = clock + 1
        /\ phase = "load" /\ phase' = "finish"
    BY <1>7 DEF Commit, case
  <2>2. ASSUME NEW s \in Slices  PROVE PhaseOf(s)'
    <3>1. stage[s] = "loaded" /\ AfterLoad(s)
      BY <1>7, <2>1, SliceFacts DEF Commit, AllThrough, Goal
    <3>2. Now(s) = clock + 1 /\ (Waiting(s) \/ Closed(s)) /\ clock # clock + 1
      BY <3>1, ClockFacts DEF AfterLoad
    <3>3. clock + 1 \in dirs[s]
      BY <3>2 DEF Waiting, Closed, Solved
    <3>4. load[s].time = clock + 1
      BY <1>1, <3>1 DEF PhaseOf
    <3>5. QED BY <2>1, <3>1, <3>2, <3>3, <3>4 DEF PhaseOf, Now, Within
  <2>3. QED BY <1>1, <2>1, <2>2
<1>8. CASE EndStep
  <2>1. /\ UNCHANGED <<committed, load>> /\ phase = "finish" /\ phase' = "idle"
        /\ clock' = clock + 1 /\ \A s \in Slices : stage'[s] = "begun"
    BY <1>8 DEF EndStep
  <2>2. clock + 1 <= clock + 1
    BY ClockFacts
  <2>3. \A s \in Slices : PhaseOf(s)'
    BY <1>1, <2>1, <2>2 DEF PhaseOf, Within
  <2>4. QED BY <1>1, <2>1, <2>3
<1>9. CASE Stop \/ Close
  <2>1. UNCHANGED <<phase, stage, clock, committed, load, ready, dirs>>
    BY <1>9 DEF Stop, Close, case
  <2>2. QED BY <1>1, <2>1 DEF PhaseOf, Now
<1>10. CASE Rerun
  <2>1. /\ committed' = committed /\ clock' = committed /\ phase' = "idle"
        /\ \A s \in Slices : stage'[s] = "begun" /\ load'[s] = NoRow
    BY <1>10 DEF Rerun
  <2>2. 0 <= committed
    BY StepNumbers DEF IInv, TypeOK
  <2>3. QED BY <2>1, <2>2 DEF PhaseOf, Within, NoRow
<1>11. QED BY <1>1, <1>3, <1>4, <1>5, <1>6, <1>7, <1>8, <1>9, <1>10 DEF Next, Main
-----------------------------------------------------------------------------
LEMMA Inductive ==
  /\ Init => IInv
  /\ IInv /\ [Next]_vars => IInv'
<1>1. ASSUME Init  PROVE IInv
  <2>1. TypeOK
    <3>1. [k \in Steps |-> 0] \in [Steps -> Nat] /\ {0} \subseteq Steps /\ 0 \in Steps
          /\ 1 \in 1 .. MaxRuns
      BY BoundAssumption DEF Steps
    <3>2. /\ acks \in [Slices -> [Steps -> Nat]] /\ forces \in [Slices -> SUBSET Rows]
          /\ dirs \in [Slices -> SUBSET Steps]
      BY <1>1, <3>1 DEF Init
    <3>3. QED BY <1>1, <3>1, <3>2, FreshTypes DEF Init, TypeOK, Phases, Stages
  <2>2. \A s \in Slices : Fresh(s)
    BY <1>1 DEF Init, Fresh
  <2>3. clock \in Nat
    BY <1>1 DEF Init
  <2>4. \A s \in Slices : SliceInv(s)
    BY <2>2, <2>3, FreshSlice
  <2>5. PhaseInv
    BY <1>1 DEF Init, PhaseInv, PhaseOf, Within, NoRow
  <2>6. QED BY <2>1, <2>4, <2>5 DEF IInv
<1>2. ASSUME IInv, [Next]_vars  PROVE IInv'
  <2>1. TypeOK' /\ PhaseInv'
    BY <1>2, TypeStep, PhaseStep
  <2>2. ASSUME NEW s \in Slices  PROVE SliceInv(s)'
    <3>1. CASE UNCHANGED vars
      <4>1. SliceInv(s) /\ Same(s) /\ UNCHANGED <<mode, clock, main, phase, blamed>>
        BY <1>2, <3>1 DEF IInv, Same, vars, driver, case
      <4>2. QED BY <4>1, SliceSame
    <3>2. CASE \E t \in Slices : Call(t) \/ Compute(t) \/ TimesOut(t) \/ Crash(t) \/ Hang(t)
      BY <1>2, <3>2, OneSlice
    <3>3. CASE Main
      BY <1>2, <3>3, CallsStep, EndStepStep, StopStep DEF Main
    <3>4. CASE Rerun
      BY <1>2, <3>4, RerunStep
    <3>5. QED BY <1>2, <3>1, <3>2, <3>3, <3>4 DEF Next
  <2>3. QED BY <2>1, <2>2 DEF IInv
<1>3. QED BY <1>1, <1>2

\* The invariant: at every stage of every call, where the solver is.
THEOREM SliceInvariant == Spec => []IInv
  BY Inductive, PTL DEF Spec

\* The types of driver, files and processes.
THEOREM SliceTypeCorrect == Spec => []TypeOK
<1>1. IInv => TypeOK
  BY DEF IInv
<1>2. QED BY <1>1, SliceInvariant, PTL

\* An acknowledgement that the driver accepts was written after the solver had
\* read exactly the motion published last.
THEOREM StaleAckNeverAccepted == Spec => []AcceptedIsRead
<1>1. IInv => AcceptedIsRead
  <2> SUFFICES ASSUME IInv, NEW s \in Slices
               PROVE  /\ stage[s] = "seeded" => solver[s].seed = bridge[s].number
                      /\ stage[s] \in {"consumed", "loaded", "finished"}
                           => solver[s].motion = bridge[s].number
    BY DEF AcceptedIsRead
  <2>1. AfterLaunch(s) /\ AfterLoad(s) /\ bridge[s].number = Num(s)
    BY SliceFacts DEF Num
  <2>2. stage[s] = "seeded" => solver[s].seed = Num(s)
    BY <2>1 DEF AfterLaunch, Waiting, Acked, Seeded
  <2>3. stage[s] \in {"consumed", "loaded", "finished"} => solver[s].motion = Num(s)
    BY <2>1 DEF AfterLaunch, AfterLoad, Computing, Waiting, Solving, Closed, Acked
  <2>4. QED BY <2>1, <2>2, <2>3
<1>2. QED BY <1>1, SliceInvariant, PTL

\* A load that the driver takes answers this step's motion, and the solver that
\* computed it was seeded with the motion before.
THEOREM LoadsAnswer == Spec => []LoadAnswersMotion
<1>1. IInv => LoadAnswersMotion
  <2> SUFFICES ASSUME IInv, NEW s \in Slices, stage[s] \in {"loaded", "finished"}
               PROVE  /\ load[s].time = bridge[s].step /\ load[s].motion = bridge[s].number
                      /\ load[s].seed = IF OneShot THEN bridge[s].number - 1 ELSE 1
    BY DEF LoadAnswersMotion
  <2>1. AfterLoad(s) /\ bridge[s].number = Num(s) /\ bridge[s].step = Now(s)
    BY SliceFacts DEF Num, Now
  <2>2. Now(s) = clock + 1 /\ (Waiting(s) \/ Closed(s)) /\ load[s] = Answering(s)
    BY <2>1 DEF AfterLoad
  <2>3. clock + 1 # clock
    BY ClockFacts
  <2>4. Seeded(s)
    BY <2>2 DEF Waiting, Closed, Acked
  <2>5. QED BY <2>1, <2>2, <2>3, <2>4 DEF Answering, Seeded
<1>2. QED BY <1>1, SliceInvariant, PTL

\* The checks of freshness never reject what driver and solver do by themselves.
THEOREM AlarmsAreTrue == Spec => []NoFalseAlarm
<1>1. IInv => NoFalseAlarm
  <2> SUFFICES ASSUME IInv, NEW s \in Slices, stage[s] = "raised"  PROVE blamed
    BY DEF NoFalseAlarm, Failed
  <2>1. AfterLoad(s)
    BY SliceFacts
  <2>2. QED BY <2>1 DEF AfterLoad
<1>2. QED BY <1>1, SliceInvariant, PTL

\* A committed step can be restarted in every slice, and no solver is more than
\* one step ahead of it or starts anywhere else.
THEOREM CommittedContinues == Spec => []ContinuesCommitted
<1>1. IInv => ContinuesCommitted
  <2> SUFFICES ASSUME IInv, NEW s \in Slices
               PROVE  /\ committed \in dirs[s] /\ dirs[s] \subseteq 0 .. committed + 1
                      /\ stage[s] \in {"launched", "seeded"} => solver[s].start = committed
    BY DEF ContinuesCommitted
  <2>1. /\ committed = IF phase = "finish" THEN clock + 1 ELSE clock
        /\ PhaseOf(s) /\ clock \in Nat
    BY ClockFacts DEF IInv, PhaseInv
  <2>2. committed \in dirs[s]
    BY <2>1, SliceFacts DEF PhaseOf, Published
  <2>3. dirs[s] \subseteq 0 .. clock + 1
    <3>1. Unsolved(s) \/ Solved(s)
      BY Placed DEF Dormant, Unread, Waiting, Solving, Closed
    <3>2. QED BY <2>1, <3>1 DEF Unsolved, Solved
  <2>4. stage[s] \in {"launched", "seeded"} => solver[s].start = committed
    <3>1. AfterLaunch(s)
      BY SliceFacts
    <3>2. stage[s] \in {"launched", "seeded"} => phase # "finish"
      BY <2>1 DEF PhaseOf, Within
    <3>3. QED BY <2>1, <3>1, <3>2 DEF AfterLaunch
  <2>5. QED BY <2>1, <2>2, <2>3, <2>4
<1>2. QED BY <1>1, SliceInvariant, PTL

\* A run that is over leaves no solver behind, but for threads of a kept pool.
THEOREM RunsEndClean == Spec => []CleanExit
<1>1. IInv => CleanExit
  <2> SUFFICES ASSUME IInv, mode # "pooled", main = "over", NEW s \in Slices  PROVE ~Living(s)
    BY DEF CleanExit, Clean
  <2>1. Accounted(s)
    BY SliceFacts
  <2>2. QED BY <2>1 DEF Accounted
<1>2. QED BY <1>1, SliceInvariant, PTL
-----------------------------------------------------------------------------
Asked(s)    == SinceCommit(bridge[s].step)
Answered(s) == SinceCommit(load[s].time)

LEMMA ExchangeStutters ==
  ASSUME committed' = committed,
         \A s \in Slices : Asked(s)' = Asked(s) /\ Answered(s)' = Answered(s)
  PROVE  UNCHANGED Exchange!vars
<1>1. /\ [s \in Slices |-> Asked(s)]' = [s \in Slices |-> Asked(s)]
      /\ [s \in Slices |-> Answered(s)]' = [s \in Slices |-> Answered(s)]
  OBVIOUS
<1>2. QED BY <1>1 DEF Exchange!vars, Asked, Answered

\* What is asked and answered in a phase.
LEMMA ExchangeFacts ==
  ASSUME IInv, NEW s \in Slices
  PROVE  /\ phase = "publish" /\ Now(s) \in {-1, clock} => Asked(s) = committed
         /\ phase \in {"load", "consume", "finish"} => Asked(s) = clock + 1
         /\ phase \in {"load", "publish"} /\ stage[s] # "loaded" => Answered(s) = committed
         /\ phase = "load" /\ stage[s] = "loaded" => Answered(s) = clock + 1
<1>1. /\ committed = IF phase = "finish" THEN clock + 1 ELSE clock
      /\ PhaseOf(s) /\ bridge[s].step = Now(s)
  BY SliceFacts DEF IInv, PhaseInv, Now
<1>2. clock \in Nat /\ load[s].time \in Int
  <2>1. load[s].time \in Steps
    BY SliceTypes DEF IInv, Rows
  <2>2. QED BY <2>1, ClockFacts, BoundAssumption DEF Steps
<1>3. phase = "publish" /\ Now(s) \in {-1, clock} => Asked(s) = committed
  BY <1>1, <1>2 DEF Asked, SinceCommit
<1>4. phase \in {"load", "consume", "finish"} => Asked(s) = clock + 1
  BY <1>1, <1>2 DEF Asked, SinceCommit, PhaseOf
<1>5. phase \in {"load", "publish"} /\ stage[s] # "loaded" => Answered(s) = committed
  BY <1>1, <1>2 DEF Answered, SinceCommit, PhaseOf
<1>6. phase = "load" /\ stage[s] = "loaded" => Answered(s) = clock + 1
  BY <1>1, <1>2 DEF Answered, SinceCommit, PhaseOf
<1>7. QED BY <1>3, <1>4, <1>5, <1>6

\* A publication: of the seed, which the exchange does not see, or of a motion.
LEMMA ExchangeSeed ==
  ASSUME IInv, NEW s \in Slices, SeedReady(s)  PROVE UNCHANGED Exchange!vars
<1>1. /\ phase = "publish" /\ stage[s] = "written" /\ UNCHANGED <<committed, load>>
      /\ bridge'[s] = csv[s] /\ \A t \in Slices \ {s} : bridge'[t] = bridge[t]
  BY DEF SeedReady, Calling, Announce, At, RestOfDriver, IInv, TypeOK
<1>2. csv[s].step = clock /\ Now(s) \in {-1, clock}
  <2>1. BeforeLaunch(s)
    BY SliceFacts
  <2>2. QED BY <1>1, <2>1 DEF BeforeLaunch, Dormant
<1>3. committed = clock /\ clock \in Nat
  BY <1>1, ClockFacts DEF IInv, PhaseInv
<1>4. Asked(s)' = committed
  BY <1>1, <1>2, <1>3 DEF Asked, SinceCommit
<1>5. Asked(s)' = Asked(s)
  BY <1>1, <1>2, <1>4, ExchangeFacts
<1>6. \A t \in Slices : Asked(t)' = Asked(t) /\ Answered(t)' = Answered(t)
  BY <1>1, <1>5 DEF Asked, Answered, SinceCommit
<1>7. QED BY <1>1, <1>6, ExchangeStutters

LEMMA ExchangeAsk ==
  ASSUME IInv, NEW s \in Slices, TargetReady(s)  PROVE Exchange!Ask(s)
<1>1. /\ phase = "publish" /\ stage[s] = "aimed" /\ UNCHANGED <<committed, load>>
      /\ bridge'[s] = csv[s] /\ \A t \in Slices \ {s} : bridge'[t] = bridge[t]
  BY DEF TargetReady, Calling, Announce, At, RestOfDriver, IInv, TypeOK
<1>2. csv[s].step = clock + 1 /\ Now(s) = clock
  <2>1. AfterLaunch(s)
    BY SliceFacts
  <2>2. QED BY <1>1, <2>1 DEF AfterLaunch
<1>3. committed = clock /\ clock \in Nat
  BY <1>1, ClockFacts DEF IInv, PhaseInv
<1>4. Asked(s)' = committed + 1
  BY <1>1, <1>2, <1>3 DEF Asked, SinceCommit
<1>5. Asked(s) = committed
  BY <1>1, <1>2, ExchangeFacts
<1>6. \A t \in Slices : Answered(t)' = Answered(t) /\ (t # s => Asked(t)' = Asked(t))
  BY <1>1 DEF Asked, Answered, SinceCommit
<1>7. [t \in Slices |-> Asked(t)]' = [[t \in Slices |-> Asked(t)] EXCEPT ![s] = committed + 1]
  BY <1>4, <1>6
<1>8. [t \in Slices |-> Answered(t)]' = [t \in Slices |-> Answered(t)]
  BY <1>6
<1>9. QED BY <1>1, <1>5, <1>7, <1>8 DEF Exchange!Ask, Asked, Answered

LEMMA ExchangeAnswer ==
  ASSUME IInv, NEW s \in Slices, TakeLoad(s)  PROVE Exchange!Answer(s)
<1>1. /\ phase = "load" /\ stage[s] = "consumed" /\ UNCHANGED <<committed, bridge>>
      /\ load'[s].time = clock + 1 /\ \A t \in Slices \ {s} : load'[t] = load[t]
  <2>1. load'[s].time = clock + 1
    BY TakeLoadStep
  <2>2. QED BY <2>1 DEF TakeLoad, Calling, At, RestOfDriver, IInv, TypeOK
<1>2. committed = clock /\ clock \in Nat
  BY <1>1, ClockFacts DEF IInv, PhaseInv
<1>3. Answered(s)' = committed + 1
  BY <1>1, <1>2 DEF Answered, SinceCommit
<1>4. Answered(s) = committed /\ \A t \in Slices : Asked(t) = committed + 1
  BY <1>1, <1>2, ExchangeFacts
<1>5. \A t \in Slices : Asked(t)' = Asked(t) /\ (t # s => Answered(t)' = Answered(t))
  BY <1>1 DEF Asked, Answered, SinceCommit
<1>6. [t \in Slices |-> Answered(t)]' = [[t \in Slices |-> Answered(t)] EXCEPT ![s] = Asked(s)]
  BY <1>3, <1>4, <1>5
<1>7. [t \in Slices |-> Asked(t)]' = [t \in Slices |-> Asked(t)]
  BY <1>5
<1>8. QED BY <1>1, <1>4, <1>6, <1>7 DEF Exchange!Answer, Asked, Answered

LEMMA ExchangeCommit ==
  ASSUME IInv, Commit  PROVE Exchange!Commit
<1>1. /\ phase = "load" /\ committed' = clock + 1 /\ UNCHANGED <<bridge, load>>
      /\ \A s \in Slices : stage[s] = "loaded"
  BY DEF Commit, AllThrough, Goal
<1>2. committed = clock /\ clock \in Nat
  BY <1>1, ClockFacts DEF IInv, PhaseInv
<1>3. \A s \in Slices : Answered(s) = clock + 1 /\ Asked(s) = clock + 1
  BY <1>1, ExchangeFacts
<1>4. \A s \in Slices : bridge[s].step = clock + 1 /\ load[s].time = clock + 1
  <2>1. ASSUME NEW s \in Slices  PROVE PhaseOf(s) /\ bridge[s].step = Now(s)
    BY SliceFacts DEF IInv, PhaseInv, Now
  <2>2. QED BY <1>1, <2>1 DEF PhaseOf
<1>5. \A s \in Slices : Answered(s)' = clock + 1 /\ Asked(s)' = clock + 1
  BY <1>1, <1>2, <1>4 DEF Asked, Answered, SinceCommit
<1>6. [s \in Slices |-> Answered(s)]' = [s \in Slices |-> Answered(s)]
  BY <1>3, <1>5
<1>7. [s \in Slices |-> Asked(s)]' = [s \in Slices |-> Asked(s)]
  BY <1>3, <1>5
<1>8. QED BY <1>1, <1>2, <1>3, <1>6, <1>7 DEF Exchange!Commit, Asked, Answered

LEMMA ExchangeRestart ==
  ASSUME IInv, Rerun  PROVE Exchange!Restart
<1>1. /\ committed' = committed
      /\ \A s \in Slices : bridge'[s] = NoMotion /\ load'[s] = NoRow
  BY DEF Rerun
<1>2. committed \in Nat
  BY StepNumbers DEF IInv, TypeOK
<1>3. \A s \in Slices : Answered(s)' = committed /\ Asked(s)' = committed
  BY <1>1, <1>2 DEF Asked, Answered, SinceCommit, NoMotion, NoRow
<1>4. [s \in Slices |-> Answered(s)]' = [s \in Slices |-> committed]
  BY <1>3
<1>5. [s \in Slices |-> Asked(s)]' = [s \in Slices |-> committed]
  BY <1>3
<1>6. QED BY <1>1, <1>4, <1>5 DEF Exchange!Restart, Asked, Answered

LEMMA ExchangeStep ==
  IInv /\ [Next]_vars => [Exchange!Next]_(Exchange!vars)
<1> SUFFICES ASSUME IInv, [Next]_vars  PROVE Exchange!Next \/ UNCHANGED Exchange!vars
  OBVIOUS
<1>1. ASSUME UNCHANGED <<committed, bridge, load>>  PROVE UNCHANGED Exchange!vars
  BY <1>1, ExchangeStutters DEF Asked, Answered, SinceCommit
<1>2. CASE UNCHANGED vars
  BY <1>1, <1>2 DEF vars, driver
<1>3. ASSUME NEW s \in Slices, Call(s) \/ TimesOut(s) \/ Compute(s) \/ Crash(s) \/ Hang(s)
      PROVE  Exchange!Next \/ UNCHANGED Exchange!vars
  <2>1. CASE SeedReady(s)
    BY <2>1, ExchangeSeed
  <2>2. CASE TargetReady(s)
    BY <2>2, ExchangeAsk DEF Exchange!Next
  <2>3. CASE TakeLoad(s)
    BY <2>3, ExchangeAnswer DEF Exchange!Next
  <2>4. CASE SeedCsv(s) \/ Launch(s) \/ SeedConsumed(s) \/ TargetCsv(s) \/ TargetConsumed(s)
             \/ Finish(s) \/ SeesExit(s) \/ TimesOut(s)
    <3>1. UNCHANGED <<committed, bridge, load>>
      BY <2>4 DEF SeedCsv, Launch, SeedConsumed, TargetCsv, TargetConsumed, Finish, SeesExit,
                  TimesOut, Acknowledges, Moves, Raises, RestOfDriver
    <3>2. QED BY <1>1, <3>1
  <2>5. CASE Compute(s) \/ Crash(s) \/ Hang(s)
    BY <1>1, <2>5, SolverFrame
  <2>6. QED BY <1>3, <2>1, <2>2, <2>3, <2>4, <2>5 DEF Call
<1>4. CASE Begin \/ NextCall \/ EndStep \/ Stop \/ Close
  BY <1>1, <1>4 DEF Begin, NextCall, EndStep, Stop, Close
<1>5. CASE Commit
  BY <1>5, ExchangeCommit DEF Exchange!Next
<1>6. CASE Rerun
  BY <1>6, ExchangeRestart DEF Exchange!Next
<1>7. QED BY <1>2, <1>3, <1>4, <1>5, <1>6 DEF Next, Main

\* The files and processes do what a coupled step asks of its slices, for every
\* engine, every number of slices and steps, and all faults.
THEOREM ExchangeImplemented == Spec => ImplementsExchange
<1>1. Init => Exchange!Init
  BY DEF Init, Exchange!Init, SinceCommit, NoMotion, NoRow
<1>2. QED BY <1>1, ExchangeStep, SliceInvariant, PTL DEF Spec, ImplementsExchange, Exchange!Spec
\* Every step of the exchange keeps its slices in lockstep.
LEMMA ExchangeLockstep ==
  ASSUME TypeOK, Exchange!Lockstep, [Exchange!Next]_(Exchange!vars)
  PROVE  Exchange!Lockstep'
<1> DEFINE asked    == [s \in Slices |-> Asked(s)]
           answered == [s \in Slices |-> Answered(s)]
           Locked(d, a, b) == \A s \in Slices :
             /\ a[s] \in {d, d + 1} /\ b[s] \in {d, a[s]}
             /\ b[s] # d => \A t \in Slices : a[t] = d + 1
<1>1. committed \in Nat
  BY BoundAssumption DEF TypeOK, Steps
<1>2. /\ Exchange!Lockstep <=> Locked(committed, asked, answered)
      /\ Exchange!Lockstep' <=> Locked(committed', asked', answered')
  BY DEF Exchange!Lockstep, Asked, Answered
<1>3. ASSUME NEW s \in Slices, Exchange!Ask(s)
      PROVE  Locked(committed', asked', answered')
  <2>1. /\ asked[s] = committed /\ asked' = [asked EXCEPT ![s] = committed + 1]
        /\ committed' = committed /\ answered' = answered
    BY <1>3 DEF Exchange!Ask, Asked, Answered
  <2> HIDE DEF asked, answered
  <2>2. QED BY <1>1, <1>2, <2>1
<1>4. ASSUME NEW s \in Slices, Exchange!Answer(s)
      PROVE  Locked(committed', asked', answered')
  <2>1. /\ \A t \in Slices : asked[t] = committed + 1
        /\ answered[s] = committed /\ answered' = [answered EXCEPT ![s] = asked[s]]
        /\ committed' = committed /\ asked' = asked
    BY <1>4 DEF Exchange!Answer, Asked, Answered
  <2> HIDE DEF asked, answered
  <2>2. \A t \in Slices : answered'[t] \in {answered[t], asked[t]}
    BY <2>1
  <2>3. QED BY <1>1, <1>2, <2>1, <2>2
<1>5. CASE Exchange!Commit
  <2>1. /\ \A t \in Slices : answered[t] = committed + 1
        /\ committed' = committed + 1 /\ asked' = asked /\ answered' = answered
    BY <1>5 DEF Exchange!Commit, Asked, Answered
  <2> HIDE DEF asked, answered
  <2>2. QED BY <1>1, <1>2, <2>1
<1>6. CASE Exchange!Restart
  <2>1. /\ asked' = [t \in Slices |-> committed] /\ answered' = [t \in Slices |-> committed]
        /\ committed' = committed
    BY <1>6 DEF Exchange!Restart, Asked, Answered
  <2> HIDE DEF asked, answered
  <2>2. QED BY <1>1, <1>2, <2>1
<1>7. CASE UNCHANGED Exchange!vars
  BY <1>2, <1>7 DEF Exchange!vars, Asked, Answered
<1>8. QED BY <1>2, <1>3, <1>4, <1>5, <1>6, <1>7 DEF Exchange!Next

(***************************************************************************)
(* What every engine inherits of the exchange: no slice is more than one   *)
(* step ahead of the committed ones, and no load is taken anywhere before  *)
(* every slice has its motion, whether slices are served in turn, in       *)
(* threads or by a pool that runs on after an exception.                   *)
(***************************************************************************)
THEOREM SlicesInLockstep == Spec => []Exchange!Lockstep
<1>1. Exchange!Init => Exchange!Lockstep
  BY DEF Exchange!Init, Exchange!Lockstep
<1>2. QED BY <1>1, ExchangeLockstep, SliceTypeCorrect, ExchangeImplemented, PTL
          DEF ImplementsExchange, Exchange!Spec
-----------------------------------------------------------------------------
(* Which solvers may be left behind.                                       *)

\* Once the main thread has stopped, only a call of publish_motion that a kept
\* pool runs on with has a living solver.
LeftBehind(s) == Living(s) => mode = "pooled" /\ phase = "publish"

StoppedInv == main # "running" => (Failed \/ phase = "idle") /\ \A s \in Slices : LeftBehind(s)

LEMMA StoppedStep == TypeOK /\ StoppedInv /\ [Next]_vars => StoppedInv'
<1> SUFFICES ASSUME TypeOK, StoppedInv, [Next]_vars, main' # "running"  PROVE StoppedInv'
  BY DEF StoppedInv
<1> USE DEF StoppedInv, LeftBehind
<1>1. ASSUME NEW s \in Slices, Compute(s) \/ Crash(s) \/ Hang(s)  PROVE StoppedInv'
  <2>1. UNCHANGED driver
    BY <1>1 DEF Compute, See, Read, Acknowledge, Solve, Exit, Crash, Hang, Fails, Alone
  <2>2. ASSUME NEW t \in Slices, Living(t)'  PROVE Living(t)
    BY <1>1, <2>2 DEF Compute, See, Read, Acknowledge, Solve, Exit, Crash, Hang, Fails, Solver,
       Living, Alive, TypeOK, Solvers, Onward, AcknowledgingStates
  <2>3. QED BY <2>1, <2>2 DEF driver, Failed
<1>2. ASSUME NEW s \in Slices, Call(s) \/ TimesOut(s)  PROVE StoppedInv'
  <2>1. UNCHANGED <<mode, main, phase>> /\ (Failed => Failed')
    BY <1>2 DEF Call, SeedCsv, SeedReady, Launch, SeedConsumed, TargetCsv, TargetReady,
       TargetConsumed, TakeLoad, Finish, SeesExit, TimesOut, Announce, Acknowledges, Moves,
       Raises, RestOfDriver, At, To, Failed, TypeOK
  <2>2. CASE Launch(s)
    <3>1. mode = "pooled" /\ phase = "publish"
      BY <2>1, <2>2 DEF Launch, Calling
    <3>2. QED BY <2>1, <3>1
  <2>3. CASE solver' = solver
    BY <2>1, <2>3 DEF Living
  <2>4. QED
    BY <1>2, <2>2, <2>3 DEF Call, SeedCsv, SeedReady, SeedConsumed, TargetCsv, TargetReady,
       TargetConsumed, TakeLoad, Finish, SeesExit, TimesOut, Announce, Acknowledges, Moves, Raises
<1>3. CASE Begin \/ NextCall \/ Commit \/ EndStep \/ Rerun
  BY <1>3 DEF Begin, NextCall, Commit, EndStep, Rerun
<1>4. CASE Stop
  <2>1. (Failed \/ phase = "idle") /\ UNCHANGED <<stage, phase>>
    BY <1>4 DEF Stop
  <2>2. ASSUME NEW s \in Slices  PROVE ~Living(s)'
    BY <1>4 DEF Stop, KillAll, Living, Alive, TypeOK, Solvers
  <2>3. QED BY <2>1, <2>2 DEF Failed
<1>5. CASE Close \/ UNCHANGED vars
  BY <1>5 DEF Close, vars, driver, Failed, Living
<1>6. QED BY <1>1, <1>2, <1>3, <1>4, <1>5 DEF Next, Main

(***************************************************************************)
(* A run that is over leaves a solver behind in one way only: a slice's    *)
(* call failed, and a call of publish_motion that the kept pool went on    *)
(* with launched it after the processes were stopped.                      *)
(***************************************************************************)
THEOREM OnlyLateLaunchesRemain ==
  Spec => [](main = "over" => \A s \in Slices : Living(s) =>
               mode = "pooled" /\ phase = "publish" /\ Failed /\ blamed)
<1>1. Init => StoppedInv
  BY DEF Init, StoppedInv
<1>2. StoppedInv /\ NoFalseAlarm =>
        (main = "over" => \A s \in Slices : Living(s) =>
           mode = "pooled" /\ phase = "publish" /\ Failed /\ blamed)
  BY DEF StoppedInv, LeftBehind, NoFalseAlarm
<1>3. QED BY <1>1, <1>2, StoppedStep, SliceTypeCorrect, AlarmsAreTrue, PTL DEF Spec

\* Without faults nothing is blamed, and no solver hangs that a deadline waits for.
Blameless == ~blamed /\ \A s \in Slices : solver[s].state # "hung"

LEMMA BlamelessStep ==
  ASSUME Faults = {}, TypeOK, Blameless, [Next]_vars
  PROVE  Blameless'
<1> USE DEF Blameless
<1>1. ASSUME NEW s \in Slices, Compute(s)  PROVE Blameless'
  <2>1. UNCHANGED blamed /\ \A t \in Slices : t # s => solver'[t] = solver[t]
    BY <1>1 DEF Compute, See, Read, Acknowledge, Solve, Exit, Alone, Solver, TypeOK
  <2>2. solver'[s].state # "hung"
    <3>1. solver[s] \in Solvers
      BY DEF TypeOK
    <3>2. Onward(solver[s]).state \in {"waiting", "closing"}
      BY <3>1 DEF Onward, Solvers
    <3>3. ASSUME NEW state, NEW number, NEW seed
          PROVE  /\ [solver[s] EXCEPT !.state = state].state = state
                 /\ [solver[s] EXCEPT !.state = state, !.motion = number, !.seed = seed].state
                      = state
      BY <3>1 DEF Solvers
    <3>4. CASE See(s)
      <4>1. PICK state \in {"matched", "failed"} :
              solver'[s] = [solver[s] EXCEPT !.state = state]
        BY <3>4 DEF See, Solver, TypeOK
      <4>2. QED BY <3>3, <4>1
    <3>5. CASE Read(s)
      BY <3>1, <3>3, <3>5 DEF Read, Solver, TypeOK
    <3>6. CASE Acknowledge(s) \/ Solve(s) \/ Exit(s)
      BY <3>1, <3>2, <3>6 DEF Acknowledge, Solve, Exit, Solver, TypeOK, Solvers
    <3>7. QED BY <1>1, <3>4, <3>5, <3>6 DEF Compute
  <2>3. QED BY <2>1, <2>2
<1>2. ASSUME NEW s \in Slices, Call(s)  PROVE Blameless'
  BY <1>2 DEF Call, SeedCsv, SeedReady, Launch, SeedConsumed, TargetCsv, TargetReady,
     TargetConsumed, TakeLoad, Finish, SeesExit, Announce, Acknowledges, Moves, Raises, TypeOK
<1>3. ASSUME NEW s \in Slices, TimesOut(s) \/ Crash(s) \/ Hang(s)  PROVE FALSE
  BY <1>3 DEF TimesOut, Crash, Hang
<1>4. CASE Begin \/ NextCall \/ Commit \/ EndStep \/ Close \/ UNCHANGED vars
  BY <1>4 DEF Begin, NextCall, Commit, EndStep, Close, vars
<1>5. CASE Stop
  <2>1. UNCHANGED blamed
    BY <1>5 DEF Stop
  <2>2. ASSUME NEW t \in Slices  PROVE solver'[t].state # "hung"
    BY <1>5 DEF Stop, KillAll, TypeOK, Solvers
  <2>3. QED BY <2>1, <2>2
<1>6. CASE Rerun
  BY <1>6 DEF Rerun, NoSolver
<1>7. QED BY <1>1, <1>2, <1>3, <1>4, <1>5, <1>6 DEF Next, Main

(***************************************************************************)
(* Where no solver fails or hangs and no deadline passes, every run of     *)
(* every engine ends clean, that of the kept pool too.                     *)
(***************************************************************************)
THEOREM FaultlessRunsEndClean ==
  ASSUME Faults = {}  PROVE Spec => []Clean
<1>1. Init => Blameless
  BY DEF Init, Blameless, NoSolver
<1>2. TypeOK /\ Blameless /\ [Next]_vars => Blameless'
  BY BlamelessStep
<1>3. (main = "over" => \A s \in Slices : Living(s) =>
         mode = "pooled" /\ phase = "publish" /\ Failed /\ blamed) /\ Blameless => Clean
  BY DEF Clean, Blameless
<1>4. QED BY <1>1, <1>2, <1>3, OnlyLateLaunchesRemain, SliceTypeCorrect, PTL DEF Spec
==============================================================================
