---------------------------- MODULE OpenFoamSlice ----------------------------
(***************************************************************************)
(* The slices' OpenFOAM processes behind the scheduler's slice calls: the  *)
(* adapter OpenFOAMSliceProcess, its subclasses with a process limiter and *)
(* with one persistent process per segment, and the solver's motion        *)
(* function ancfFileMotion.  Driver and solver share a case directory:     *)
(* motion.csv and motion_ready go one way, the acknowledgement             *)
(* motion_consumed_<k> and the rows of forces.dat the other.               *)
(*                                                                         *)
(* Simplifications.  A modification time is the number of the motion that  *)
(* was published last: only its order to publications is ever compared.    *)
(* A motion is its step and its number; positions, hashes and the formal   *)
(* exchange files are left out, and so are the rewrites of controlDict,    *)
(* log files and the staging of a case in WSL.  A solver's row of forces   *)
(* is written after the fields of its time, as OpenFOAM's function objects *)
(* do; both appear at once.  A persistent engine counts the steps of a     *)
(* fresh case from zero, here they count on.                               *)
(***************************************************************************)
EXTENDS Integers, FiniteSets

CONSTANTS SliceCount,    \* the slices are 1..SliceCount
          MaxSteps,      \* bound: the steps of the campaign, the segment's end
          MaxRuns,       \* bound: runs, each but the first from a checkpoint
          MaxProcesses,  \* the process limiter's permits
          Modes,         \* the engines looked at (AllModes below)
          Faults         \* what may go wrong (AllFaults below)

AllModes ==
  {"oneshot",     \* a solver per step and slice, slices one after another
   "limited",     \* the same under a process limiter
   "persistent",  \* a solver per slice, slices in parallel
   "pooled"}      \* the same with reuse_parallel_executor
AllFaults ==
  {"crash",  \* a solver exits with an error, be it that a motion comes too late
   "hang",   \* a solver makes no more progress
   "slow"}   \* the driver stops waiting for a solver that is still at work

ASSUME BoundAssumption == /\ SliceCount \in Nat \ {0} /\ MaxSteps \in Nat \ {0}
                          /\ MaxRuns \in Nat \ {0} /\ MaxProcesses \in Nat \ {0}
ASSUME ChoiceAssumption == Modes \subseteq AllModes /\ Faults \subseteq AllFaults

Slices == 1 .. SliceCount
Steps  == 0 .. MaxSteps

VARIABLES
  mode,       \* which engine
  run,        \* the number of this run
  main,       \* the driver's main thread: "running", "stopped" or "over"
  phase,      \* which slice call it is making
  stage,      \* per slice: how far its call has come
  clock,      \* current_clock_step
  committed,  \* the steps whose checkpoint is committed
  bridge,     \* per slice: last_bridge, the motion published last
  load,       \* per slice: the row of forces taken
  csv,        \* motion.csv
  ready,      \* motion_ready
  acks,       \* motion_consumed_<k>: modification time, 0 if there is none
  forces,     \* the rows of forces.dat
  dirs,       \* the time directories
  solver,     \* the solver process
  blamed      \* something outside the protocol has gone wrong in this run

driver == <<mode, run, main, phase, stage, clock, committed, bridge, load>>
case   == <<csv, ready, acks, forces, dirs>>
vars   == <<driver, case, solver, blamed>>

Phases  == {"idle", "publish", "consume", "load", "finish"}
Stages  == {"begun", "written", "armed", "launched", "seeded", "aimed",
            "published", "consumed", "loaded", "finished", "raised"}
Motions == [step : Steps \cup {-1}, number : Nat]
Rows    == [start : Steps, time : Steps, seed : Nat, motion : Nat]
\* A solver waits for a motion_ready of its step, has seen it, has read
\* motion.csv, computes a time step, has written the last one.
Alive   == {"waiting", "matched", "read", "solving", "closing", "hung"}
Solvers == [state : Alive \cup {"none", "ended", "failed", "killed"},
            start : Steps, end : Steps, at : Steps, seed : Nat, motion : Nat]

NoMotion == [step |-> -1, number |-> 0]
NoRow    == [start |-> 0, time |-> 0, seed |-> 0, motion |-> 0]
NoSolver == [state |-> "none", start |-> 0, end |-> 0, at |-> 0, seed |-> 0, motion |-> 0]

\* A fresh case: its skeleton, and the files the checkpoint lists.
FreshCase(step) ==
  /\ csv' = [s \in Slices |-> NoMotion] /\ ready' = [s \in Slices |-> NoMotion]
  /\ acks' = [s \in Slices |-> [k \in Steps |-> 0]] /\ forces' = [s \in Slices |-> {}]
  /\ dirs' = [s \in Slices |-> {0, step}]

Init ==
  /\ mode \in Modes /\ run = 1 /\ main = "running" /\ phase = "idle"
  /\ stage = [s \in Slices |-> "begun"] /\ clock = 0 /\ committed = 0
  /\ bridge = [s \in Slices |-> NoMotion] /\ load = [s \in Slices |-> NoRow]
  /\ csv = [s \in Slices |-> NoMotion] /\ ready = [s \in Slices |-> NoMotion]
  /\ acks = [s \in Slices |-> [k \in Steps |-> 0]] /\ forces = [s \in Slices |-> {}]
  /\ dirs = [s \in Slices |-> {0}]
  /\ solver = [s \in Slices |-> NoSolver] /\ blamed = FALSE
-----------------------------------------------------------------------------
(* The driver's calls.  Slices are served in turn or by a thread each; a   *)
(* call that raises ends the run, but not the threads that already run.    *)

OneShot   == mode \in {"oneshot", "limited"}
Failed    == \E s \in Slices : stage[s] = "raised"
Living(s) == solver[s].state \in Alive
Exited(s) == solver[s].state \in {"failed", "killed"}

Goal(p) == CASE p = "publish" -> "published" [] p = "consume" -> "consumed"
             [] p = "load" -> "loaded"       [] p = "finish" -> "finished"
             [] OTHER -> "begun"

Over(s) == stage[s] \in {Goal(phase), "raised"}

\* Slices before s are through with this call.
Turn(s) == \A t \in 1 .. s - 1 : stage[t] = Goal(phase)

Calling(s, p) ==
  /\ phase = p
  /\ main = "running" \/ (main = "stopped" /\ mode = "pooled" /\ p # "finish")
  /\ OneShot \/ p = "finish" => ~Failed /\ Turn(s)

At(s, from) == stage[s] = from
To(s, to)   == stage' = [stage EXCEPT ![s] = to]
RestOfDriver == UNCHANGED <<mode, run, main, phase, clock, committed>>

\* begin_step for every slice, with the committed state as its seed.
Begin ==
  /\ main = "running" /\ phase = "idle" /\ clock < MaxSteps
  /\ phase' = "publish"
  /\ UNCHANGED <<mode, run, main, stage, clock, committed, bridge, load, case, solver, blamed>>

(* publish_motion, first half: _start_solver, or _launch_once and           *)
(* _consume_seed.  A persistent solver is started once.                     *)

Starts(s) == OneShot \/ solver[s].state = "none"

WriteCsv(s, step) ==
  csv' = [csv EXCEPT ![s] = [step |-> step, number |-> bridge[s].number + 1]]

\* Mutant: the acknowledgement of the last target stays.
KeepOldAck(s) == UNCHANGED acks

RemoveOldAck(s) == acks' = [acks EXCEPT ![s][clock] = 0]

SeedCsv(s) ==
  /\ Calling(s, "publish") /\ At(s, "begun") /\ Starts(s)
  /\ To(s, "written") /\ RemoveOldAck(s) /\ WriteCsv(s, clock)
  /\ RestOfDriver /\ UNCHANGED <<bridge, load, ready, forces, dirs, solver, blamed>>

Announce(s, from, to) ==
  /\ At(s, from) /\ To(s, to)
  /\ ready' = [ready EXCEPT ![s] = csv[s]] /\ bridge' = [bridge EXCEPT ![s] = csv[s]]
  /\ RestOfDriver /\ UNCHANGED <<load, csv, acks, forces, dirs, solver, blamed>>

SeedReady(s) == Calling(s, "publish") /\ Announce(s, "written", "armed")

\* Mutant: startFrom is never rewritten.
FirstTime(s) == 0

\* startFrom is latestTime after the first step.
LatestTime(s) == CHOOSE d \in dirs[s] : \A e \in dirs[s] : e <= d
StartTime(s) == IF OneShot /\ clock > 0 THEN LatestTime(s) ELSE clock

\* Mutant: a permit is kept when its process ends.
PermittedOnce == mode # "limited" \/ Cardinality({s \in Slices : solver[s].state # "none"}) < MaxProcesses

\* limiter.launch: see ProcessLimiter.
Permitted == mode # "limited" \/ Cardinality({s \in Slices : Living(s)}) < MaxProcesses

Launch(s) ==
  /\ Calling(s, "publish") /\ At(s, "armed") /\ Permitted
  /\ To(s, "launched")
  /\ solver' = [solver EXCEPT ![s] =
       [state |-> "waiting", start |-> StartTime(s), at |-> StartTime(s),
        end |-> IF OneShot THEN clock + 1 ELSE MaxSteps, seed |-> 0, motion |-> 0]]
  /\ RestOfDriver /\ UNCHANGED <<bridge, load, case, blamed>>

(* validate_bridge_ack, after the acknowledgement was found.                *)

Acknowledged(s, k) == acks[s][k] # 0

\* The acknowledgement does not predate the publication.
Valid(s, k) == acks[s][k] >= bridge[s].number

Moves(s, from, to) == /\ At(s, from) /\ To(s, to)
                      /\ RestOfDriver /\ UNCHANGED <<bridge, load, case, solver, blamed>>

Acknowledges(s, k, from, to) ==
  Acknowledged(s, k) /\ Moves(s, from, IF Valid(s, k) THEN to ELSE "raised")

SeedConsumed(s) == Calling(s, "publish") /\ Acknowledges(s, clock, "launched", "seeded")

(* publish_motion, second half: the target.                                 *)

TargetCsv(s) ==
  /\ Calling(s, "publish") /\ stage[s] \in {"begun", "seeded"}
  /\ At(s, "begun") => ~Starts(s)
  /\ To(s, "aimed") /\ WriteCsv(s, clock + 1)
  /\ RestOfDriver /\ UNCHANGED <<bridge, load, ready, acks, forces, dirs, solver, blamed>>

TargetReady(s) == Calling(s, "publish") /\ Announce(s, "aimed", "published")

TargetConsumed(s) == Calling(s, "consume") /\ Acknowledges(s, clock + 1, "published", "consumed")

(* wait_load_ready: the one row of the target time in the file of the       *)
(* solver's start.                                                          *)

\* Mutant: the last row will do.
LastRow(s) == {r \in forces[s] : \A q \in forces[s] : q.time <= r.time}

RowsAtTarget(s) ==
  {r \in forces[s] : /\ r.time = clock + 1
                     /\ r.start = IF OneShot THEN clock ELSE solver[s].start}

TakeLoad(s) ==
  /\ Calling(s, "load") /\ At(s, "consumed") /\ To(s, "loaded")
  /\ \E r \in RowsAtTarget(s) : RowsAtTarget(s) = {r} /\ load' = [load EXCEPT ![s] = r]
  /\ RestOfDriver /\ UNCHANGED <<bridge, case, solver, blamed>>

(* finish_step: the solver of one step has ended well.                      *)

Finish(s) ==
  /\ Calling(s, "finish")
  /\ OneShot => solver[s].state = "ended"
  /\ Moves(s, "loaded", "finished")

(* A call that waits raises when the solver has exited with an error, or at *)
(* its deadline, unless what it waits for is there.                         *)

Waits(s) == \/ phase = "publish" /\ stage[s] \in {"armed", "launched"}
            \/ phase = "consume" /\ At(s, "published")
            \/ phase = "load" /\ At(s, "consumed")
            \/ phase = "finish" /\ At(s, "loaded") /\ OneShot

Arrived(s) == \/ At(s, "armed") /\ Permitted
              \/ At(s, "launched") /\ Acknowledged(s, clock)
              \/ At(s, "published") /\ Acknowledged(s, clock + 1)
              \/ At(s, "consumed") /\ RowsAtTarget(s) # {}
              \/ At(s, "loaded") /\ solver[s].state = "ended"

Raises(s) == To(s, "raised") /\ RestOfDriver /\ UNCHANGED <<bridge, load, case, solver>>

\* The file is looked for before the process is polled: what was waited for
\* may have arrived in between.
SeesExit(s) ==
  /\ Calling(s, phase) /\ Waits(s) /\ Exited(s)
  /\ Raises(s) /\ UNCHANGED blamed

TimesOut(s) ==
  /\ Calling(s, phase) /\ Waits(s) /\ ~Arrived(s)
  /\ "slow" \in Faults \/ \E t \in Slices : solver[t].state = "hung"
  /\ Raises(s) /\ blamed' = TRUE
-----------------------------------------------------------------------------
(* The main thread.                                                        *)

\* Mutant: the barrier is passed when one slice is through.
AnyThrough == \E s \in Slices : stage[s] = Goal(phase)

AllThrough == \A s \in Slices : stage[s] = Goal(phase)

NextCall ==
  /\ main = "running" /\ AllThrough
  /\ \/ phase = "publish" /\ phase' = "consume"
     \/ phase = "consume" /\ phase' = "load"
  /\ UNCHANGED <<mode, run, main, stage, clock, committed, bridge, load, case, solver, blamed>>

\* The structure's correction and the checkpoint: see MultiSliceScheduler.
Commit ==
  /\ main = "running" /\ phase = "load" /\ AllThrough
  /\ committed' = clock + 1 /\ phase' = "finish"
  /\ UNCHANGED <<mode, run, main, stage, clock, bridge, load, case, solver, blamed>>

EndStep ==
  /\ main = "running" /\ phase = "finish" /\ AllThrough
  /\ clock' = clock + 1 /\ phase' = "idle" /\ stage' = [s \in Slices |-> "begun"]
  /\ UNCHANGED <<mode, run, main, committed, bridge, load, case, solver, blamed>>

\* Mutant: the processes are left to end by themselves.
LeaveAll == UNCHANGED solver

KillAll == solver' = [s \in Slices |->
                       IF Living(s) THEN [solver[s] EXCEPT !.state = "killed"] ELSE solver[s]]

\* An exception leaves a pool made for the call when all its threads are
\* through, and one that is kept at once.  At the segment's end the solvers
\* are given time to end by themselves.
Stop ==
  /\ main = "running"
  /\ \/ Failed /\ (mode = "persistent" /\ phase # "finish" => \A s \in Slices : Over(s))
     \/ /\ phase = "idle" /\ clock = MaxSteps
        /\ \A s \in Slices : Living(s) => solver[s].state = "hung" \/ "slow" \in Faults
  /\ main' = "stopped" /\ KillAll
  /\ UNCHANGED <<mode, run, phase, stage, clock, committed, bridge, load, case, blamed>>

\* The kept pool is closed after the processes were stopped.
Close ==
  /\ main = "stopped"
  /\ mode = "pooled" /\ phase \notin {"idle", "finish"} => \A s \in Slices : Over(s)
  /\ main' = "over"
  /\ UNCHANGED <<mode, run, phase, stage, clock, committed, bridge, load, case, solver, blamed>>

\* A run from the committed checkpoint, in fresh cases.
Rerun ==
  /\ main = "over" /\ run < MaxRuns /\ committed < MaxSteps
  /\ run' = run + 1 /\ main' = "running" /\ phase' = "idle" /\ clock' = committed
  /\ stage' = [s \in Slices |-> "begun"] /\ bridge' = [s \in Slices |-> NoMotion]
  /\ load' = [s \in Slices |-> NoRow] /\ solver' = [s \in Slices |-> NoSolver]
  /\ FreshCase(committed) /\ blamed' = FALSE /\ UNCHANGED <<mode, committed>>
-----------------------------------------------------------------------------
(* The solver: ancfFileMotion and the time loop around it.                  *)

Solver(s, from, to) == solver[s].state = from /\ solver' = [solver EXCEPT ![s] = to]
Alone == UNCHANGED <<driver, blamed>>

\* Mutant: endTime is not looked at.
OnwardAlways(r) == [r EXCEPT !.state = "waiting", !.at = @ + 1]

Onward(r) == IF r.at < r.end THEN [r EXCEPT !.state = "waiting", !.at = @ + 1]
                             ELSE [r EXCEPT !.state = "closing"]

\* motion_ready has the step of the solver's time; a later one is fatal.
See(s) ==
  /\ ready[s].step >= solver[s].at
  /\ Solver(s, "waiting", [solver[s] EXCEPT
       !.state = IF ready[s].step = solver[s].at THEN "matched" ELSE "failed"])
  /\ Alone /\ UNCHANGED case

\* At the start time the motion is the seed.
Read(s) ==
  /\ Solver(s, "matched",
       IF csv[s].step # solver[s].at THEN [solver[s] EXCEPT !.state = "failed"]
       ELSE [solver[s] EXCEPT !.state = "read", !.motion = csv[s].number,
              !.seed = IF solver[s].at = solver[s].start THEN csv[s].number ELSE @])
  /\ Alone /\ UNCHANGED case

\* Mutant: the acknowledgement is written before the motion is read.
ReadStates == {"matched", "read"}

AcknowledgingStates == {"read"}

Acknowledge(s) ==
  /\ solver[s].state \in AcknowledgingStates
  /\ Solver(s, solver[s].state, IF solver[s].at = solver[s].start THEN Onward(solver[s])
                                ELSE [solver[s] EXCEPT !.state = "solving"])
  /\ acks' = [acks EXCEPT ![s][solver[s].at] = ready[s].number]
  /\ Alone /\ UNCHANGED <<csv, ready, forces, dirs>>

Solve(s) ==
  /\ Solver(s, "solving", Onward(solver[s]))
  /\ forces' = [forces EXCEPT ![s] = @ \cup
       {[start |-> solver[s].start, time |-> solver[s].at,
         seed |-> solver[s].seed, motion |-> solver[s].motion]}]
  /\ dirs' = [dirs EXCEPT ![s] = @ \cup {solver[s].at}]
  /\ Alone /\ UNCHANGED <<csv, ready, acks>>

Exit(s) == /\ Solver(s, "closing", [solver[s] EXCEPT !.state = "ended"])
           /\ Alone /\ UNCHANGED case

Fails(s, how) == /\ Living(s) /\ solver' = [solver EXCEPT ![s].state = how] /\ blamed' = TRUE
                 /\ UNCHANGED <<driver, case>>
Crash(s) == "crash" \in Faults /\ Fails(s, "failed")
Hang(s)  == "hang" \in Faults /\ Fails(s, "hung")
-----------------------------------------------------------------------------
Call(s) == \/ SeedCsv(s) \/ SeedReady(s) \/ Launch(s) \/ SeedConsumed(s)
           \/ TargetCsv(s) \/ TargetReady(s) \/ TargetConsumed(s)
           \/ TakeLoad(s) \/ Finish(s) \/ SeesExit(s)

Compute(s) == See(s) \/ Read(s) \/ Acknowledge(s) \/ Solve(s) \/ Exit(s)

Main == Begin \/ NextCall \/ Commit \/ EndStep \/ Stop \/ Close

Next == \/ Main \/ Rerun
        \/ \E s \in Slices : Call(s) \/ Compute(s) \/ TimesOut(s) \/ Crash(s) \/ Hang(s)

\* Threads and solvers run.  Deadlines pass when a solver hangs; nobody is
\* bound to give up earlier, and nobody is bound to start a new run.
Spec     == Init /\ [][Next]_vars
FairSpec == /\ Spec /\ WF_vars(Main)
            /\ \A s \in Slices :
                 /\ WF_vars(Call(s)) /\ WF_vars(Compute(s))
                 /\ WF_vars((\E t \in Slices : solver[t].state = "hung") /\ TimesOut(s))
-----------------------------------------------------------------------------
(* Types.  The numbers of steps and rows stay within the campaign.         *)
TypeOK ==
  /\ mode \in Modes /\ run \in 1 .. MaxRuns /\ main \in {"running", "stopped", "over"}
  /\ phase \in Phases /\ stage \in [Slices -> Stages]
  /\ clock \in Steps /\ committed \in Steps
  /\ bridge \in [Slices -> Motions] /\ load \in [Slices -> Rows]
  /\ csv \in [Slices -> Motions] /\ ready \in [Slices -> Motions]
  /\ acks \in [Slices -> [Steps -> Nat]] /\ forces \in [Slices -> SUBSET Rows]
  /\ dirs \in [Slices -> SUBSET Steps] /\ solver \in [Slices -> Solvers]
  /\ blamed \in BOOLEAN

(***************************************************************************)
(* An acknowledgement the driver accepts was written after the solver has  *)
(* read exactly the motion it acknowledges: stale acknowledgements are     *)
(* never accepted, although step numbers and file names repeat.            *)
(***************************************************************************)
AcceptedIsRead ==
  \A s \in Slices :
    /\ stage[s] = "seeded" => solver[s].seed = bridge[s].number
    /\ stage[s] \in {"consumed", "loaded", "finished"} => solver[s].motion = bridge[s].number

(***************************************************************************)
(* A load the driver takes was computed for this step's time with this     *)
(* step's motion, by a solver that started from the committed state: its   *)
(* seed is the motion just before, or the run's first.                     *)
(***************************************************************************)
LoadAnswersMotion ==
  \A s \in Slices : stage[s] \in {"loaded", "finished"} =>
    /\ load[s].time = bridge[s].step /\ load[s].motion = bridge[s].number
    /\ load[s].seed = IF OneShot THEN bridge[s].number - 1 ELSE 1

(***************************************************************************)
(* No false alarm: a call raises only in a run in which a solver has       *)
(* exited or hung, or a deadline has passed.  The checks of freshness      *)
(* never reject what driver and solver do by themselves.                   *)
(***************************************************************************)
NoFalseAlarm == Failed => blamed

(***************************************************************************)
(* A committed step can be restarted in every slice; no solver is more     *)
(* than one step ahead of it, and none starts anywhere else.               *)
(***************************************************************************)
ContinuesCommitted ==
  \A s \in Slices :
    /\ committed \in dirs[s] /\ dirs[s] \subseteq 0 .. committed + 1
    /\ stage[s] \in {"launched", "seeded"} => solver[s].start = committed

(***************************************************************************)
(* A run that is over leaves no solver behind, unless its threads came     *)
(* from a pool that is kept.                                               *)
(***************************************************************************)
Clean     == main = "over" => \A s \in Slices : ~Living(s)
CleanExit == mode # "pooled" => Clean

(***************************************************************************)
(* A step ends: it is committed and finished, or the run is over.          *)
(***************************************************************************)
StepEnds == phase # "idle" ~> (phase = "idle" \/ main = "over")

(***************************************************************************)
(* The files and processes implement MotionExchange.                       *)
(***************************************************************************)
SinceCommit(step) == IF step < committed THEN committed ELSE step

Exchange == INSTANCE MotionExchange WITH
  done     <- committed,
  asked    <- [s \in Slices |-> SinceCommit(bridge[s].step)],
  answered <- [s \in Slices |-> SinceCommit(load[s].time)]

ImplementsExchange == Exchange!Spec
=============================================================================
