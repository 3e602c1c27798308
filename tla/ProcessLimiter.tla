--------------------------- MODULE ProcessLimiter ---------------------------
(***************************************************************************)
(* Admission control for heavy solver processes: ProcessLimiter, the       *)
(* permits it hands out, and ManagedProcess, whose watcher thread gives a  *)
(* permit back when its child process has ended.                           *)
(*                                                                         *)
(* Each launch is a thread of its own that acquires a permit, starts a     *)
(* child and waits for it; each managed child has a watcher thread, and    *)
(* one more thread calls shutdown.  What is done under the limiter's       *)
(* condition is one action; a permit's flag _released is read and written  *)
(* outside it, so every release takes three: the flag is tested, the       *)
(* permit is taken from the active ones, the flag is set.                  *)
(***************************************************************************)
EXTENDS Integers, FiniteSets

CONSTANTS Launches,      \* the calls of launch, each with its permit and child
          MaxProcesses,  \* max_processes
          Faults         \* what may go wrong (AllFaults below)

AllFaults ==
  {"timeout",  \* acquire gives up waiting
   "spawn",    \* the child cannot be started
   "late",     \* an exception between the child's start and its watcher's
   "slow",     \* a watcher takes longer than the 5 s that wait joins it
   "stuck"}    \* a child outlives its kill by the 5 s that wait gives it

ASSUME LaunchAssumption == IsFiniteSet(Launches)
ASSUME LimitAssumption  == MaxProcesses \in Nat \ {0} /\ Faults \subseteq AllFaults

VARIABLES
  caller,    \* per launch: where its thread is
  child,     \* per launch: the child process
  watcher,   \* per launch: where its watcher thread is
  active,    \* _active: the permits in use
  released,  \* the permits whose flag _released is set
  records,   \* _records
  closed,    \* _closed
  shut,      \* where the thread that shuts down is
  todo,      \* the permits shutdown has still to release
  target     \* the permit it is releasing, as a set of at most one

ledger   == <<active, released, records>>
stopping == <<closed, shut, todo, target>>
vars     == <<caller, child, watcher, ledger, stopping>>

\* A releasing thread is "popping" after its test of the flag and "flagging"
\* before it sets it.
CallerStates == {"wanting", "parked", "refused",                     \* acquire
                 "holding", "spawned", "attaching", "attached",      \* launch
                 "failing", "popping", "flagging", "raised",         \* its exception
                 "managed", "done"}                                  \* wait
WatcherStates == {"none", "watching", "popping", "flagging", "ended", "raised"}
ShutStates    == {"no", "listed", "popping", "flagging", "done", "raised"}
Conditions    == {"completed", "spawn_failed", "shutdown"}
Records       == [launch : Launches, condition : Conditions]

Init ==
  /\ caller = [l \in Launches |-> "wanting"]
  /\ child = [l \in Launches |-> "none"]
  /\ watcher = [l \in Launches |-> "none"]
  /\ active = {} /\ released = {} /\ records = {}
  /\ closed = FALSE
  /\ shut = "no" /\ todo = {} /\ target = {}
-----------------------------------------------------------------------------
(* acquire                                                                 *)

\* Mutant: one more than the limit.
FullLate == Cardinality(active) > MaxProcesses

Full == Cardinality(active) >= MaxProcesses

\* Mutant: closed is tested by those who wait, and not again after.
OpenUnlessFull == closed => ~Full

Open == ~closed

Move(l, from, to) == caller[l] = from /\ caller' = [caller EXCEPT ![l] = to]
Only(l, from, to) == Move(l, from, to) /\ UNCHANGED <<child, watcher, ledger, stopping>>

Acquire(l) ==
  /\ ~Full /\ Open
  /\ active' = active \cup {l} /\ Move(l, "wanting", "holding")
  /\ UNCHANGED <<child, watcher, released, records, stopping>>

\* Waits on the condition until it is notified.
Park(l) == Full /\ ~closed /\ Only(l, "wanting", "parked")

Refuse(l) == closed /\ Only(l, "wanting", "refused")

TimesOut(l) ==
  Full /\ "timeout" \in Faults /\ \E from \in {"wanting", "parked"} : Only(l, from, "refused")

\* Mutant: a release wakes nobody.
WakeNobody(c) == c

\* notify_all, together with the move the notifying thread makes.
Wake(c) == [l \in Launches |-> IF c[l] = "parked" THEN "wanting" ELSE c[l]]
-----------------------------------------------------------------------------
(* ProcessPermit.release, by whichever thread.                             *)

\* Mutant: the flag is trusted instead of the active permits.
HeldByFlag(l) == l \notin released

Held(l) == l \in active

\* _release, under the condition.
Pop(l, condition) ==
  /\ Held(l)
  /\ active' = active \ {l}
  /\ records' = records \cup {[launch |-> l, condition |-> condition]}
-----------------------------------------------------------------------------
(* launch, after its acquire                                               *)

Spawn(l) ==
  \/ /\ Move(l, "holding", "spawned") /\ child' = [child EXCEPT ![l] = "alive"]
     /\ UNCHANGED <<watcher, ledger, stopping>>
  \/ "spawn" \in Faults /\ Only(l, "holding", "failing")

\* attach: the flag first, then the active permits under the condition.
Attach(l) == Only(l, "spawned", IF l \in released THEN "failing" ELSE "attaching")

Attached(l) ==
  /\ caller[l] = "attaching"
  /\ caller' = IF l \in active THEN Wake([caller EXCEPT ![l] = "attached"])
                               ELSE [caller EXCEPT ![l] = "failing"]
  /\ UNCHANGED <<child, watcher, ledger, stopping>>

\* Mutant: the watcher thread is created and not started.
WatchedNot(l) == UNCHANGED watcher

\* ManagedProcess starts the watcher.
Watched(l) == watcher' = [watcher EXCEPT ![l] = "watching"]

Manage(l) == /\ Move(l, "attached", "managed") /\ Watched(l)
             /\ UNCHANGED <<child, ledger, stopping>>

LateException(l) ==
  "late" \in Faults /\ \E from \in {"spawned", "attached"} : Only(l, from, "failing")

\* Mutant: the except clause raises on without giving the permit back.
FailSilently(l) == Only(l, "failing", "raised")

\* launch's except clause gives the permit back, and does not touch the child.
Fail(l) == Only(l, "failing", IF l \in released THEN "raised" ELSE "popping")

FailPop(l) ==
  \/ ~Held(l) /\ Only(l, "popping", "raised")
  \/ /\ caller[l] = "popping" /\ Pop(l, "spawn_failed")
     /\ caller' = Wake([caller EXCEPT ![l] = "flagging"])
     /\ UNCHANGED <<child, watcher, released, stopping>>

FailFlag(l) ==
  /\ Move(l, "flagging", "raised") /\ released' = released \cup {l}
  /\ UNCHANGED <<child, watcher, active, records, stopping>>
-----------------------------------------------------------------------------
(* The child, its watcher, and wait.                                       *)

ChildExits(l) ==
  /\ child[l] = "alive" /\ child' = [child EXCEPT ![l] = "dead"]
  /\ UNCHANGED <<caller, watcher, ledger, stopping>>

\* wait(timeout) terminates and then kills a child that outlives the timeout; a
\* killed child may end after wait has raised.
Terminate(l) == caller[l] \in {"managed", "done"} /\ ChildExits(l)

Turn(l, from, to) == watcher[l] = from /\ watcher' = [watcher EXCEPT ![l] = to]

Watch(l) ==
  /\ child[l] = "dead" /\ Turn(l, "watching", IF l \in released THEN "ended" ELSE "popping")
  /\ UNCHANGED <<caller, child, ledger, stopping>>

WatchPop(l) ==
  /\ \/ Pop(l, "completed") /\ caller' = Wake(caller) /\ Turn(l, "popping", "flagging")
     \/ ~Held(l) /\ Turn(l, "popping", "raised") /\ UNCHANGED <<caller, active, records>>
  /\ UNCHANGED <<child, released, stopping>>

WatchFlag(l) ==
  /\ Turn(l, "flagging", "ended") /\ released' = released \cup {l}
  /\ UNCHANGED <<caller, child, active, records, stopping>>

\* The join of the watcher, which ends by returning or by an exception, is
\* given up after 5 s.
Joined(l) == watcher[l] \in {"ended", "raised"} \/ "slow" \in Faults

\* wait returns the exit code, or raises at its timeout, with the child reaped;
\* or it raises before the join, with a child that does not die.
WaitReturns(l) == child[l] = "dead" /\ Joined(l) /\ Only(l, "managed", "done")
WaitRaises(l)  == "stuck" \in Faults /\ child[l] = "alive" /\ Only(l, "managed", "done")
-----------------------------------------------------------------------------
(* shutdown, called again as often as its callers like                     *)

Shutdown ==
  /\ shut \in {"no", "done", "raised"} /\ closed' = TRUE
  /\ \/ active = {} /\ shut' = "done" /\ UNCHANGED todo
     \/ shut' = "listed" /\ todo' = active           \* force
  /\ UNCHANGED <<caller, child, watcher, ledger, target>>

ShutTest(l) ==
  /\ shut = "listed" /\ l \in todo /\ todo' = todo \ {l}
  /\ IF l \in released THEN UNCHANGED <<shut, target>>
                       ELSE shut' = "popping" /\ target' = {l}
  /\ UNCHANGED <<caller, child, watcher, ledger, closed>>

\* A permit that another thread has taken meanwhile makes shutdown raise; the
\* permits after it are not released.
ShutPop(l) ==
  /\ shut = "popping" /\ l \in target
  /\ \/ /\ Pop(l, "shutdown") /\ caller' = Wake(caller)
        /\ shut' = "flagging" /\ UNCHANGED <<todo, target>>
     \/ /\ ~Held(l) /\ shut' = "raised" /\ todo' = {} /\ target' = {}
        /\ UNCHANGED <<caller, active, records>>
  /\ UNCHANGED <<child, watcher, released, closed>>

ShutFlag(l) ==
  /\ shut = "flagging" /\ l \in target /\ released' = released \cup {l}
  /\ shut' = "listed" /\ target' = {}
  /\ UNCHANGED <<caller, child, watcher, active, records, closed, todo>>

ShutReturns ==
  /\ shut = "listed" /\ todo = {} /\ shut' = "done"
  /\ UNCHANGED <<caller, child, watcher, ledger, closed, todo, target>>

LaunchStep(l) == \/ Acquire(l) \/ Park(l) \/ Refuse(l)
                 \/ Spawn(l) \/ Attach(l) \/ Attached(l) \/ Manage(l) \/ LateException(l)
                 \/ Fail(l) \/ FailPop(l) \/ FailFlag(l)
                 \/ Terminate(l) \/ WaitReturns(l) \/ WaitRaises(l)

WatchStep(l) == Watch(l) \/ WatchPop(l) \/ WatchFlag(l)

ShutStep == ShutReturns \/ \E l \in Launches : ShutTest(l) \/ ShutPop(l) \/ ShutFlag(l)

Next == \/ \E l \in Launches : LaunchStep(l) \/ TimesOut(l) \/ ChildExits(l) \/ WatchStep(l)
        \/ Shutdown \/ ShutStep

\* Threads run; a child ends by itself or, in the end, by its caller's kill.
\* Nobody is bound to give up waiting for a permit.
Spec     == Init /\ [][Next]_vars
FairSpec == Spec /\ \A l \in Launches : WF_vars(LaunchStep(l)) /\ WF_vars(WatchStep(l))
-----------------------------------------------------------------------------
\* The last conjunct: a child has a watcher exactly when launch has returned.
TypeOK ==
  /\ caller \in [Launches -> CallerStates]
  /\ child \in [Launches -> {"none", "alive", "dead"}]
  /\ watcher \in [Launches -> WatcherStates]
  /\ active \subseteq Launches /\ released \subseteq Launches
  /\ records \subseteq Records
  /\ closed \in BOOLEAN
  /\ shut \in ShutStates /\ todo \subseteq Launches /\ target \subseteq Launches
  /\ \A l \in Launches : watcher[l] # "none" <=> caller[l] \in {"managed", "done"}

(***************************************************************************)
(* Never more children run than the limit, whoever releases permits, and   *)
(* also while a forced shutdown races with launches that hold a permit.    *)
(* Not counted: children whose launch has raised (see ReleasedByWatcher).  *)
(***************************************************************************)
Running == {l \in Launches : child[l] = "alive"}
GivenUp == {l \in Launches : caller[l] \in {"failing", "popping", "flagging", "raised"}}

AdmissionBound == Cardinality(Running \ GivenUp) <= MaxProcesses

\* The limit for all children: without an exception between a child's start
\* and its watcher's.
StrictBound == Cardinality(Running) <= MaxProcesses

(***************************************************************************)
(* A permit is active or has exactly one record, although its watcher, its *)
(* launch and shutdown may release it at the same time; and a record of a  *)
(* completed child is of a child that has ended.                           *)
(***************************************************************************)
Admitted == {l \in Launches : caller[l] \notin {"wanting", "parked", "refused"}}

Accounted ==
  /\ \A l \in Admitted : l \in active <=> \A r \in records : r.launch # l
  /\ \A r, s \in records : r.launch = s.launch => r = s
  /\ \A r \in records : r.condition = "completed" => child[r.launch] = "dead"

(***************************************************************************)
(* A shutdown that returns leaves no permit in use, then or later.         *)
(***************************************************************************)
ShutdownLeavesNothing == shut = "done" => active = {}

(***************************************************************************)
(* No permit in use is orphaned: its launch or its watcher is still to     *)
(* give it back, although _released is tested outside the lock and wait    *)
(* gives up on a watcher, and on a child, that takes too long.             *)
(***************************************************************************)
Answers(l) ==
  \/ caller[l] \in {"holding", "spawned", "attaching", "attached", "failing", "popping"}
  \/ watcher[l] \in {"watching", "popping"}

PermitsOwned == \A l \in active : Answers(l)

\* After wait the permit is free: only if neither join nor kill takes too long.
WaitReleases == \A l \in Launches : caller[l] = "done" => l \notin active

(***************************************************************************)
(* Every launch gets a permit or is refused, and comes back: no release    *)
(* forgets to wake the waiting ones and no permit is lost.                 *)
(***************************************************************************)
LaunchEnds ==
  <>(\A l \in Launches : caller[l] \in {"refused", "raised", "managed", "done"})

(***************************************************************************)
(* The module's own account of itself: the slot is released from a watcher *)
(* that waits on the actual child process.  So a running child has a       *)
(* permit, until a forced shutdown takes it.                               *)
(***************************************************************************)
ReleasedByWatcher == \A l \in Launches : child[l] = "alive" /\ ~closed => l \in active
=============================================================================
