------------------------ MODULE ProcessLimiterProofs ------------------------
(***************************************************************************)
(* The process limiter is right for any finite number of launches, any     *)
(* limit and any interleaving of launches, watchers and shutdowns.         *)
(***************************************************************************)
EXTENDS ProcessLimiter, FiniteSetTheorems, TLAPS

\* A child is started with a permit; a watcher goes on only when it has ended;
\* a join that is not given up waits for the watcher; only shutdown closes.
ThreadInv ==
  /\ \A l \in Launches :
       caller[l] \in {"wanting", "parked", "refused", "holding"} => child[l] = "none"
  /\ \A l \in Launches :
       watcher[l] \in {"popping", "flagging", "ended", "raised"} => child[l] = "dead"
  /\ Faults \cap {"slow", "stuck"} = {} =>
       \A l \in Launches : caller[l] = "done" => watcher[l] \in {"ended", "raised"}
  /\ shut # "no" => closed

\* Only admitted permits are in use or released, and none is both; a thread
\* that has popped a permit, or found it popped, leaves it out of use.
ReleaseInv ==
  /\ active \cup released \cup todo \cup target \subseteq Admitted
  /\ active \cap released = {}
  /\ \A l \in Launches :
       caller[l] = "flagging" \/ watcher[l] \in {"flagging", "ended", "raised"} => l \notin active
  /\ shut = "flagging" => target \cap active = {}
  /\ \A l, k \in target : l = k
  /\ shut \notin {"popping", "flagging"} => target = {}

\* What a running shutdown has not released is on its list.
ShutInv ==
  /\ shut = "listed" => active \subseteq todo
  /\ shut \in {"popping", "flagging"} => active \subseteq todo \cup target
  /\ ShutdownLeavesNothing

\* Records belong to admitted permits, those of completed children to watchers
\* that have popped.
AccountInv ==
  /\ Accounted
  /\ \A r \in records : r.launch \in Admitted
  /\ \A r \in records : r.condition = "completed" => watcher[r.launch] \in {"flagging", "ended"}

\* The launches that have a child, or a permit to start one.
Counted == {l \in Launches : \/ caller[l] = "holding"
                             \/ l \in Running /\ ("late" \in Faults => l \notin GivenUp)}

\* Until the limiter closes, counted launches hold permits; a launch gives its
\* permit up without a child, and a released permit is past its attachment.
PermitInv ==
  ~closed =>
    /\ Counted \subseteq active
    /\ "late" \notin Faults => GivenUp \cap Running = {}
    /\ \A l \in released : caller[l] \in {"raised", "managed", "done"}

LimiterInv == TypeOK /\ ThreadInv /\ ReleaseInv /\ ShutInv /\ AccountInv
              /\ PermitInv /\ Cardinality(Counted) <= MaxProcesses /\ PermitsOwned
-----------------------------------------------------------------------------
LEMMA TypeStep == LimiterInv /\ [Next]_vars => TypeOK'
<1> SUFFICES ASSUME LimiterInv, [Next]_vars  PROVE TypeOK'
  OBVIOUS
<1> USE DEF LimiterInv, ledger, stopping, Only, Move, Turn, TypeOK, CallerStates, WatcherStates,
            ShutStates, Conditions, Records
<1>1. ASSUME NEW l \in Launches, Acquire(l)  PROVE TypeOK'
  BY <1>1 DEF Acquire, Open, Full
<1>2. ASSUME NEW l \in Launches, Park(l)  PROVE TypeOK'
  BY <1>2 DEF Park
<1>3. ASSUME NEW l \in Launches, Refuse(l) \/ TimesOut(l)  PROVE TypeOK'
  BY <1>3 DEF Refuse, TimesOut
<1>4. ASSUME NEW l \in Launches, Spawn(l)  PROVE TypeOK'
  BY <1>4 DEF Spawn
<1>5. ASSUME NEW l \in Launches, Attach(l)  PROVE TypeOK'
  BY <1>5 DEF Attach
<1>6. ASSUME NEW l \in Launches, Attached(l)  PROVE TypeOK'
  BY <1>6 DEF Attached, Wake
<1>7. ASSUME NEW l \in Launches, Manage(l)  PROVE TypeOK'
  BY <1>7 DEF Manage, Watched
<1>8. ASSUME NEW l \in Launches, LateException(l)  PROVE TypeOK'
  BY <1>8 DEF LateException
<1>9. ASSUME NEW l \in Launches, Fail(l)  PROVE TypeOK'
  BY <1>9 DEF Fail
<1>10. ASSUME NEW l \in Launches, FailPop(l)  PROVE TypeOK'
  BY <1>10 DEF FailPop, Pop, Held, Wake
<1>11. ASSUME NEW l \in Launches, FailFlag(l)  PROVE TypeOK'
  BY <1>11 DEF FailFlag
<1>12. ASSUME NEW l \in Launches, Terminate(l)  PROVE TypeOK'
  BY <1>12 DEF Terminate, ChildExits
<1>13. ASSUME NEW l \in Launches, WaitReturns(l) \/ WaitRaises(l)  PROVE TypeOK'
  BY <1>13 DEF WaitReturns, Joined, WaitRaises
<1>14. ASSUME NEW l \in Launches, ChildExits(l)  PROVE TypeOK'
  BY <1>14 DEF ChildExits
<1>15. ASSUME NEW l \in Launches, Watch(l)  PROVE TypeOK'
  BY <1>15 DEF Watch
<1>16. ASSUME NEW l \in Launches, WatchPop(l)  PROVE TypeOK'
  BY <1>16 DEF WatchPop, Pop, Held, Wake
<1>17. ASSUME NEW l \in Launches, WatchFlag(l)  PROVE TypeOK'
  BY <1>17 DEF WatchFlag
<1>18. ASSUME NEW l \in Launches, ShutTest(l)  PROVE TypeOK'
  BY <1>18 DEF ShutTest
<1>19. ASSUME NEW l \in Launches, ShutPop(l)  PROVE TypeOK'
  BY <1>19 DEF ShutPop, Pop, Held, Wake
<1>20. ASSUME NEW l \in Launches, ShutFlag(l)  PROVE TypeOK'
  BY <1>20 DEF ShutFlag
<1>21. CASE Shutdown     BY <1>21 DEF Shutdown
<1>22. CASE ShutReturns  BY <1>22 DEF ShutReturns
<1>23. CASE UNCHANGED vars  BY <1>23 DEF vars
<1>24. QED
  BY <1>1, <1>2, <1>3, <1>4, <1>5, <1>6, <1>7, <1>8, <1>9, <1>10, <1>11, <1>12, <1>13, <1>14,
     <1>15, <1>16, <1>17, <1>18, <1>19, <1>20, <1>21, <1>22, <1>23 DEF Next, LaunchStep,
     WatchStep, ShutStep

LEMMA ThreadStep == LimiterInv /\ [Next]_vars => ThreadInv'
<1> SUFFICES ASSUME LimiterInv, [Next]_vars  PROVE ThreadInv'
  OBVIOUS
<1> USE DEF LimiterInv, ledger, stopping, Only, Move, Turn, TypeOK, ThreadInv
<1>1. ASSUME NEW l \in Launches, Acquire(l)  PROVE ThreadInv'
  BY <1>1 DEF Acquire, Open, Full
<1>2. ASSUME NEW l \in Launches, Park(l)  PROVE ThreadInv'
  BY <1>2 DEF Park
<1>3. ASSUME NEW l \in Launches, Refuse(l) \/ TimesOut(l)  PROVE ThreadInv'
  BY <1>3 DEF Refuse, TimesOut
<1>4. ASSUME NEW l \in Launches, Spawn(l)  PROVE ThreadInv'
  BY <1>4 DEF Spawn
<1>5. ASSUME NEW l \in Launches, Attach(l)  PROVE ThreadInv'
  BY <1>5 DEF Attach
<1>6. ASSUME NEW l \in Launches, Attached(l)  PROVE ThreadInv'
  BY <1>6 DEF Attached, Wake
<1>7. ASSUME NEW l \in Launches, Manage(l)  PROVE ThreadInv'
  BY <1>7 DEF Manage, Watched
<1>8. ASSUME NEW l \in Launches, LateException(l)  PROVE ThreadInv'
  BY <1>8 DEF LateException
<1>9. ASSUME NEW l \in Launches, Fail(l)  PROVE ThreadInv'
  BY <1>9 DEF Fail
<1>10. ASSUME NEW l \in Launches, FailPop(l)  PROVE ThreadInv'
  BY <1>10 DEF FailPop, Pop, Held, Wake
<1>11. ASSUME NEW l \in Launches, FailFlag(l)  PROVE ThreadInv'
  BY <1>11 DEF FailFlag
<1>12. ASSUME NEW l \in Launches, Terminate(l)  PROVE ThreadInv'
  BY <1>12 DEF Terminate, ChildExits
<1>13. ASSUME NEW l \in Launches, WaitReturns(l) \/ WaitRaises(l)  PROVE ThreadInv'
  BY <1>13 DEF WaitReturns, Joined, WaitRaises
<1>14. ASSUME NEW l \in Launches, ChildExits(l)  PROVE ThreadInv'
  BY <1>14 DEF ChildExits
<1>15. ASSUME NEW l \in Launches, Watch(l)  PROVE ThreadInv'
  BY <1>15 DEF Watch
<1>16. ASSUME NEW l \in Launches, WatchPop(l)  PROVE ThreadInv'
  BY <1>16 DEF WatchPop, Pop, Held, Wake
<1>17. ASSUME NEW l \in Launches, WatchFlag(l)  PROVE ThreadInv'
  BY <1>17 DEF WatchFlag
<1>18. ASSUME NEW l \in Launches, ShutTest(l)  PROVE ThreadInv'
  BY <1>18 DEF ShutTest
<1>19. ASSUME NEW l \in Launches, ShutPop(l)  PROVE ThreadInv'
  BY <1>19 DEF ShutPop, Pop, Held, Wake
<1>20. ASSUME NEW l \in Launches, ShutFlag(l)  PROVE ThreadInv'
  BY <1>20 DEF ShutFlag
<1>21. CASE Shutdown     BY <1>21 DEF Shutdown
<1>22. CASE ShutReturns  BY <1>22 DEF ShutReturns
<1>23. CASE UNCHANGED vars  BY <1>23 DEF vars
<1>24. QED
  BY <1>1, <1>2, <1>3, <1>4, <1>5, <1>6, <1>7, <1>8, <1>9, <1>10, <1>11, <1>12, <1>13, <1>14,
     <1>15, <1>16, <1>17, <1>18, <1>19, <1>20, <1>21, <1>22, <1>23 DEF Next, LaunchStep,
     WatchStep, ShutStep

LEMMA ReleaseStep == LimiterInv /\ [Next]_vars => ReleaseInv'
<1> SUFFICES ASSUME LimiterInv, [Next]_vars  PROVE ReleaseInv'
  OBVIOUS
<1> USE DEF LimiterInv, ledger, stopping, Only, Move, Turn, TypeOK, ReleaseInv, ThreadInv, Admitted
<1>1. ASSUME NEW l \in Launches, Acquire(l)  PROVE ReleaseInv'
  BY <1>1 DEF Acquire, Open, Full
<1>2. ASSUME NEW l \in Launches, Park(l)  PROVE ReleaseInv'
  BY <1>2 DEF Park
<1>3. ASSUME NEW l \in Launches, Refuse(l) \/ TimesOut(l)  PROVE ReleaseInv'
  BY <1>3 DEF Refuse, TimesOut
<1>4. ASSUME NEW l \in Launches, Spawn(l)  PROVE ReleaseInv'
  BY <1>4 DEF Spawn
<1>5. ASSUME NEW l \in Launches, Attach(l)  PROVE ReleaseInv'
  BY <1>5 DEF Attach
<1>6. ASSUME NEW l \in Launches, Attached(l)  PROVE ReleaseInv'
  BY <1>6 DEF Attached, Wake
<1>7. ASSUME NEW l \in Launches, Manage(l)  PROVE ReleaseInv'
  BY <1>7 DEF Manage, Watched
<1>8. ASSUME NEW l \in Launches, LateException(l)  PROVE ReleaseInv'
  BY <1>8 DEF LateException
<1>9. ASSUME NEW l \in Launches, Fail(l)  PROVE ReleaseInv'
  BY <1>9 DEF Fail
<1>10. ASSUME NEW l \in Launches, FailPop(l)  PROVE ReleaseInv'
  BY <1>10 DEF FailPop, Pop, Held, Wake
<1>11. ASSUME NEW l \in Launches, FailFlag(l)  PROVE ReleaseInv'
  BY <1>11 DEF FailFlag
<1>12. ASSUME NEW l \in Launches, Terminate(l)  PROVE ReleaseInv'
  BY <1>12 DEF Terminate, ChildExits
<1>13. ASSUME NEW l \in Launches, WaitReturns(l) \/ WaitRaises(l)  PROVE ReleaseInv'
  BY <1>13 DEF WaitReturns, Joined, WaitRaises
<1>14. ASSUME NEW l \in Launches, ChildExits(l)  PROVE ReleaseInv'
  BY <1>14 DEF ChildExits
<1>15. ASSUME NEW l \in Launches, Watch(l)  PROVE ReleaseInv'
  BY <1>15 DEF Watch
<1>16. ASSUME NEW l \in Launches, WatchPop(l)  PROVE ReleaseInv'
  BY <1>16 DEF WatchPop, Pop, Held, Wake
<1>17. ASSUME NEW l \in Launches, WatchFlag(l)  PROVE ReleaseInv'
  BY <1>17 DEF WatchFlag
<1>18. ASSUME NEW l \in Launches, ShutTest(l)  PROVE ReleaseInv'
  BY <1>18 DEF ShutTest
<1>19. ASSUME NEW l \in Launches, ShutPop(l)  PROVE ReleaseInv'
  BY <1>19 DEF ShutPop, Pop, Held, Wake
<1>20. ASSUME NEW l \in Launches, ShutFlag(l)  PROVE ReleaseInv'
  BY <1>20 DEF ShutFlag
<1>21. CASE Shutdown     BY <1>21 DEF Shutdown
<1>22. CASE ShutReturns  BY <1>22 DEF ShutReturns
<1>23. CASE UNCHANGED vars  BY <1>23 DEF vars
<1>24. QED
  BY <1>1, <1>2, <1>3, <1>4, <1>5, <1>6, <1>7, <1>8, <1>9, <1>10, <1>11, <1>12, <1>13, <1>14,
     <1>15, <1>16, <1>17, <1>18, <1>19, <1>20, <1>21, <1>22, <1>23 DEF Next, LaunchStep,
     WatchStep, ShutStep

LEMMA ShutStepInv == LimiterInv /\ [Next]_vars => ShutInv'
<1> SUFFICES ASSUME LimiterInv, [Next]_vars  PROVE ShutInv'
  OBVIOUS
<1> USE DEF LimiterInv, ledger, stopping, Only, Move, Turn, TypeOK, ThreadInv, ReleaseInv,
            ShutInv, ShutdownLeavesNothing
<1>1. ASSUME NEW l \in Launches, Acquire(l)  PROVE ShutInv'
  BY <1>1 DEF Acquire, Open, Full
<1>2. ASSUME NEW l \in Launches, Park(l)  PROVE ShutInv'
  BY <1>2 DEF Park
<1>3. ASSUME NEW l \in Launches, Refuse(l) \/ TimesOut(l)  PROVE ShutInv'
  BY <1>3 DEF Refuse, TimesOut
<1>4. ASSUME NEW l \in Launches, Spawn(l)  PROVE ShutInv'
  BY <1>4 DEF Spawn
<1>5. ASSUME NEW l \in Launches, Attach(l)  PROVE ShutInv'
  BY <1>5 DEF Attach
<1>6. ASSUME NEW l \in Launches, Attached(l)  PROVE ShutInv'
  BY <1>6 DEF Attached, Wake
<1>7. ASSUME NEW l \in Launches, Manage(l)  PROVE ShutInv'
  BY <1>7 DEF Manage, Watched
<1>8. ASSUME NEW l \in Launches, LateException(l)  PROVE ShutInv'
  BY <1>8 DEF LateException
<1>9. ASSUME NEW l \in Launches, Fail(l)  PROVE ShutInv'
  BY <1>9 DEF Fail
<1>10. ASSUME NEW l \in Launches, FailPop(l)  PROVE ShutInv'
  BY <1>10 DEF FailPop, Pop, Held, Wake
<1>11. ASSUME NEW l \in Launches, FailFlag(l)  PROVE ShutInv'
  BY <1>11 DEF FailFlag
<1>12. ASSUME NEW l \in Launches, Terminate(l)  PROVE ShutInv'
  BY <1>12 DEF Terminate, ChildExits
<1>13. ASSUME NEW l \in Launches, WaitReturns(l) \/ WaitRaises(l)  PROVE ShutInv'
  BY <1>13 DEF WaitReturns, Joined, WaitRaises
<1>14. ASSUME NEW l \in Launches, ChildExits(l)  PROVE ShutInv'
  BY <1>14 DEF ChildExits
<1>15. ASSUME NEW l \in Launches, Watch(l)  PROVE ShutInv'
  BY <1>15 DEF Watch
<1>16. ASSUME NEW l \in Launches, WatchPop(l)  PROVE ShutInv'
  BY <1>16 DEF WatchPop, Pop, Held, Wake
<1>17. ASSUME NEW l \in Launches, WatchFlag(l)  PROVE ShutInv'
  BY <1>17 DEF WatchFlag
<1>18. ASSUME NEW l \in Launches, ShutTest(l)  PROVE ShutInv'
  BY <1>18 DEF ShutTest
<1>19. ASSUME NEW l \in Launches, ShutPop(l)  PROVE ShutInv'
  BY <1>19 DEF ShutPop, Pop, Held, Wake
<1>20. ASSUME NEW l \in Launches, ShutFlag(l)  PROVE ShutInv'
  BY <1>20 DEF ShutFlag
<1>21. CASE Shutdown     BY <1>21 DEF Shutdown
<1>22. CASE ShutReturns  BY <1>22 DEF ShutReturns
<1>23. CASE UNCHANGED vars  BY <1>23 DEF vars
<1>24. QED
  BY <1>1, <1>2, <1>3, <1>4, <1>5, <1>6, <1>7, <1>8, <1>9, <1>10, <1>11, <1>12, <1>13, <1>14,
     <1>15, <1>16, <1>17, <1>18, <1>19, <1>20, <1>21, <1>22, <1>23 DEF Next, LaunchStep,
     WatchStep, ShutStep

\* Taking an active permit adds its one record.
LEMMA PopAccounted ==
  ASSUME LimiterInv, NEW l \in Launches, NEW c \in Conditions,
         Pop(l, c), Admitted' = Admitted, child' = child,
         \A k \in Launches \ {l} : watcher'[k] = watcher[k],
         c = "completed" => watcher'[l] = "flagging" /\ child[l] = "dead"
  PROVE  AccountInv'
<1> USE DEF LimiterInv, ledger, stopping, Only, Move, Turn, TypeOK, ReleaseInv, AccountInv,
            Accounted, Pop, Held
<1> DEFINE new == [launch |-> l, condition |-> c]
<1>1. /\ l \in active /\ l \in Admitted
      /\ active' = active \ {l} /\ records' = records \cup {new}
      /\ \A r \in records : r.launch # l /\ r.launch \in Launches
      /\ new.launch = l /\ new.condition = c
  BY DEF Admitted, Records
<1>2. \A k \in Admitted : k \in active' <=> \A r \in records' : r.launch # k
  BY <1>1
<1>3. \A r, q \in records' : r.launch = q.launch => r = q
  BY <1>1
<1>4. \A r \in records' : r.condition = "completed" =>
        child[r.launch] = "dead" /\ watcher'[r.launch] \in {"flagging", "ended"}
  BY <1>1
<1>5. \A r \in records' : r.launch \in Admitted
  BY <1>1
<1>6. QED BY <1>2, <1>3, <1>4, <1>5

LEMMA AccountStep == LimiterInv /\ [Next]_vars => AccountInv'
<1> SUFFICES ASSUME LimiterInv, [Next]_vars  PROVE AccountInv'
  OBVIOUS
<1> USE DEF LimiterInv, ledger, stopping, Only, Move, Turn, TypeOK, ThreadInv, ReleaseInv,
            AccountInv, Accounted, Admitted, Records
<1>1. ASSUME NEW l \in Launches, Acquire(l)  PROVE AccountInv'
  BY <1>1 DEF Acquire, Open, Full
<1>2. ASSUME NEW l \in Launches, Park(l)  PROVE AccountInv'
  BY <1>2 DEF Park
<1>3. ASSUME NEW l \in Launches, Refuse(l) \/ TimesOut(l)  PROVE AccountInv'
  BY <1>3 DEF Refuse, TimesOut
<1>4. ASSUME NEW l \in Launches, Spawn(l)  PROVE AccountInv'
  BY <1>4 DEF Spawn
<1>5. ASSUME NEW l \in Launches, Attach(l)  PROVE AccountInv'
  BY <1>5 DEF Attach
<1>6. ASSUME NEW l \in Launches, Attached(l)  PROVE AccountInv'
  BY <1>6 DEF Attached, Wake
<1>7. ASSUME NEW l \in Launches, Manage(l)  PROVE AccountInv'
  BY <1>7 DEF Manage, Watched
<1>8. ASSUME NEW l \in Launches, LateException(l)  PROVE AccountInv'
  BY <1>8 DEF LateException
<1>9. ASSUME NEW l \in Launches, Fail(l)  PROVE AccountInv'
  BY <1>9 DEF Fail
<1>10. ASSUME NEW l \in Launches, FailPop(l)  PROVE AccountInv'
  <2>1. CASE Held(l)
    <3>1. Pop(l, "spawn_failed") /\ child' = child
      BY <1>10, <2>1 DEF FailPop
    <3>2. Admitted' = Admitted
      BY <1>10, <3>1 DEF FailPop, Move, Wake
    <3>3. /\ \A k \in Launches \ {l} : watcher'[k] = watcher[k]
          /\ "spawn_failed" = "completed" => watcher'[l] = "flagging" /\ child[l] = "dead"
      BY <1>10, <2>1 DEF FailPop
    <3>4. QED BY <3>1, <3>2, <3>3, PopAccounted DEF Conditions
  <2>2. CASE ~Held(l)
    BY <1>10, <2>2 DEF FailPop, Pop
  <2>3. QED BY <2>1, <2>2
<1>11. ASSUME NEW l \in Launches, FailFlag(l)  PROVE AccountInv'
  BY <1>11 DEF FailFlag
<1>12. ASSUME NEW l \in Launches, Terminate(l)  PROVE AccountInv'
  BY <1>12 DEF Terminate, ChildExits
<1>13. ASSUME NEW l \in Launches, WaitReturns(l) \/ WaitRaises(l)  PROVE AccountInv'
  BY <1>13 DEF WaitReturns, Joined, WaitRaises
<1>14. ASSUME NEW l \in Launches, ChildExits(l)  PROVE AccountInv'
  BY <1>14 DEF ChildExits
<1>15. ASSUME NEW l \in Launches, Watch(l)  PROVE AccountInv'
  BY <1>15 DEF Watch
<1>16. ASSUME NEW l \in Launches, WatchPop(l)  PROVE AccountInv'
  <2>1. CASE Held(l)
    <3>1. Pop(l, "completed") /\ child' = child
      BY <1>16, <2>1 DEF WatchPop
    <3>2. Admitted' = Admitted
      BY <1>16, <3>1 DEF WatchPop, Move, Wake
    <3>3. /\ \A k \in Launches \ {l} : watcher'[k] = watcher[k]
          /\ "completed" = "completed" => watcher'[l] = "flagging" /\ child[l] = "dead"
      BY <1>16, <2>1 DEF WatchPop
    <3>4. QED BY <3>1, <3>2, <3>3, PopAccounted DEF Conditions
  <2>2. CASE ~Held(l)
    BY <1>16, <2>2 DEF WatchPop, Move, Pop
  <2>3. QED BY <2>1, <2>2
<1>17. ASSUME NEW l \in Launches, WatchFlag(l)  PROVE AccountInv'
  BY <1>17 DEF WatchFlag
<1>18. ASSUME NEW l \in Launches, ShutTest(l)  PROVE AccountInv'
  BY <1>18 DEF ShutTest
<1>19. ASSUME NEW l \in Launches, ShutPop(l)  PROVE AccountInv'
  <2>1. CASE Held(l)
    <3>1. Pop(l, "shutdown") /\ child' = child
      BY <1>19, <2>1 DEF ShutPop
    <3>2. Admitted' = Admitted
      BY <1>19, <3>1 DEF ShutPop, Move, Wake
    <3>3. /\ \A k \in Launches \ {l} : watcher'[k] = watcher[k]
          /\ "shutdown" = "completed" => watcher'[l] = "flagging" /\ child[l] = "dead"
      BY <1>19, <2>1 DEF ShutPop
    <3>4. QED BY <3>1, <3>2, <3>3, PopAccounted DEF Conditions
  <2>2. CASE ~Held(l)
    BY <1>19, <2>2 DEF ShutPop, Move, Pop
  <2>3. QED BY <2>1, <2>2
<1>20. ASSUME NEW l \in Launches, ShutFlag(l)  PROVE AccountInv'
  BY <1>20 DEF ShutFlag
<1>21. CASE Shutdown     BY <1>21 DEF Shutdown
<1>22. CASE ShutReturns  BY <1>22 DEF ShutReturns
<1>23. CASE UNCHANGED vars  BY <1>23 DEF vars
<1>24. QED
  BY <1>1, <1>2, <1>3, <1>4, <1>5, <1>6, <1>7, <1>8, <1>9, <1>10, <1>11, <1>12, <1>13, <1>14,
     <1>15, <1>16, <1>17, <1>18, <1>19, <1>20, <1>21, <1>22, <1>23 DEF Next, LaunchStep,
     WatchStep, ShutStep

LEMMA PermitStep == LimiterInv /\ [Next]_vars => PermitInv'
<1> SUFFICES ASSUME LimiterInv, [Next]_vars  PROVE PermitInv'
  OBVIOUS
<1> USE DEF LimiterInv, ledger, stopping, Only, Move, Turn, TypeOK, ThreadInv, ReleaseInv,
            PermitInv, Admitted, Counted, GivenUp, Running
<1>1. ASSUME NEW l \in Launches, Acquire(l)  PROVE PermitInv'
  BY <1>1 DEF Acquire, Open, Full
<1>2. ASSUME NEW l \in Launches, Park(l)  PROVE PermitInv'
  BY <1>2 DEF Park
<1>3. ASSUME NEW l \in Launches, Refuse(l) \/ TimesOut(l)  PROVE PermitInv'
  BY <1>3 DEF Refuse, TimesOut
<1>4. ASSUME NEW l \in Launches, Spawn(l)  PROVE PermitInv'
  BY <1>4 DEF Spawn
<1>5. ASSUME NEW l \in Launches, Attach(l)  PROVE PermitInv'
  BY <1>5 DEF Attach
<1>6. ASSUME NEW l \in Launches, Attached(l)  PROVE PermitInv'
  BY <1>6 DEF Attached, Wake
<1>7. ASSUME NEW l \in Launches, Manage(l)  PROVE PermitInv'
  BY <1>7 DEF Manage, Watched
<1>8. ASSUME NEW l \in Launches, LateException(l)  PROVE PermitInv'
  BY <1>8 DEF LateException
<1>9. ASSUME NEW l \in Launches, Fail(l)  PROVE PermitInv'
  BY <1>9 DEF Fail
<1>10. ASSUME NEW l \in Launches, FailPop(l)  PROVE PermitInv'
  BY <1>10 DEF FailPop, Pop, Held, Wake
<1>11. ASSUME NEW l \in Launches, FailFlag(l)  PROVE PermitInv'
  BY <1>11 DEF FailFlag
<1>12. ASSUME NEW l \in Launches, Terminate(l)  PROVE PermitInv'
  BY <1>12 DEF Terminate, ChildExits
<1>13. ASSUME NEW l \in Launches, WaitReturns(l) \/ WaitRaises(l)  PROVE PermitInv'
  BY <1>13 DEF WaitReturns, Joined, WaitRaises
<1>14. ASSUME NEW l \in Launches, ChildExits(l)  PROVE PermitInv'
  BY <1>14 DEF ChildExits
<1>15. ASSUME NEW l \in Launches, Watch(l)  PROVE PermitInv'
  BY <1>15 DEF Watch
<1>16. ASSUME NEW l \in Launches, WatchPop(l)  PROVE PermitInv'
  BY <1>16 DEF WatchPop, Pop, Held, Wake
<1>17. ASSUME NEW l \in Launches, WatchFlag(l)  PROVE PermitInv'
  BY <1>17 DEF WatchFlag
<1>18. ASSUME NEW l \in Launches, ShutTest(l)  PROVE PermitInv'
  BY <1>18 DEF ShutTest
<1>19. ASSUME NEW l \in Launches, ShutPop(l)  PROVE PermitInv'
  BY <1>19 DEF ShutPop, Pop, Held, Wake
<1>20. ASSUME NEW l \in Launches, ShutFlag(l)  PROVE PermitInv'
  BY <1>20 DEF ShutFlag
<1>21. CASE Shutdown     BY <1>21 DEF Shutdown
<1>22. CASE ShutReturns  BY <1>22 DEF ShutReturns
<1>23. CASE UNCHANGED vars  BY <1>23 DEF vars
<1>24. QED
  BY <1>1, <1>2, <1>3, <1>4, <1>5, <1>6, <1>7, <1>8, <1>9, <1>10, <1>11, <1>12, <1>13, <1>14,
     <1>15, <1>16, <1>17, <1>18, <1>19, <1>20, <1>21, <1>22, <1>23 DEF Next, LaunchStep,
     WatchStep, ShutStep

LEMMA OwnedStep == LimiterInv /\ [Next]_vars => PermitsOwned'
<1> SUFFICES ASSUME LimiterInv, [Next]_vars  PROVE PermitsOwned'
  OBVIOUS
<1> USE DEF LimiterInv, ledger, stopping, Only, Move, Turn, TypeOK, ReleaseInv, Admitted,
            PermitsOwned, Answers
<1>1. ASSUME NEW l \in Launches, Acquire(l)  PROVE PermitsOwned'
  BY <1>1 DEF Acquire, Open, Full
<1>2. ASSUME NEW l \in Launches, Park(l)  PROVE PermitsOwned'
  BY <1>2 DEF Park
<1>3. ASSUME NEW l \in Launches, Refuse(l) \/ TimesOut(l)  PROVE PermitsOwned'
  BY <1>3 DEF Refuse, TimesOut
<1>4. ASSUME NEW l \in Launches, Spawn(l)  PROVE PermitsOwned'
  BY <1>4 DEF Spawn
<1>5. ASSUME NEW l \in Launches, Attach(l)  PROVE PermitsOwned'
  BY <1>5 DEF Attach
<1>6. ASSUME NEW l \in Launches, Attached(l)  PROVE PermitsOwned'
  BY <1>6 DEF Attached, Wake
<1>7. ASSUME NEW l \in Launches, Manage(l)  PROVE PermitsOwned'
  BY <1>7 DEF Manage, Watched
<1>8. ASSUME NEW l \in Launches, LateException(l)  PROVE PermitsOwned'
  BY <1>8 DEF LateException
<1>9. ASSUME NEW l \in Launches, Fail(l)  PROVE PermitsOwned'
  BY <1>9 DEF Fail
<1>10. ASSUME NEW l \in Launches, FailPop(l)  PROVE PermitsOwned'
  BY <1>10 DEF FailPop, Pop, Held, Wake
<1>11. ASSUME NEW l \in Launches, FailFlag(l)  PROVE PermitsOwned'
  BY <1>11 DEF FailFlag
<1>12. ASSUME NEW l \in Launches, Terminate(l)  PROVE PermitsOwned'
  BY <1>12 DEF Terminate, ChildExits
<1>13. ASSUME NEW l \in Launches, WaitReturns(l) \/ WaitRaises(l)  PROVE PermitsOwned'
  BY <1>13 DEF WaitReturns, Joined, WaitRaises
<1>14. ASSUME NEW l \in Launches, ChildExits(l)  PROVE PermitsOwned'
  BY <1>14 DEF ChildExits
<1>15. ASSUME NEW l \in Launches, Watch(l)  PROVE PermitsOwned'
  BY <1>15 DEF Watch
<1>16. ASSUME NEW l \in Launches, WatchPop(l)  PROVE PermitsOwned'
  BY <1>16 DEF WatchPop, Pop, Held, Wake
<1>17. ASSUME NEW l \in Launches, WatchFlag(l)  PROVE PermitsOwned'
  BY <1>17 DEF WatchFlag
<1>18. ASSUME NEW l \in Launches, ShutTest(l)  PROVE PermitsOwned'
  BY <1>18 DEF ShutTest
<1>19. ASSUME NEW l \in Launches, ShutPop(l)  PROVE PermitsOwned'
  BY <1>19 DEF ShutPop, Pop, Held, Wake
<1>20. ASSUME NEW l \in Launches, ShutFlag(l)  PROVE PermitsOwned'
  BY <1>20 DEF ShutFlag
<1>21. CASE Shutdown     BY <1>21 DEF Shutdown
<1>22. CASE ShutReturns  BY <1>22 DEF ShutReturns
<1>23. CASE UNCHANGED vars  BY <1>23 DEF vars
<1>24. QED
  BY <1>1, <1>2, <1>3, <1>4, <1>5, <1>6, <1>7, <1>8, <1>9, <1>10, <1>11, <1>12, <1>13, <1>14,
     <1>15, <1>16, <1>17, <1>18, <1>19, <1>20, <1>21, <1>22, <1>23 DEF Next, LaunchStep,
     WatchStep, ShutStep

\* Every step but an acquisition leaves the counted launches or fewer.
LEMMA CountedStep ==
  LimiterInv /\ [Next]_vars =>
    Counted' \subseteq Counted \/ \E l \in Launches : Acquire(l)
<1> SUFFICES ASSUME LimiterInv, [Next]_vars, ~ \E l \in Launches : Acquire(l)
             PROVE  Counted' \subseteq Counted
  OBVIOUS
<1> USE DEF LimiterInv, ledger, stopping, Only, Move, Turn, TypeOK, Counted, Running, GivenUp
<1>1. ASSUME NEW l \in Launches, Park(l)  PROVE Counted' \subseteq Counted
  BY <1>1 DEF Park
<1>2. ASSUME NEW l \in Launches, Refuse(l) \/ TimesOut(l)  PROVE Counted' \subseteq Counted
  BY <1>2 DEF Refuse, TimesOut
<1>3. ASSUME NEW l \in Launches, Spawn(l)  PROVE Counted' \subseteq Counted
  BY <1>3 DEF Spawn
<1>4. ASSUME NEW l \in Launches, Attach(l)  PROVE Counted' \subseteq Counted
  BY <1>4 DEF Attach
<1>5. ASSUME NEW l \in Launches, Attached(l)  PROVE Counted' \subseteq Counted
  BY <1>5 DEF Attached, Wake
<1>6. ASSUME NEW l \in Launches, Manage(l)  PROVE Counted' \subseteq Counted
  BY <1>6 DEF Manage
<1>7. ASSUME NEW l \in Launches, LateException(l)  PROVE Counted' \subseteq Counted
  BY <1>7 DEF LateException
<1>8. ASSUME NEW l \in Launches, Fail(l)  PROVE Counted' \subseteq Counted
  BY <1>8 DEF Fail
<1>9. ASSUME NEW l \in Launches, FailPop(l)  PROVE Counted' \subseteq Counted
  BY <1>9 DEF FailPop, Wake
<1>10. ASSUME NEW l \in Launches, FailFlag(l)  PROVE Counted' \subseteq Counted
  BY <1>10 DEF FailFlag
<1>11. ASSUME NEW l \in Launches, Terminate(l)  PROVE Counted' \subseteq Counted
  BY <1>11 DEF Terminate, ChildExits
<1>12. ASSUME NEW l \in Launches, WaitReturns(l) \/ WaitRaises(l)
      PROVE  Counted' \subseteq Counted
  BY <1>12 DEF WaitReturns, WaitRaises
<1>13. ASSUME NEW l \in Launches, ChildExits(l)  PROVE Counted' \subseteq Counted
  BY <1>13 DEF ChildExits
<1>14. ASSUME NEW l \in Launches, Watch(l)  PROVE Counted' \subseteq Counted
  BY <1>14 DEF Watch
<1>15. ASSUME NEW l \in Launches, WatchPop(l)  PROVE Counted' \subseteq Counted
  BY <1>15 DEF WatchPop, Wake
<1>16. ASSUME NEW l \in Launches, WatchFlag(l)  PROVE Counted' \subseteq Counted
  BY <1>16 DEF WatchFlag
<1>17. ASSUME NEW l \in Launches, ShutTest(l)  PROVE Counted' \subseteq Counted
  BY <1>17 DEF ShutTest
<1>18. ASSUME NEW l \in Launches, ShutPop(l)  PROVE Counted' \subseteq Counted
  BY <1>18 DEF ShutPop, Wake
<1>19. ASSUME NEW l \in Launches, ShutFlag(l)  PROVE Counted' \subseteq Counted
  BY <1>19 DEF ShutFlag
<1>20. CASE Shutdown     BY <1>20 DEF Shutdown
<1>21. CASE ShutReturns  BY <1>21 DEF ShutReturns
<1>22. CASE UNCHANGED vars  BY <1>22 DEF vars
<1>23. QED
  BY <1>1, <1>2, <1>3, <1>4, <1>5, <1>6, <1>7, <1>8, <1>9, <1>10, <1>11, <1>12, <1>13, <1>14,
     <1>15, <1>16, <1>17, <1>18, <1>19, <1>20, <1>21, <1>22 DEF Next, LaunchStep, WatchStep,
     ShutStep

\* Counting: a set that only shrinks keeps the limit, and an acquisition is
\* made below it, with every counted launch among the active permits.
LEMMA CountStep ==
  LimiterInv /\ [Next]_vars => (Cardinality(Counted) <= MaxProcesses)'
<1> SUFFICES ASSUME LimiterInv, [Next]_vars  PROVE Cardinality(Counted') <= MaxProcesses
  OBVIOUS
<1>1. Counted \subseteq Launches /\ Counted' \subseteq Launches /\ active \subseteq Launches
  BY DEF LimiterInv, TypeOK, Counted
<1>2. /\ IsFiniteSet(Counted) /\ IsFiniteSet(Counted') /\ IsFiniteSet(active)
      /\ Cardinality(Counted) \in Nat /\ Cardinality(Counted') \in Nat /\ Cardinality(active) \in Nat
  BY <1>1, LaunchAssumption, FS_Subset, FS_CardinalityType
<1>3. CASE Counted' \subseteq Counted
  <2>1. Cardinality(Counted') <= Cardinality(Counted)
    BY <1>2, <1>3, FS_Subset
  <2>2. QED BY <1>2, <2>1, LimitAssumption DEF LimiterInv
<1>4. ASSUME NEW l \in Launches, Acquire(l)  PROVE Cardinality(Counted') <= MaxProcesses
  <2>1. Counted' \subseteq active' /\ active' = active \cup {l}
    <3>1. Counted' \subseteq Counted \cup {l}
      BY <1>4 DEF Acquire, Move, LimiterInv, TypeOK, Counted, Running, GivenUp
    <3>2. Counted \subseteq active
      BY <1>4 DEF Acquire, Open, LimiterInv, PermitInv
    <3>3. QED BY <1>4, <3>1, <3>2 DEF Acquire
  <2>2. IsFiniteSet(active') /\ Cardinality(active') \in Nat
        /\ Cardinality(active') <= Cardinality(active) + 1
    <3>1. /\ IsFiniteSet(active \cup {l})
          /\ Cardinality(active \cup {l}) <= Cardinality(active) + 1
      <4>1. /\ IsFiniteSet(active \cup {l})
            /\ Cardinality(active \cup {l}) =
                 IF l \in active THEN Cardinality(active) ELSE Cardinality(active) + 1
        BY <1>2, FS_AddElement
      <4>2. QED BY <1>2, <4>1
    <3>2. QED BY <2>1, <3>1, FS_CardinalityType
  <2>3. Cardinality(Counted') <= Cardinality(active')
    BY <2>1, <2>2, FS_Subset
  <2>4. Cardinality(active) < MaxProcesses
    BY <1>2, <1>4, LimitAssumption DEF Acquire, Full
  <2>5. QED BY <1>2, <2>2, <2>3, <2>4, LimitAssumption
<1>5. QED BY <1>3, <1>4, CountedStep

LEMMA LimiterInit == Init => LimiterInv
<1> SUFFICES ASSUME Init  PROVE LimiterInv
  OBVIOUS
<1>1. TypeOK /\ ThreadInv /\ ReleaseInv /\ ShutInv /\ AccountInv /\ PermitInv /\ PermitsOwned
  BY DEF Init, TypeOK, CallerStates, WatcherStates, ShutStates, ThreadInv, ReleaseInv, ShutInv,
         ShutdownLeavesNothing, AccountInv, Accounted, Admitted, PermitInv, Counted, Running,
         GivenUp, PermitsOwned
<1>2. Counted = {}
  BY DEF Init, Counted, Running
<1>3. Cardinality(Counted) <= MaxProcesses
  BY <1>2, FS_EmptySet, LimitAssumption
<1>4. QED BY <1>1, <1>3 DEF LimiterInv

\* The invariant of the limiter: launches, watchers, shutdowns and the permits.
THEOREM LimiterInvariant == Spec => []LimiterInv
<1>1. LimiterInv /\ [Next]_vars => LimiterInv'
  BY TypeStep, ThreadStep, ReleaseStep, ShutStepInv, AccountStep, PermitStep, OwnedStep, CountStep
     DEF LimiterInv
<1>2. QED BY <1>1, LimiterInit, PTL DEF Spec

(***************************************************************************)
(* The limit holds for the children of launches that have not raised, for  *)
(* every limit, any number of launches and whatever goes wrong.            *)
(***************************************************************************)
THEOREM Admission == Spec => []AdmissionBound
<1>1. ASSUME LimiterInv  PROVE AdmissionBound
  <2>1. Running \ GivenUp \subseteq Counted /\ Counted \subseteq Launches
    BY DEF Counted, Running
  <2>2. IsFiniteSet(Counted)
    BY <2>1, LaunchAssumption, FS_Subset
  <2>3. Cardinality(Running \ GivenUp) <= Cardinality(Counted)
    BY <2>1, <2>2, FS_Subset
  <2>4. Cardinality(Running \ GivenUp) \in Nat /\ Cardinality(Counted) \in Nat
    BY <2>1, <2>2, FS_Subset, FS_CardinalityType
  <2>5. QED BY <1>1, <2>3, <2>4, LimitAssumption DEF LimiterInv, AdmissionBound
<1>2. QED BY <1>1, LimiterInvariant, PTL

(***************************************************************************)
(* Without an exception between the start of a child and that of its       *)
(* watcher the limit holds for all children, also after a forced shutdown. *)
(***************************************************************************)
THEOREM StrictAdmission ==
  ASSUME "late" \notin Faults
  PROVE  Spec => []StrictBound
<1>1. ASSUME LimiterInv  PROVE StrictBound
  <2>1. Running \subseteq Counted /\ Counted \subseteq Launches
    BY DEF Counted, Running
  <2>2. IsFiniteSet(Counted)
    BY <2>1, LaunchAssumption, FS_Subset
  <2>3. Cardinality(Running) <= Cardinality(Counted)
    BY <2>1, <2>2, FS_Subset
  <2>4. Cardinality(Running) \in Nat /\ Cardinality(Counted) \in Nat
    BY <2>1, <2>2, FS_Subset, FS_CardinalityType
  <2>5. QED BY <1>1, <2>3, <2>4, LimitAssumption DEF LimiterInv, StrictBound
<1>2. QED BY <1>1, LimiterInvariant, PTL

(***************************************************************************)
(* Limiter, launches, watchers and shutdown keep their types.              *)
(***************************************************************************)
THEOREM LimiterTypeCorrect == Spec => []TypeOK
<1>1. LimiterInv => TypeOK
  BY DEF LimiterInv
<1>2. QED BY <1>1, LimiterInvariant, PTL

(***************************************************************************)
(* Every admitted permit is active or has exactly one record, whichever of *)
(* launch, watcher and shutdown releases it, and however they interleave.  *)
(***************************************************************************)
THEOREM PermitsAccounted == Spec => []Accounted
<1>1. LimiterInv => Accounted
  BY DEF LimiterInv, AccountInv
<1>2. QED BY <1>1, LimiterInvariant, PTL

(***************************************************************************)
(* A forced shutdown that has returned leaves no permit in use.            *)
(***************************************************************************)
THEOREM ShutdownComplete == Spec => []ShutdownLeavesNothing
<1>1. LimiterInv => ShutdownLeavesNothing
  BY DEF LimiterInv, ShutInv
<1>2. QED BY <1>1, LimiterInvariant, PTL

(***************************************************************************)
(* A permit in use has a launch or a watcher that is still to give it      *)
(* back, also when wait has given up on the watcher or on the child.       *)
(***************************************************************************)
THEOREM NoPermitOrphaned == Spec => []PermitsOwned
<1>1. LimiterInv => PermitsOwned
  BY DEF LimiterInv
<1>2. QED BY <1>1, LimiterInvariant, PTL

(***************************************************************************)
(* After wait, returned or raised, the permit is free, if every watcher    *)
(* ends within its join and every killed child within the wait for it:     *)
(* join(timeout=5.0) and wait(timeout=5.0) guarantee no more.              *)
(***************************************************************************)
THEOREM WaitFreesPermit ==
  ASSUME Faults \cap {"slow", "stuck"} = {}
  PROVE  Spec => []WaitReleases
<1>1. LimiterInv => WaitReleases
  BY DEF LimiterInv, ThreadInv, ReleaseInv, WaitReleases
<1>2. QED BY <1>1, LimiterInvariant, PTL

(***************************************************************************)
(* Without an exception between the start of a child and that of its       *)
(* watcher the module's own account is true: a running child has a permit, *)
(* until a forced shutdown takes it.  That exception alone breaks it.      *)
(***************************************************************************)
THEOREM SlotsHeldByChildren ==
  ASSUME "late" \notin Faults
  PROVE  Spec => []ReleasedByWatcher
<1>1. LimiterInv => ReleasedByWatcher
  BY DEF LimiterInv, PermitInv, Counted, Running, ReleasedByWatcher
<1>2. QED BY <1>1, LimiterInvariant, PTL
=============================================================================
