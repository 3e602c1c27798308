------------------------ MODULE PersistentAncfProofs ------------------------
(***************************************************************************)
(* Proofs about PersistentAncf: the types, the agreement of driver, client *)
(* and worker, the two records of a manifest, the protocol of the worker,  *)
(* and that all of it implements StagedStructure, for every number of      *)
(* steps and attempts and every set of faults.                             *)
(*                                                                         *)
(* The invariant says for each command what the worker is like before it   *)
(* and after it.  A command is before its execution until the worker has   *)
(* handled the request, which may be long after the client has given up,   *)
(* so this part speaks of the request, not of the driver's phase.  Of a    *)
(* worker the client has given up on nothing else is known, nor needed:    *)
(* nobody sends it another command.                                        *)
(***************************************************************************)
EXTENDS PersistentAncf, TLAPS

Atts    == {m.att : m \in disk}
Durable == {m.json : m \in disk} \cup {0}

\* The snapshot before the correction, and the export of this attempt.
Snapshot == [state |-> base, step |-> last]
Kept     == [state |-> att, step |-> cur]

\* Where the worker's stages can be.
Idle(state, step) ==
  /\ worker.initialized
  /\ worker.committed = state /\ worker.step = step
  /\ worker.prediction = 0 /\ worker.correction = 0

HasPredicted ==
  /\ worker.initialized
  /\ worker.committed = base /\ worker.step = last
  /\ worker.prediction = att /\ worker.correction = 0
  /\ worker.pendingStep = cur

HasStaged ==
  /\ worker.initialized
  /\ worker.committed = base /\ worker.step = last
  /\ worker.correction = att /\ worker.token = att
  /\ worker.pendingStep = cur

\* The worker as a command finds it,
Before(p) ==
  /\ p = "start" => ~worker.initialized
  /\ p = "predict" => Idle(base, last)
  /\ p = "snapshot" => HasPredicted
  /\ p = "correct" => HasPredicted /\ files[0] = Snapshot
  /\ p = "export" => HasStaged /\ files[0] = Snapshot
  /\ p = "finalize" => HasStaged /\ worker.saved = att
  /\ p = "discard" => worker.initialized /\ files[0] # NoFile
  /\ p = "reload" => files[0] # NoFile
  /\ p = "refinalize" => worker.correction = 0
  /\ p = "restore" => Idle(base, last)

\* as it leaves it when it has completed,
After(p) ==
  /\ p = "start" => Idle(base, last)
  /\ p = "predict" => HasPredicted
  /\ p = "snapshot" => HasPredicted /\ files[0] = Snapshot
  /\ p = "correct" => HasStaged /\ files[0] = Snapshot
  /\ p = "export" => HasStaged /\ files[0] = Snapshot /\ worker.saved = att
  /\ p = "finalize" => Idle(att, cur)
  /\ p = "discard" => files[0] # NoFile
  /\ p = "recover" => worker.correction = 0
  /\ p = "restore" => Idle(files[target].state, files[target].step)

\* and what is left where a failed command is followed by another.
Spoiled(p) ==
  /\ p = "export" => worker.initialized /\ files[0] # NoFile
  /\ p = "restore" => Idle(base, last)

\* Where the driver can be once the client has given up on a command.
Abandoned(p) ==
  CASE p = "export"                               -> {"discard", "failed"}
    [] p \in {"finalize", "recover", "refinalize"} -> {"recovery", "recover"}
    [] p = "restore"                              -> {"ready", "restore", "predict", "failed"}
    [] OTHER                                      -> {"failed"}

\* One command at a time, and one answer to it.
ClientInv ==
  /\ waiting => phase \in Calls /\ ~broken
  /\ ~waiting /\ ~broken => request = NoRequest
  /\ request # NoRequest =>
       /\ response = NoResponse
       /\ waiting => phase = request.by
       /\ ~waiting => phase \in Abandoned(request.by)
  /\ waiting /\ response # NoResponse => response.by = phase
  /\ phase \in {"slices", "snapshot", "correct", "export", "publish", "finalize"} => ~broken

Running == {"predict", "slices", "snapshot", "correct", "export", "publish"}

\* Driver, adapter, manifests and files, whatever the worker does.
RecordInv ==
  /\ NativeMatchesJson
  /\ \A m, n \in disk : m.att = n.att => m = n
  /\ \A m \in disk : m.att <= att
  /\ (base = 0 /\ last = -1) \/ \E n \in disk : n.att = base /\ n.step = last
  /\ files[0].state \in Durable /\ (files[0] # NoFile => files[0].step \in StepNos)
  /\ worker.committed \in Durable

PhaseInv ==
  /\ phase = "start" => base = 0 /\ last = -1
  /\ phase \in Running => att > 0 /\ cur = last + 1 /\ att \notin Atts
  /\ phase \in {"export", "publish"} => pending = att
  /\ phase = "publish" => token = att /\ files[att] = Kept
  /\ phase = "finalize" => token = att /\ \E m \in disk : m.att = att /\ m.step = cur
  /\ phase \in {"recover", "restore"} => target \in Atts
  /\ phase \in {"start", "ready", "restore", "predict", "slices", "snapshot", "correct"} => ~active

\* What a request asks for.
RequestInv ==
  request # NoRequest =>
    /\ request.by = "predict" => request.arg = cur /\ cur = last + 1
    /\ request.by = "correct" => request.arg = cur
    /\ request.by \in {"predict", "correct", "export", "snapshot"} => att > 0 /\ att \notin Atts
    /\ request.by \in {"snapshot", "reload"} => request.arg = 0
    /\ request.by = "export" => request.arg = att
    /\ request.by = "finalize" => request.arg = att /\ att \in Atts
    /\ request.by \in {"recover", "restore"} => request.arg \in Atts
    /\ request.by \in {"recover", "restore"} /\ waiting => request.arg = target

\* What an answer says, also when its sender has exited since.
AnswerInv ==
  waiting /\ response.status = "complete" =>
    /\ phase = "correct" => response.state = att
    /\ phase = "export" => response.token = att /\ files[att] = Kept
    /\ phase \in {"recover", "restore"} => response.state = files[target].state
    /\ phase # "refinalize"

\* The worker, while it lives.
WorkerInv ==
  worker.alive =>
    /\ request # NoRequest => Before(request.by)
    /\ ~broken =>
         /\ ~waiting /\ phase \in Calls => Before(phase)
         /\ waiting /\ response.status = "complete" => After(phase)
         /\ waiting /\ response.status \in {"illegal", "failed"} => Spoiled(phase)
         /\ phase = "slices" => HasPredicted
         /\ phase = "publish" => HasStaged /\ files[0] = Snapshot /\ worker.saved = att
         /\ phase = "ready" => Idle(base, last)

IInv == TypeOK /\ ClientInv /\ RecordInv /\ PhaseInv /\ RequestInv /\ AnswerInv
        /\ WorkerInv /\ CallsLegal
-----------------------------------------------------------------------------
\* Types: the small sets the numbers come from, and the worker's commands.
LEMMA Numbers ==
  /\ MaxStep \in Nat /\ MaxAttempts \in Nat
  /\ 0 \in Versions /\ 0 \in Steps /\ -1 \in StepNos /\ -1 \in (-1)..MaxAttempts
  /\ 0 \in (-MaxAttempts)..MaxAttempts
  /\ \A a \in Versions : a \in (-MaxAttempts)..MaxAttempts /\ -a \in (-MaxAttempts)..MaxAttempts
  /\ \A a \in Versions : a \in (-1)..MaxAttempts /\ a \in (-1)..(MaxStep + MaxAttempts)
  /\ \A k \in Steps : k \in StepNos /\ k \in (-1)..(MaxStep + MaxAttempts)
  /\ \A a \in Attempts : a \in Versions
  BY SizeAssumption DEF Versions, StepNos, Steps, Attempts

LEMMA FreshType ==
  /\ FreshWorker \in Workers /\ NoFile \in Files
  /\ NoRequest \in Requests /\ NoResponse \in Responses
  BY Numbers DEF FreshWorker, NoFile, NoRequest, NoResponse, Workers, Files, Requests, Responses,
     StepNos

LEMMA ArgumentType ==
  ASSUME TypeOK  PROVE Argument \in (-1)..(MaxStep + MaxAttempts)
  BY Numbers DEF TypeOK, Argument

LEMMA ManifestFile ==
  ASSUME NativeMatchesJson, NEW m \in disk
  PROVE  m.json = m.att /\ files[m.att].state = m.att /\ files[m.att].step = m.step
<1>1. m.json = m.att /\ files[m.att] = [state |-> m.json, step |-> m.step]
  BY Zenon DEF NativeMatchesJson
<1>2. QED BY <1>1

\* What each command makes of a well-typed worker.
LEMMA CommandTypes ==
  ASSUME TypeOK, RequestInv, RecordInv, request # NoRequest, Handle
  PROVE  worker' \in Workers /\ files' \in [Versions -> Files] /\ response' \in Responses
<1> USE Numbers, FreshType
<1>1. /\ worker \in Workers /\ files \in [Versions -> Files] /\ response \in Responses
      /\ request.by \in Calls /\ request.arg \in Int /\ att \in Versions /\ cur \in Steps
  BY DEF TypeOK, Requests, NoRequest, Attempts, Versions
<1>2. ASSUME NEW st \in (-MaxAttempts)..MaxAttempts, NEW tok \in Versions
      PROVE  Answer(st, tok) \in Responses
  BY <1>1 DEF Answer, Responses
<1>3. ASSUME NEW code \in {"illegal", "failed"}  PROVE Refusal(code) \in Responses
  BY <1>1 DEF Refusal, Responses
<1>4. ASSUME NEW r \in Responses, Respond(r)  PROVE response' \in Responses
  BY <1>1, <1>4 DEF Respond
<1>5. CASE Initialize
  BY <1>1, <1>2, <1>4, <1>5 DEF Initialize, Workers, FreshWorker
<1>6. CASE PredictCommand
  BY <1>1, <1>2, <1>4, <1>6 DEF PredictCommand, Workers, RequestInv
<1>7. CASE CorrectCommand
  BY <1>1, <1>2, <1>4, <1>7 DEF CorrectCommand, Workers
<1>8. CASE SaveCommand
  <2>1. request.arg \in Versions /\ request.arg \in (-1)..MaxAttempts
    BY <1>1, <1>8 DEF SaveCommand, RequestInv
  <2>2. worker.correction \in Versions /\ worker.pendingStep \in StepNos
        /\ worker.committed \in Versions /\ worker.step \in StepNos /\ worker.token \in Versions
    BY <1>1 DEF Workers
  <2>3. files' \in [Versions -> Files]
    BY <1>1, <1>8, <2>1, <2>2 DEF SaveCommand, Files
  <2>4. worker' \in Workers
    BY <1>1, <1>8, <2>1, <2>2 DEF SaveCommand, Workers
  <2>5. response' \in Responses
    BY <1>2, <1>4, <1>8, <2>2 DEF SaveCommand
  <2>6. QED BY <2>3, <2>4, <2>5
<1>9. CASE FinalizeCommand
  BY <1>1, <1>2, <1>4, <1>9 DEF FinalizeCommand, Unstaged, Workers
<1>10. CASE DiscardCommand
  BY <1>1, <1>2, <1>4, <1>10 DEF DiscardCommand, Unstaged, Workers
<1>11. CASE LoadCommand
  <2>1. request.arg \in Versions /\ files[request.arg].step \in StepNos
    <3>1. CASE request.by = "reload"
      <4>1. request.arg = 0 /\ files[request.arg] # NoFile
        BY <1>11, <3>1 DEF LoadCommand, RequestInv
      <4>2. QED BY <4>1 DEF RecordInv
    <3>2. CASE request.by \in {"recover", "restore"}
      <4>1. PICK m \in disk : m.att = request.arg
        BY <3>2 DEF RequestInv, Atts
      <4>2. m.att \in Versions /\ m.step \in StepNos
        BY <4>1 DEF TypeOK, Manifests
      <4>3. files[m.att].step = m.step
        BY <4>1, ManifestFile DEF RecordInv
      <4>4. QED BY <4>1, <4>2, <4>3
    <3>3. QED BY <1>11, <3>1, <3>2 DEF LoadCommand
<2>2. files[request.arg].state \in Versions
    BY <1>1, <2>1 DEF Files
  <2>3. worker' \in Workers
    BY <1>1, <1>11, <2>1, <2>2 DEF LoadCommand, Unstaged, Workers
  <2>4. response' \in Responses
    BY <1>2, <1>4, <1>11, <2>2 DEF LoadCommand
  <2>5. QED BY <1>1, <1>11, <2>3, <2>4 DEF LoadCommand
<1>12. CASE FailCommand
  BY <1>1, <1>3, <1>4, <1>12 DEF FailCommand, Workers
<1>13. CASE RefuseCommand
  BY <1>1, <1>3, <1>4, <1>13 DEF RefuseCommand
<1>14. QED BY <1>5, <1>6, <1>7, <1>8, <1>9, <1>10, <1>11, <1>12, <1>13 DEF Handle

\* A complete answer names a state and a token.
LEMMA AnswerType ==
  ASSUME TypeOK, Answered
  PROVE  response.state \in (-MaxAttempts)..MaxAttempts /\ response.token \in Versions
  BY DEF TypeOK, Answered, Responses, NoResponse

LEMMA CallTypes ==
  ASSUME TypeOK, CallStep  PROVE TypeOK'
<1> USE Numbers, FreshType, AnswerType DEF TypeOK, driver, adapter, Calls, Points, Resting
<1>1. CASE Send
  BY <1>1, ArgumentType DEF Send, Requests
<1>2. CASE CannotSend
  BY <1>2 DEF CannotSend, Raise, FailPrecommit
<1>3. CASE ReceiveError
  BY <1>3 DEF ReceiveError, Raise, FailPrecommit
<1>4. CASE SeeExit
  BY <1>4 DEF SeeExit, Raise, FailPrecommit
<1>5. CASE TimeOut
  BY <1>5 DEF TimeOut, Raise, FailPrecommit
<1>6. CASE Started
  BY <1>6 DEF Started, Received
<1>7. CASE Predicted
  BY <1>7 DEF Predicted, Received
<1>8. CASE Snapshotted
  BY <1>8 DEF Snapshotted, Received
<1>9. CASE Corrected
  BY <1>9 DEF Corrected, Received
<1>10. CASE Exported
  BY <1>10 DEF Exported, Received
<1>11. CASE Finalized
  BY <1>11 DEF Finalized, Received, Manifests
<1>12. CASE Discarded
  BY <1>12 DEF Discarded, Received
<1>13. CASE Reloaded
  BY <1>13 DEF Reloaded, Received
<1>14. ASSUME NEW m \in disk, Loaded(m)  PROVE TypeOK'
  BY <1>14 DEF Loaded, Received, Manifests
<1>15. QED BY <1>1, <1>2, <1>3, <1>4, <1>5, <1>6, <1>7, <1>8, <1>9, <1>10, <1>11, <1>12,
            <1>13, <1>14 DEF CallStep

\* A manifest is published with the attempt's own state.
LEMMA ManifestType ==
  ASSUME TypeOK, RecordInv, PhaseInv, phase = "publish"
  PROVE  NewManifest \in Manifests
<1>1. att \in Attempts /\ pending = att
  BY SizeAssumption DEF TypeOK, PhaseInv, Running, Versions, Attempts
<1>2. QED BY <1>1, Numbers DEF TypeOK, NewManifest, Manifests

LEMMA DriverTypes ==
  ASSUME TypeOK, RecordInv, PhaseInv, StepStep \/ Decide \/ WorkerExits  PROVE TypeOK'
<1> USE Numbers, FreshType
<1>1. CASE SlicesDone
  BY <1>1 DEF TypeOK, SlicesDone, driver, adapter, client, Calls
<1>2. CASE StepRaises
  BY <1>2, ManifestType
     DEF TypeOK, StepRaises, FailPrecommit, PublishManifest, driver, adapter, client, Calls, Resting
<1>3. CASE Publish
  BY <1>3, ManifestType DEF TypeOK, Publish, PublishManifest, driver, adapter, client, Calls
<1>4. CASE RunStep
  <2>1. cur' \in Steps /\ att' \in Versions
    BY <1>4 DEF TypeOK, RunStep, Steps, Versions
  <2>2. QED BY <1>4, <2>1 DEF TypeOK, RunStep, adapter, client, Calls
<1>5. CASE Restart
  BY <1>5 DEF TypeOK, Restart, Calls
<1>6. ASSUME NEW m \in disk, Recover(m) \/ Restore(m)  PROVE TypeOK'
  BY <1>6 DEF TypeOK, Recover, Restore, driver, adapter, client, Calls, Manifests
<1>7. CASE WorkerExits
  BY <1>7 DEF TypeOK, WorkerExits, driver, adapter, client, FreshWorker, Workers
<1>8. QED BY <1>1, <1>2, <1>3, <1>4, <1>5, <1>6, <1>7 DEF StepStep, Decide

LEMMA HandleTypes ==
  ASSUME TypeOK, RequestInv, RecordInv, Handle  PROVE TypeOK'
<1>1. request # NoRequest
  BY DEF Handle
<1>2. worker' \in Workers /\ files' \in [Versions -> Files] /\ response' \in Responses
  BY <1>1, CommandTypes
<1>3. QED BY <1>2, FreshType DEF TypeOK, Handle, driver, adapter, client

LEMMA TypeStep == IInv /\ [Next]_vars => TypeOK'
<1> SUFFICES ASSUME IInv, [Next]_vars  PROVE TypeOK'
  OBVIOUS
<1>1. CASE UNCHANGED vars
  BY <1>1 DEF IInv, TypeOK, vars, driver, adapter, client
<1>2. QED BY <1>1, CallTypes, DriverTypes, HandleTypes DEF IInv, Next
-----------------------------------------------------------------------------
\* The worker's commands.

\* What a handled request leaves alone, and what was known before.
LEMMA HandleFrame ==
  ASSUME IInv, Handle
  PROVE  /\ request # NoRequest /\ request' = NoRequest /\ response = NoResponse
         /\ phase' = phase /\ last' = last /\ base' = base /\ cur' = cur /\ att' = att
         /\ active' = active /\ target' = target /\ pending' = pending /\ token' = token
         /\ waiting' = waiting /\ broken' = broken /\ disk' = disk
         /\ waiting => phase = request.by /\ ~broken
         /\ ~waiting => broken
         /\ worker.alive /\ Before(request.by)
         /\ request.by \in Calls
  BY DEF IInv, ClientInv, WorkerInv, Handle, driver, adapter, client, TypeOK, Requests

\* The answer of a command, if it gets out.
LEMMA Responded ==
  ASSUME IInv, Handle, NEW r, Respond(r)
  PROVE  response' = r \/ response' = NoResponse
  BY HandleFrame DEF Respond

\* What the handled request must establish.
Handled ==
  /\ AnswerInv /\ CallsLegal /\ RecordInv
  /\ waiting /\ response.status = "complete" => After(phase)
  /\ waiting /\ response.status \in {"illegal", "failed"} => Spoiled(phase)

LEMMA NoManifestZero ==
  ASSUME TypeOK  PROVE 0 \notin Atts /\ Atts \subseteq Versions
  BY SizeAssumption DEF TypeOK, Manifests, Atts, Attempts, Versions

\* A command that changes no file keeps the records, if what it commits is
\* durable.
LEMMA RecordsKept ==
  ASSUME IInv, Handle, files' = files, worker'.committed \in Durable
  PROVE  RecordInv'
<1>1. RecordInv
  BY DEF IInv
<1>2. NativeMatchesJson'
  BY <1>1, HandleFrame, Zenon DEF RecordInv, NativeMatchesJson
<1>3. Durable' = Durable
  BY HandleFrame DEF Durable
<1>4. QED BY <1>1, <1>2, <1>3, HandleFrame DEF RecordInv

LEMMA InitializeStep ==
  ASSUME IInv, Handle, Initialize  PROVE Handled'
<1>1. response' = Answer(0, 0) \/ response' = NoResponse
  BY Responded DEF Initialize
<1>2. worker'.initialized /\ worker'.committed = 0 /\ worker'.step = -1
      /\ worker'.prediction = 0 /\ worker'.correction = 0 /\ files' = files /\ request.by = "start"
  BY DEF Initialize, FreshWorker
<1>3. RecordInv'
  BY <1>2, RecordsKept DEF Durable
<1>4. waiting => base = 0 /\ last = -1 /\ phase = "start"
  BY <1>2, HandleFrame DEF IInv, PhaseInv
<1>5. AnswerInv' /\ CallsLegal'
  BY <1>1, <1>2, <1>4, HandleFrame DEF AnswerInv, CallsLegal, Answer, NoResponse
<1>6. waiting => After(phase)' /\ Spoiled(phase)'
  BY <1>2, <1>4, HandleFrame DEF After, Spoiled, Idle
<1>7. QED BY <1>3, <1>5, <1>6, HandleFrame DEF Handled

LEMMA PredictStep ==
  ASSUME IInv, Handle, PredictCommand  PROVE Handled'
<1>1. response' = Answer(-att, 0) \/ response' = NoResponse
  BY Responded DEF PredictCommand
<1>2. /\ worker'.initialized = worker.initialized /\ worker'.committed = worker.committed
      /\ worker'.step = worker.step /\ worker'.prediction = att
      /\ worker'.correction = worker.correction /\ worker'.pendingStep = request.arg
      /\ files' = files /\ request.by = "predict"
  BY DEF PredictCommand, IInv, TypeOK, Workers
<1>3. RecordInv'
  BY <1>2, RecordsKept DEF IInv, RecordInv
<1>4. Idle(base, last) /\ request.arg = cur
  BY <1>2, HandleFrame DEF Before, IInv, RequestInv
<1>5. AnswerInv' /\ CallsLegal'
  BY <1>1, <1>2, HandleFrame DEF AnswerInv, CallsLegal, Answer, NoResponse
<1>6. waiting => After(phase)' /\ Spoiled(phase)'
  BY <1>2, <1>4, HandleFrame DEF After, Spoiled, Idle, HasPredicted
<1>7. QED BY <1>3, <1>5, <1>6, HandleFrame DEF Handled

LEMMA CorrectStep ==
  ASSUME IInv, Handle, CorrectCommand  PROVE Handled'
<1>1. response' = Answer(att, att) \/ response' = NoResponse
  BY Responded DEF CorrectCommand
<1>2. /\ worker'.initialized = worker.initialized /\ worker'.committed = worker.committed
      /\ worker'.step = worker.step /\ worker'.correction = att /\ worker'.token = att
      /\ worker'.pendingStep = worker.pendingStep
      /\ files' = files /\ request.by = "correct"
  BY DEF CorrectCommand, IInv, TypeOK, Workers
<1>3. RecordInv'
  BY <1>2, RecordsKept DEF IInv, RecordInv
<1>4. HasPredicted /\ files[0] = Snapshot
  BY <1>2, HandleFrame DEF Before
<1>5. AnswerInv' /\ CallsLegal'
  BY <1>1, <1>2, HandleFrame DEF AnswerInv, CallsLegal, Answer, NoResponse
<1>6. waiting => After(phase)' /\ Spoiled(phase)'
  BY <1>2, <1>4, HandleFrame DEF After, Spoiled, HasPredicted, HasStaged, Snapshot
<1>7. QED BY <1>3, <1>5, <1>6, HandleFrame DEF Handled

\* A request to save is for the snapshot of an unstaged worker, or the export
\* of a staged one.
LEMMA SnapshotStep ==
  ASSUME IInv, Handle, SaveCommand, request.by = "snapshot"  PROVE Handled'
<1>1. HasPredicted /\ request.arg = 0
  BY HandleFrame DEF Before, IInv, RequestInv
<1>2. ~Staged
  BY <1>1 DEF HasPredicted, Staged
<1>3. /\ files' = [files EXCEPT ![0] = [state |-> worker.committed, step |-> worker.step]]
      /\ worker' = worker
      /\ response' = Answer(worker.committed, 0) \/ response' = NoResponse
  BY <1>1, <1>2, Responded DEF SaveCommand
<1>4. /\ files \in [Versions -> Files] /\ base \in Versions /\ last \in StepNos
      /\ \A m \in disk : m.att \in Versions /\ m.att # 0
  BY NoManifestZero DEF IInv, TypeOK, Atts
<1>5. files'[0] = Snapshot' /\ \A p \in Versions \ {0} : files'[p] = files[p]
  BY <1>1, <1>3, <1>4, Numbers, HandleFrame DEF HasPredicted, Snapshot
<1>6. RecordInv'
  <2>1. RecordInv
    BY DEF IInv
  <2>2. \A m \in disk : files'[m.att] = files[m.att]
    BY <1>4, <1>5
  <2>3. NativeMatchesJson'
    BY <2>1, <2>2, HandleFrame, Zenon DEF RecordInv, NativeMatchesJson
  <2>4. Durable' = Durable
    BY HandleFrame DEF Durable
  <2>5. files'[0].state \in Durable /\ files'[0].step \in StepNos
    BY <1>1, <1>4, <1>5, <2>1, HandleFrame DEF Snapshot, RecordInv, HasPredicted
  <2>6. QED BY <1>3, <2>1, <2>3, <2>4, <2>5, HandleFrame DEF RecordInv
<1>7. AnswerInv' /\ CallsLegal'
  BY <1>3, HandleFrame DEF AnswerInv, CallsLegal, Answer, NoResponse
<1>8. waiting => After(phase)' /\ Spoiled(phase)'
  BY <1>1, <1>3, <1>5, HandleFrame DEF After, Spoiled, HasPredicted
<1>9. QED BY <1>6, <1>7, <1>8, HandleFrame DEF Handled

LEMMA ExportStep ==
  ASSUME IInv, Handle, SaveCommand, request.by = "export"  PROVE Handled'
<1>1. HasStaged /\ files[0] = Snapshot /\ request.arg = att /\ att > 0 /\ att \notin Atts
  BY HandleFrame DEF Before, IInv, RequestInv
<1>2. Staged
  BY <1>1 DEF HasStaged, Staged
<1>3. /\ files' = [files EXCEPT ![att] = [state |-> worker.correction, step |-> worker.pendingStep]]
      /\ worker' = [worker EXCEPT !.saved = att]
      /\ response' = Answer(worker.correction, worker.token) \/ response' = NoResponse
  BY <1>1, <1>2, Responded DEF SaveCommand
<1>4. /\ files \in [Versions -> Files] /\ att \in Versions /\ att # 0
      /\ \A m \in disk : m.att \in Versions /\ m.att # att
  BY <1>1, NoManifestZero DEF IInv, TypeOK, Atts, Versions
<1>5. files'[att] = Kept /\ \A p \in Versions \ {att} : files'[p] = files[p]
  BY <1>1, <1>3, <1>4 DEF HasStaged, Kept
<1>6. /\ worker'.initialized = worker.initialized /\ worker'.committed = worker.committed
      /\ worker'.step = worker.step /\ worker'.correction = worker.correction
      /\ worker'.token = worker.token /\ worker'.pendingStep = worker.pendingStep
      /\ worker'.saved = att
  BY <1>3 DEF IInv, TypeOK, Workers
<1>7. files'[0] = files[0]
  BY <1>4, <1>5, Numbers
<1>8. RecordInv'
  <2>1. RecordInv
    BY DEF IInv
  <2>2. \A m \in disk : files'[m.att] = files[m.att]
    BY <1>4, <1>5
  <2>3. NativeMatchesJson'
    BY <2>1, <2>2, HandleFrame, Zenon DEF RecordInv, NativeMatchesJson
  <2>4. Durable' = Durable
    BY HandleFrame DEF Durable
  <2>5. QED BY <1>6, <1>7, <2>1, <2>3, <2>4, HandleFrame DEF RecordInv
<1>9. AnswerInv' /\ CallsLegal'
  BY <1>1, <1>3, <1>5, HandleFrame DEF AnswerInv, CallsLegal, Answer, NoResponse, HasStaged, Kept
<1>10. waiting => After(phase)' /\ Spoiled(phase)'
  <2>1. Snapshot # NoFile
    BY DEF Snapshot, NoFile, IInv, TypeOK, StepNos
  <2>2. QED BY <1>1, <1>6, <1>7, <2>1, HandleFrame DEF After, Spoiled, HasStaged, Snapshot
<1>11. QED BY <1>8, <1>9, <1>10, HandleFrame DEF Handled

LEMMA FinalizeStep ==
  ASSUME IInv, Handle, FinalizeCommand  PROVE Handled'
<1>1. request.by = "finalize"
  BY HandleFrame DEF FinalizeCommand, Before, Finalizable, Staged
<1>2. HasStaged /\ att \in Atts
  BY <1>1, HandleFrame DEF Before, IInv, RequestInv
<1>3. /\ worker'.initialized = worker.initialized /\ worker'.committed = worker.correction
      /\ worker'.step = worker.pendingStep
      /\ worker'.prediction = 0 /\ worker'.correction = 0
      /\ files' = files
      /\ response' = Answer(worker.correction, 0) \/ response' = NoResponse
  BY Responded DEF FinalizeCommand, Unstaged, IInv, TypeOK, Workers
<1>4. att \in Durable
  BY <1>2, ManifestFile DEF IInv, RecordInv, Atts, Durable
<1>5. RecordInv'
  BY <1>2, <1>3, <1>4, RecordsKept DEF HasStaged
<1>6. AnswerInv' /\ CallsLegal'
  BY <1>1, <1>3, HandleFrame DEF AnswerInv, CallsLegal, Answer, NoResponse
<1>7. waiting => After(phase)' /\ Spoiled(phase)'
  BY <1>1, <1>2, <1>3, HandleFrame DEF After, Spoiled, Idle, HasStaged
<1>8. QED BY <1>5, <1>6, <1>7, HandleFrame DEF Handled

LEMMA DiscardStep ==
  ASSUME IInv, Handle, DiscardCommand  PROVE Handled'
<1>1. request.by = "discard" /\ files[0] # NoFile
  BY HandleFrame DEF DiscardCommand, Before
<1>2. worker'.committed = worker.committed /\ files' = files
      /\ (response' = Answer(worker.committed, 0) \/ response' = NoResponse)
  BY Responded DEF DiscardCommand, Unstaged, IInv, TypeOK, Workers
<1>3. RecordInv'
  BY <1>2, RecordsKept DEF IInv, RecordInv
<1>4. AnswerInv' /\ CallsLegal'
  BY <1>1, <1>2, HandleFrame DEF AnswerInv, CallsLegal, Answer, NoResponse
<1>5. waiting => After(phase)' /\ Spoiled(phase)'
  BY <1>1, <1>2, HandleFrame DEF After, Spoiled
<1>6. QED BY <1>3, <1>4, <1>5, HandleFrame DEF Handled

LEMMA LoadStep ==
  ASSUME IInv, Handle, LoadCommand  PROVE Handled'
<1> DEFINE file == files[request.arg]
<1>1. request.by \in {"reload", "recover", "restore"}
  BY DEF LoadCommand
<1>2. /\ worker'.initialized /\ worker'.committed = file.state /\ worker'.step = file.step
      /\ worker'.prediction = 0 /\ worker'.correction = 0
      /\ files' = files
      /\ response' = Answer(file.state, 0) \/ response' = NoResponse
  BY Responded DEF LoadCommand, Unstaged, IInv, TypeOK, Workers
<1>3. file.state \in Durable
  <2>1. CASE request.by = "reload"
    BY <2>1, HandleFrame DEF IInv, RequestInv, RecordInv
  <2>2. CASE request.by \in {"recover", "restore"}
    <3>1. PICK m \in disk : m.att = request.arg
      BY <2>2, HandleFrame DEF IInv, RequestInv, Atts
    <3>2. file.state = m.json
      BY <3>1, ManifestFile DEF IInv, RecordInv
    <3>3. QED BY <3>2 DEF Durable
  <2>3. QED BY <1>1, <2>1, <2>2
<1>4. RecordInv'
  BY <1>2, <1>3, RecordsKept
<1>5. waiting /\ request.by \in {"recover", "restore"} => request.arg = target
  BY HandleFrame DEF IInv, RequestInv
<1>6. AnswerInv' /\ CallsLegal'
  BY <1>1, <1>2, <1>5, HandleFrame DEF AnswerInv, CallsLegal, Answer, NoResponse
<1>7. waiting /\ response'.status = "complete" => After(phase)'
  BY <1>1, <1>2, <1>5, HandleFrame DEF After, Idle
<1>8. ~(response'.status \in {"illegal", "failed"})
  BY <1>2 DEF Answer, NoResponse
<1>9. QED BY <1>4, <1>6, <1>7, <1>8, HandleFrame DEF Handled

LEMMA FailStep ==
  ASSUME IInv, Handle, FailCommand  PROVE Handled'
<1>1. response' = Refusal("failed") \/ response' = NoResponse
  BY Responded DEF FailCommand
<1>2. files' = files /\ worker'.committed = worker.committed
      /\ (request.by \in {"export", "restore"} => worker' = worker)
  BY DEF FailCommand, IInv, TypeOK, Workers
<1>3. RecordInv'
  BY <1>2, RecordsKept DEF IInv, RecordInv
<1>4. AnswerInv' /\ CallsLegal' /\ ~(waiting /\ response'.status = "complete")
  BY <1>1, HandleFrame DEF AnswerInv, CallsLegal, Refusal, NoResponse
<1>5. waiting => Spoiled(phase)'
  <2>1. Snapshot # NoFile
    BY DEF Snapshot, NoFile, IInv, TypeOK, StepNos
  <2>2. QED BY <1>2, <2>1, HandleFrame DEF Before, Spoiled, HasStaged, Idle
<1>6. QED BY <1>3, <1>4, <1>5, HandleFrame DEF Handled

\* No command is refused, but for the finalization inside a recovery.
LEMMA RefuseStep ==
  ASSUME IInv, Handle, RefuseCommand  PROVE Handled'
<1>1. request.by = "refinalize"
  <2>1. request.by # "start" /\ request.by \notin {"snapshot", "export", "discard"}
    BY HandleFrame DEF RefuseCommand, Illegal, Before, HasPredicted, HasStaged
  <2>2. request.by # "predict"
    BY HandleFrame DEF RefuseCommand, Illegal, Before, Idle, Predictable, IInv, RequestInv
  <2>3. request.by # "correct"
    BY HandleFrame DEF RefuseCommand, Illegal, Before, HasPredicted, Correctable, IInv, RequestInv
  <2>4. request.by # "finalize"
    <3>1. ASSUME request.by = "finalize"  PROVE Finalizable(request.arg)
      <4>1. HasStaged /\ worker.saved = att /\ request.arg = att /\ att \in Atts
        BY <3>1, HandleFrame DEF Before, IInv, RequestInv
      <4>2. PICK m \in disk : m.att = att
        BY <4>1 DEF Atts
      <4>3. att # 0 /\ att # -1 /\ files[att].state = att
        BY <4>1, <4>2, NoManifestZero, ManifestFile DEF IInv, RecordInv, Versions
      <4>4. QED BY <4>1, <4>3 DEF HasStaged, Finalizable, Staged, NoFile
    <3>2. QED BY <3>1 DEF RefuseCommand, Illegal
  <2>5. request.by \notin {"reload", "recover", "restore"}
    <3>1. request.by # "reload"
      BY HandleFrame DEF RefuseCommand, Illegal, Before, IInv, RequestInv
    <3>2. ASSUME request.by \in {"recover", "restore"}  PROVE FALSE
      <4>1. PICK m \in disk : m.att = request.arg
        BY <3>2, HandleFrame DEF IInv, RequestInv, Atts
      <4>2. m.att # 0 /\ files[m.att].state = m.att
        BY <4>1, NoManifestZero, ManifestFile DEF IInv, RecordInv, Atts
      <4>3. QED BY <3>2, <4>1, <4>2 DEF RefuseCommand, Illegal, NoFile
    <3>3. QED BY <3>1, <3>2
  <2>6. QED BY <2>1, <2>2, <2>3, <2>4, <2>5, HandleFrame DEF Calls
<1>2. worker' = worker /\ files' = files
  BY DEF RefuseCommand
<1>3. response' = [Refusal("illegal") EXCEPT !.by = "refinalize"] \/ response' = NoResponse
  BY <1>1, Responded DEF RefuseCommand, Refusal
<1>4. RecordInv'
  BY <1>2, RecordsKept DEF IInv, RecordInv
<1>5. AnswerInv' /\ CallsLegal' /\ ~(waiting /\ response'.status = "complete")
  BY <1>3, HandleFrame DEF AnswerInv, CallsLegal, Refusal, NoResponse
<1>6. waiting => Spoiled(phase)'
  BY <1>1, HandleFrame DEF Spoiled
<1>7. QED BY <1>4, <1>5, <1>6, HandleFrame DEF Handled

LEMMA HandleStep ==
  ASSUME IInv, Handle  PROVE IInv'
<1>1. Handled'
  <2>1. SaveCommand => request.by \in {"snapshot", "export"}
    BY DEF SaveCommand
  <2>2. QED BY <2>1, InitializeStep, PredictStep, CorrectStep, SnapshotStep, ExportStep,
               FinalizeStep, DiscardStep, LoadStep, FailStep, RefuseStep DEF Handle
<1>2. TypeOK'
  BY HandleTypes DEF IInv
<1>3. response' = NoResponse \/ response'.by = request.by
  <2>1. ASSUME NEW st, NEW tok  PROVE Answer(st, tok).by = request.by
    BY DEF Answer
  <2>2. ASSUME NEW code  PROVE Refusal(code).by = request.by
    BY DEF Refusal
  <2>3. CASE Initialize
    BY <2>1, <2>3, Responded DEF Initialize
  <2>4. CASE PredictCommand
    BY <2>1, <2>4, Responded DEF PredictCommand
  <2>5. CASE CorrectCommand
    BY <2>1, <2>5, Responded DEF CorrectCommand
  <2>6. CASE SaveCommand
    BY <2>1, <2>6, Responded DEF SaveCommand
  <2>7. CASE FinalizeCommand
    BY <2>1, <2>7, Responded DEF FinalizeCommand
  <2>8. CASE DiscardCommand
    BY <2>1, <2>8, Responded DEF DiscardCommand
  <2>9. CASE LoadCommand
    BY <2>1, <2>9, Responded DEF LoadCommand
  <2>10. CASE FailCommand
    BY <2>2, <2>10, Responded DEF FailCommand
  <2>11. CASE RefuseCommand
    BY <2>2, <2>11, Responded DEF RefuseCommand
  <2>12. QED BY <2>3, <2>4, <2>5, <2>6, <2>7, <2>8, <2>9, <2>10, <2>11 DEF Handle
<1>4. ClientInv'
  BY <1>3, HandleFrame DEF IInv, ClientInv
<1>5. phase # "publish"
  BY HandleFrame DEF IInv, ClientInv, Calls
<1>6. PhaseInv'
  BY <1>5, HandleFrame DEF IInv, PhaseInv, Atts
<1>7. RequestInv'
  BY HandleFrame DEF RequestInv
<1>8. WorkerInv'
  <2>1. ~broken => waiting /\ phase \in Calls
    BY HandleFrame DEF IInv, ClientInv
  <2>2. QED BY <1>1, <2>1, HandleFrame DEF WorkerInv, Handled, Calls
<1>9. QED BY <1>1, <1>2, <1>4, <1>6, <1>7, <1>8 DEF Handled, IInv
-----------------------------------------------------------------------------
\* The client and the driver.

\* A step that leaves worker, files and manifests and the driver's place alone
\* disturbs none of the records.
LEMMA QuietRecords ==
  ASSUME IInv, UNCHANGED <<last, base, cur, att, worker, files, disk>>
  PROVE  /\ RecordInv' /\ Atts' = Atts /\ Snapshot' = Snapshot /\ Kept' = Kept
         /\ HasPredicted' = HasPredicted /\ HasStaged' = HasStaged
         /\ \A p : Before(p)' = Before(p)
<1>1. NativeMatchesJson' = NativeMatchesJson /\ Durable' = Durable
  BY DEF NativeMatchesJson, Durable
<1>2. RecordInv'
  BY <1>1 DEF IInv, RecordInv
<1>3. /\ Atts' = Atts /\ Snapshot' = Snapshot /\ Kept' = Kept
      /\ HasPredicted' = HasPredicted /\ HasStaged' = HasStaged
      /\ Idle(base, last)' = Idle(base, last)
  BY DEF Atts, Snapshot, Kept, HasPredicted, HasStaged, Idle
<1>4. \A p : Before(p)' = Before(p)
  BY <1>3 DEF Before
<1>5. QED BY <1>2, <1>3, <1>4

\* What an answered call finds.
LEMMA AnsweredFacts ==
  ASSUME IInv, Answered
  PROVE  /\ request = NoRequest /\ ~broken /\ waiting /\ phase \in Calls
         /\ response.status = "complete"
         /\ worker.alive => After(phase)
  BY DEF IInv, Answered, ClientInv, WorkerInv, NoResponse

LEMMA SendStep ==
  ASSUME IInv, Send  PROVE IInv'
<1>1. TypeOK'
  BY CallTypes DEF IInv, CallStep
<1>2. /\ UNCHANGED <<phase, last, base, cur, att, active, target, pending, token, broken,
                    worker, files, disk>>
      /\ request' = [by |-> phase, arg |-> Argument] /\ response' = NoResponse
      /\ waiting' = TRUE /\ ~waiting /\ ~broken /\ worker.alive /\ phase \in Calls
  BY DEF Send, driver, adapter
<1>3. ClientInv'
  BY <1>2 DEF IInv, ClientInv
<1>4. PhaseInv'
  BY <1>2, QuietRecords DEF IInv, PhaseInv
<1>5. RequestInv'
  <2>1. request'.by = phase /\ request'.arg = Argument
    BY <1>2
  <2>2. phase = "finalize" => att \in Atts
    BY DEF IInv, PhaseInv, Atts
  <2>3. QED BY <1>2, <2>1, <2>2, QuietRecords DEF IInv, PhaseInv, RequestInv, Argument, Running
<1>6. AnswerInv' /\ CallsLegal'
  BY <1>2 DEF AnswerInv, CallsLegal, NoResponse
<1>7. WorkerInv'
  <2>1. Before(phase)
    BY <1>2 DEF IInv, WorkerInv
  <2>2. QED BY <1>2, <2>1, QuietRecords DEF WorkerInv, NoResponse, Calls
<1>8. QED BY <1>1, <1>2, <1>3, <1>4, <1>5, <1>6, <1>7, QuietRecords DEF IInv

\* The exception of a call, and what it leads to.
LEMMA RaiseStep ==
  ASSUME IInv, TypeOK', Raise, phase \in Calls,
         UNCHANGED <<request, response, worker>>, waiting' = FALSE, broken' \in BOOLEAN,
         ~broken' => request = NoRequest /\ ~broken,
         ~waiting \/ broken' \/ response.status \in {"illegal", "failed"},
         ~waiting => ~Callable \/ broken' \/ ~worker.alive
  PROVE  IInv'
<1>1. UNCHANGED <<last, base, cur, att, target, pending, token, worker, files, disk>>
  BY DEF Raise, driver, adapter
<1>2. /\ phase' \in {"discard", "failed", "recovery", "ready"}
      /\ phase' = "discard" => phase \in {"predict", "snapshot", "correct", "export"} /\ active
      /\ phase' = "recovery" => phase \in {"finalize", "recover", "refinalize"}
      /\ phase' = "ready" => phase = "restore" /\ active' = active
      /\ phase = "finalize" => phase' = "recovery"
  BY DEF Raise, FailPrecommit
<1>3. phase' = "discard" => phase = "export"
  BY <1>2 DEF IInv, PhaseInv
<1>4. ClientInv'
  <2>1. request # NoRequest /\ waiting => phase' \in Abandoned(request.by)
    BY <1>2, <1>3 DEF IInv, ClientInv, Abandoned, Raise, FailPrecommit, Calls
  <2>2. request # NoRequest /\ ~waiting => phase' \in Abandoned(request.by)
    BY <1>2, <1>3 DEF IInv, ClientInv, Abandoned, Raise, FailPrecommit, Calls
  <2>3. QED BY <1>2, <2>1, <2>2 DEF IInv, ClientInv
<1>5. PhaseInv'
  BY <1>1, <1>2 DEF IInv, PhaseInv, Running
<1>6. RequestInv'
  BY <1>1, QuietRecords DEF IInv, RequestInv
<1>7. AnswerInv' /\ CallsLegal'
  BY DEF IInv, AnswerInv, CallsLegal
<1>8. WorkerInv'
  <2> SUFFICES ASSUME worker.alive  PROVE WorkerInv'
    BY <1>1 DEF WorkerInv
  <2>1. request # NoRequest => Before(request.by)'
    BY <1>1, QuietRecords DEF IInv, WorkerInv
  <2>2. ASSUME ~broken', phase' \in Calls  PROVE Before(phase)'
    <3>1. phase' = "discard" /\ phase = "export"
      BY <1>2, <1>3, <2>2 DEF Calls
    <3>2. waiting
      BY <2>2, <3>1 DEF Callable
    <3>3. Spoiled(phase)
      BY <2>2, <3>2 DEF IInv, WorkerInv
    <3>4. QED BY <1>1, <3>1, <3>3 DEF Before, Spoiled
  <2>3. ASSUME ~broken', phase' = "ready"  PROVE Idle(base, last)'
    <3>1. waiting
      BY <1>2, <2>3 DEF Callable
    <3>2. Spoiled("restore")
      BY <1>2, <2>3, <3>1 DEF IInv, WorkerInv
    <3>3. QED BY <1>1, <3>2 DEF Spoiled, Idle
  <2>4. QED BY <1>1, <1>2, <2>1, <2>2, <2>3 DEF WorkerInv
<1>9. QED BY <1>1, <1>4, <1>5, <1>6, <1>7, <1>8, QuietRecords DEF IInv

LEMMA FailureStep ==
  ASSUME IInv, CannotSend \/ ReceiveError \/ SeeExit \/ TimeOut  PROVE IInv'
<1>1. TypeOK'
  BY CallTypes DEF IInv, CallStep
<1>2. broken' \in BOOLEAN
  BY <1>1 DEF TypeOK
<1>3. waiting => phase \in Calls /\ ~broken
  BY DEF IInv, ClientInv
<1>4. CASE CannotSend
  <2>1. /\ Raise /\ phase \in Calls /\ ~waiting /\ UNCHANGED <<request, response, worker>>
        /\ waiting' = FALSE /\ broken' = (broken \/ (Callable /\ ~worker.alive))
    BY <1>4 DEF CannotSend, IInv, TypeOK
  <2>2. ~broken' => request = NoRequest /\ ~broken
    BY <2>1 DEF IInv, ClientInv
  <2>3. ~Callable \/ broken' \/ ~worker.alive
    BY <1>4, <2>1 DEF CannotSend
  <2>4. QED BY <1>1, <1>2, <2>1, <2>2, <2>3, RaiseStep
<1>5. CASE ReceiveError
  <2>1. /\ Raise /\ waiting /\ UNCHANGED <<request, response, worker>>
        /\ waiting' = FALSE /\ broken' = broken /\ response.status \in {"illegal", "failed"}
    BY <1>5 DEF ReceiveError
  <2>2. request = NoRequest
    BY <2>1 DEF IInv, ClientInv, NoResponse
  <2>3. QED BY <1>1, <1>2, <1>3, <2>1, <2>2, RaiseStep
<1>6. CASE SeeExit \/ TimeOut
  <2>1. /\ Raise /\ waiting /\ UNCHANGED <<request, response, worker>>
        /\ waiting' = FALSE /\ broken'
    BY <1>6 DEF SeeExit, TimeOut
  <2>2. QED BY <1>1, <1>2, <1>3, <2>1, RaiseStep
<1>7. QED BY <1>4, <1>5, <1>6

\* An answer that is followed by another command or a point of run_step, the
\* worker and the manifests as they are.
LEMMA ContinueStep ==
  ASSUME IInv, TypeOK', Answered, Received,
         UNCHANGED <<last, base, cur, att, target, disk>>,
         phase' \in Calls \cup Points \cup Resting,
         PhaseInv',
         ~broken /\ worker.alive /\ After(phase) =>
           /\ phase' \in Calls => Before(phase)'
           /\ phase' = "slices" => HasPredicted
           /\ phase' = "publish" => HasStaged /\ files[0] = Snapshot /\ worker.saved = att
           /\ phase' = "ready" => Idle(base, last)
  PROVE  IInv'
<1>1. /\ UNCHANGED <<broken, request, response, worker, files>> /\ waiting' = FALSE
      /\ request = NoRequest /\ ~broken
  BY AnsweredFacts DEF Received
<1>2. RecordInv' /\ Snapshot' = Snapshot /\ HasPredicted' = HasPredicted
      /\ HasStaged' = HasStaged /\ Idle(base, last)' = Idle(base, last)
  BY <1>1, QuietRecords DEF Idle
<1>3. ClientInv'
  BY <1>1 DEF ClientInv
<1>4. RequestInv' /\ AnswerInv' /\ CallsLegal'
  BY <1>1 DEF IInv, RequestInv, AnswerInv, CallsLegal
<1>5. WorkerInv'
  BY <1>1, <1>2, AnsweredFacts DEF WorkerInv
<1>6. QED BY <1>2, <1>3, <1>4, <1>5 DEF IInv

LEMMA AnswerStep ==
  ASSUME IInv, Started \/ Predicted \/ Snapshotted \/ Corrected \/ Exported
               \/ Discarded \/ Reloaded
  PROVE  IInv'
<1>1. TypeOK'
  BY CallTypes DEF IInv, CallStep
<1>2. CASE Started
  <2>1. /\ Answered /\ Received /\ phase = "start" /\ phase' = "ready"
        /\ UNCHANGED <<last, base, cur, att, active, target, pending, token, disk, files>>
    BY <1>2 DEF Started, Received, driver, adapter
  <2>2. PhaseInv'
    BY <2>1 DEF IInv, PhaseInv, Running
  <2>3. After(phase) => Idle(base, last)
    BY <2>1 DEF After
  <2>4. QED BY <1>1, <2>1, <2>2, <2>3, ContinueStep DEF Calls, Resting
<1>3. CASE Predicted
  <2>1. /\ Answered /\ Received /\ phase = "predict" /\ phase' = "slices"
        /\ UNCHANGED <<last, base, cur, att, active, target, pending, token, disk, files>>
    BY <1>3 DEF Predicted, Received, driver, adapter
  <2>2. PhaseInv'
    BY <2>1 DEF IInv, PhaseInv, Running, Atts
  <2>3. After(phase) => HasPredicted
    BY <2>1 DEF After
  <2>4. QED BY <1>1, <2>1, <2>2, <2>3, ContinueStep DEF Calls, Points
<1>4. CASE Snapshotted
  <2>1. /\ Answered /\ Received /\ phase = "snapshot" /\ phase' = "correct"
        /\ UNCHANGED <<last, base, cur, att, active, target, pending, token, disk, files, worker>>
    BY <1>4 DEF Snapshotted, Received, driver, adapter
  <2>2. PhaseInv'
    BY <2>1 DEF IInv, PhaseInv, Running, Atts
  <2>3. After(phase) => Before(phase)'
    BY <2>1, QuietRecords DEF After, Before
  <2>4. QED BY <1>1, <2>1, <2>2, <2>3, ContinueStep DEF Calls
<1>5. CASE Corrected
  <2>1. /\ Answered /\ Received /\ phase = "correct" /\ phase' \in {"export", "failed"}
        /\ pending' = response.state
        /\ UNCHANGED <<last, base, cur, att, target, token, disk, files, worker>>
    BY <1>5 DEF Corrected, Received, driver, adapter
  <2>2. response.state = att
    BY <2>1, AnsweredFacts DEF IInv, AnswerInv
  <2>3. PhaseInv'
    BY <2>1, <2>2 DEF IInv, PhaseInv, Running, Atts
  <2>4. After(phase) /\ phase' = "export" => Before(phase)'
    BY <2>1, QuietRecords DEF After, Before
  <2>5. QED BY <1>1, <2>1, <2>3, <2>4, ContinueStep DEF Calls, Resting
<1>6. CASE Exported
  <2>1. /\ Answered /\ Received /\ phase = "export" /\ phase' = "publish"
        /\ UNCHANGED <<last, base, cur, att, active, target, pending, disk, files, worker>>
        /\ token' = IF response.token # 0 THEN response.token ELSE token
    BY <1>6 DEF Exported, Received, driver
  <2>2. response.token = att /\ files[att] = Kept /\ att > 0
    BY <2>1, AnsweredFacts DEF IInv, AnswerInv, PhaseInv, Running
  <2>3. PhaseInv'
    BY <2>1, <2>2 DEF IInv, PhaseInv, Running, Atts, Kept
  <2>4. After(phase) => HasStaged /\ files[0] = Snapshot /\ worker.saved = att
    BY <2>1 DEF After
  <2>5. QED BY <1>1, <2>1, <2>3, <2>4, ContinueStep DEF Calls, Points
<1>7. CASE Discarded
  <2>1. /\ Answered /\ Received /\ phase = "discard" /\ phase' \in {"reload", "failed"}
        /\ UNCHANGED <<last, base, cur, att, target, disk, files, worker>>
    BY <1>7 DEF Discarded, Received, driver
  <2>2. PhaseInv'
    BY <2>1 DEF IInv, PhaseInv, Running
  <2>3. After(phase) /\ phase' = "reload" => Before(phase)'
    BY <2>1 DEF After, Before
  <2>4. QED BY <1>1, <2>1, <2>2, <2>3, ContinueStep DEF Calls, Resting
<1>8. CASE Reloaded
  <2>1. /\ Answered /\ Received /\ phase = "reload" /\ phase' = "failed"
        /\ UNCHANGED <<last, base, cur, att, target, disk, files, worker>>
    BY <1>8 DEF Reloaded, Received, driver
  <2>2. PhaseInv'
    BY <2>1 DEF IInv, PhaseInv, Running
  <2>3. QED BY <1>1, <2>1, <2>2, ContinueStep DEF Calls, Resting
<1>9. QED BY <1>2, <1>3, <1>4, <1>5, <1>6, <1>7, <1>8

\* The attempt's manifest is the only one with its number, so the driver moves
\* on to its own step and state.
LEMMA FinalizedStep ==
  ASSUME IInv, Finalized  PROVE IInv'
<1>1. TypeOK'
  BY CallTypes DEF IInv, CallStep
<1>2. /\ request = NoRequest /\ ~broken /\ waiting /\ phase \in {"finalize", "refinalize"}
      /\ phase # "refinalize" /\ (worker.alive => After(phase))
  BY AnsweredFacts DEF Finalized, IInv, AnswerInv
<1>3. /\ phase = "finalize" /\ phase' = "ready" /\ active' = FALSE /\ waiting' = FALSE
      /\ UNCHANGED <<cur, att, target, disk, broken, request, response, worker, files>>
  BY <1>2 DEF Finalized, Received
<1>4. PICK m \in disk : m.att = att /\ last' = m.step /\ base' = m.att
  BY <1>2 DEF Finalized
<1>5. m.step = cur
  BY <1>3, <1>4 DEF IInv, PhaseInv, RecordInv
<1>6. RecordInv'
  <2>1. NativeMatchesJson' = NativeMatchesJson /\ Durable' = Durable
    BY <1>3 DEF NativeMatchesJson, Durable
  <2>2. \E n \in disk' : n.att = base' /\ n.step = last'
    BY <1>3, <1>4
  <2>3. QED BY <1>3, <2>1, <2>2 DEF IInv, RecordInv
<1>7. ClientInv' /\ RequestInv' /\ AnswerInv' /\ CallsLegal'
  BY <1>2, <1>3 DEF IInv, ClientInv, RequestInv, AnswerInv, CallsLegal
<1>8. PhaseInv'
  BY <1>3 DEF PhaseInv, Running
<1>9. WorkerInv'
  BY <1>2, <1>3, <1>4, <1>5 DEF WorkerInv, After, Idle, Calls
<1>10. QED BY <1>1, <1>6, <1>7, <1>8, <1>9 DEF IInv

\* load_checkpoint never finds a state that is not the manifest's.
LEMMA LoadedStep ==
  ASSUME IInv, NEW m \in disk, Loaded(m)  PROVE IInv'
<1>1. TypeOK'
  BY CallTypes DEF IInv, CallStep
<1>2. /\ request = NoRequest /\ ~broken /\ waiting /\ phase \in {"recover", "restore"}
      /\ (worker.alive => After(phase)) /\ m.att = target
      /\ response.state = files[target].state
  BY AnsweredFacts DEF Loaded, IInv, AnswerInv
<1>3. m.json = m.att /\ files[target].state = m.att /\ files[target].step = m.step
  BY <1>2, ManifestFile DEF IInv, RecordInv
<1>4. /\ UNCHANGED <<cur, att, active, target, token, disk, broken, request, response, worker, files>>
      /\ waiting' = FALSE
      /\ phase = "restore" => last' = m.step /\ base' = m.att /\ phase' = "ready"
      /\ phase = "recover" => last' = last /\ base' = base /\ phase' = "refinalize"
  BY <1>2, <1>3 DEF Loaded, Received
<1>5. RecordInv'
  <2>1. NativeMatchesJson' = NativeMatchesJson /\ Durable' = Durable
    BY <1>4 DEF NativeMatchesJson, Durable
  <2>2. (base' = 0 /\ last' = -1) \/ \E n \in disk' : n.att = base' /\ n.step = last'
    BY <1>2, <1>4 DEF IInv, RecordInv
  <2>3. QED BY <1>4, <2>1, <2>2 DEF IInv, RecordInv
<1>6. ClientInv' /\ RequestInv' /\ AnswerInv' /\ CallsLegal'
  BY <1>2, <1>4 DEF IInv, ClientInv, RequestInv, AnswerInv, CallsLegal
<1>7. PhaseInv'
  BY <1>2, <1>4 DEF IInv, PhaseInv, Running
<1>8. WorkerInv'
  BY <1>2, <1>3, <1>4 DEF WorkerInv, After, Before, Idle, Calls
<1>9. QED BY <1>1, <1>5, <1>6, <1>7, <1>8 DEF IInv

\* A point of run_step, or a resting driver: nobody waits.
LEMMA NotWaiting ==
  ASSUME IInv, phase \notin Calls
  PROVE  ~waiting /\ (~broken => request = NoRequest)
  BY DEF IInv, ClientInv

LEMMA RunStepStep ==
  ASSUME IInv, RunStep  PROVE IInv'
<1>1. TypeOK'
  BY DriverTypes DEF IInv, Decide
<1>2. /\ phase = "ready" /\ phase' = "predict" /\ cur' = last + 1 /\ att' = att + 1
      /\ UNCHANGED <<last, base, active, target, pending, token, waiting, broken, cached,
                    request, response, worker, files, disk>>
  BY DEF RunStep, adapter, client
<1>3. ~waiting /\ (~broken => request = NoRequest)
  BY <1>2, NotWaiting DEF Calls
<1>4. \A m \in disk : m.att <= att /\ m.att \in Int
  BY DEF IInv, RecordInv, TypeOK, Manifests, Attempts
<1>5. att \in Int /\ att >= 0
  BY DEF IInv, TypeOK, Versions
<1>6. RecordInv'
  <2>1. NativeMatchesJson' = NativeMatchesJson /\ Durable' = Durable
    BY <1>2 DEF NativeMatchesJson, Durable
  <2>2. \A m \in disk : m.att <= att + 1
    BY <1>4, <1>5
  <2>3. QED BY <1>2, <2>1, <2>2 DEF IInv, RecordInv
<1>7. request # NoRequest => request.by = "restore"
  BY <1>2, <1>3 DEF IInv, ClientInv, Abandoned
<1>8. ClientInv'
  BY <1>2, <1>3, <1>7 DEF IInv, ClientInv, Abandoned
<1>9. PhaseInv'
  <2>1. att + 1 \notin Atts
    BY <1>4, <1>5 DEF Atts
  <2>2. Atts' = Atts
    BY <1>2 DEF Atts
  <2>3. QED BY <1>2, <1>5, <2>1, <2>2 DEF IInv, PhaseInv
<1>10. RequestInv' /\ AnswerInv' /\ CallsLegal'
  BY <1>2, <1>3, <1>7 DEF IInv, RequestInv, AnswerInv, CallsLegal, Atts
<1>11. WorkerInv'
  <2>1. worker.alive /\ request # NoRequest => Idle(base, last)
    BY <1>7 DEF IInv, WorkerInv, Before
  <2>2. worker.alive /\ ~broken => Idle(base, last)
    BY <1>2 DEF IInv, WorkerInv
  <2>3. Idle(base, last)' = Idle(base, last)
    BY <1>2 DEF Idle
  <2>4. QED BY <1>2, <1>3, <1>7, <2>1, <2>2, <2>3 DEF WorkerInv, Before
<1>12. QED BY <1>1, <1>6, <1>8, <1>9, <1>10, <1>11 DEF IInv

\* Recovery and restart name a manifest and send a command for it.
LEMMA NameManifest ==
  ASSUME IInv, NEW m \in disk, Recover(m) \/ Restore(m)  PROVE IInv'
<1>1. TypeOK'
  BY DriverTypes DEF IInv, Decide
<1>2. /\ \/ phase = "recovery" /\ phase' = "recover"
         \/ phase = "ready" /\ phase' = "restore"
      /\ target' = m.att
      /\ UNCHANGED <<last, base, cur, att, active, pending, token, waiting, broken, cached,
                    request, response, worker, files, disk>>
  BY DEF Recover, Restore, driver, adapter, client
<1>3. ~waiting /\ (~broken => request = NoRequest)
  BY <1>2, NotWaiting DEF Calls
<1>4. ClientInv'
  BY <1>2, <1>3 DEF IInv, ClientInv, Abandoned
<1>5. PhaseInv'
  BY <1>2 DEF IInv, PhaseInv, Running, Atts
<1>6. RequestInv' /\ AnswerInv' /\ CallsLegal'
  BY <1>2, <1>3, QuietRecords DEF IInv, RequestInv, AnswerInv, CallsLegal
<1>7. WorkerInv'
  <2>1. worker.alive /\ ~broken /\ phase = "ready" => Idle(base, last)
    BY DEF IInv, WorkerInv
  <2>2. worker.alive /\ request # NoRequest => Before(request.by)
    BY DEF IInv, WorkerInv
  <2>3. Before(request.by)' = Before(request.by) /\ Idle(base, last)' = Idle(base, last)
    BY <1>2, QuietRecords DEF Idle
  <2>4. QED BY <1>2, <1>3, <2>1, <2>2, <2>3 DEF WorkerInv, Before
<1>8. QED BY <1>1, <1>2, <1>4, <1>5, <1>6, <1>7, QuietRecords DEF IInv

LEMMA SlicesDoneStep ==
  ASSUME IInv, SlicesDone  PROVE IInv'
<1>1. TypeOK'
  BY DriverTypes DEF IInv, StepStep
<1>2. /\ phase = "slices" /\ phase' = "snapshot"
      /\ UNCHANGED <<last, base, cur, att, active, target, pending, token, waiting, broken, cached,
                    request, response, worker, files, disk>>
  BY DEF SlicesDone, driver, adapter, client
<1>3. ~waiting /\ ~broken /\ request = NoRequest
  BY <1>2, NotWaiting DEF IInv, ClientInv, Calls
<1>4. ClientInv'
  BY <1>2, <1>3 DEF IInv, ClientInv, Calls
<1>5. PhaseInv'
  BY <1>2 DEF IInv, PhaseInv, Running, Atts
<1>6. RequestInv' /\ AnswerInv' /\ CallsLegal'
  BY <1>2, <1>3 DEF IInv, RequestInv, AnswerInv, CallsLegal
<1>7. WorkerInv'
  BY <1>2, <1>3, QuietRecords DEF IInv, WorkerInv, Before
<1>8. QED BY <1>1, <1>2, <1>4, <1>5, <1>6, <1>7, QuietRecords DEF IInv

\* The new manifest is the only one of its attempt and continues the one the
\* driver stands on.
LEMMA PublishRecords ==
  ASSUME IInv, phase = "publish", PublishManifest,
         UNCHANGED <<last, base, cur, att, worker, files>>
  PROVE  RecordInv' /\ NewManifest \in disk' /\ NewManifest.att = att /\ NewManifest.step = cur
<1>1. /\ disk' = disk \cup {NewManifest}
      /\ NewManifest = [att |-> att, step |-> cur, json |-> att, from |-> base]
      /\ files[att] = [state |-> att, step |-> cur] /\ cur = last + 1 /\ att \notin Atts
  BY DEF PublishManifest, NewManifest, IInv, PhaseInv, Running, Kept
<1>2. last \in Int /\ cur \in Int /\ base \in Int /\ att \in Int
  BY DEF IInv, TypeOK, StepNos, Steps, Versions
<1>3. \A m \in disk : m.att # att /\ m.att # 0 /\ m.att <= att /\ m.step \in Int
  BY <1>1, NoManifestZero DEF IInv, TypeOK, RecordInv, Manifests, Steps, Atts
<1>4. IF base = 0 THEN cur = 0 ELSE \E n \in disk : n.att = base /\ n.step = cur - 1
  BY <1>1, <1>2, <1>3 DEF IInv, RecordInv
<1>5. NativeMatchesJson'
  <2>1. ASSUME NEW m \in disk
        PROVE  /\ m.json = m.att /\ files'[m.att] = [state |-> m.json, step |-> m.step]
               /\ IF m.from = 0 THEN m.step = 0
                  ELSE \E n \in disk' : n.att = m.from /\ n.step = m.step - 1
    <3>1. files' = files /\ \A n \in disk : n \in disk'
      BY <1>1
    <3>2. QED BY <3>1, Zenon DEF IInv, RecordInv, NativeMatchesJson
  <2>2. /\ NewManifest.json = NewManifest.att
        /\ files'[NewManifest.att] = [state |-> NewManifest.json, step |-> NewManifest.step]
        /\ IF NewManifest.from = 0 THEN NewManifest.step = 0
           ELSE \E n \in disk' : n.att = NewManifest.from /\ n.step = NewManifest.step - 1
    <3>1. NewManifest.json = att /\ NewManifest.att = att /\ NewManifest.step = cur
          /\ NewManifest.from = base
      BY <1>1
    <3>2. \A n \in disk : n \in disk'
      BY <1>1
    <3>3. QED BY <1>1, <1>4, <3>1, <3>2
  <2>3. \A m \in disk' : m \in disk \/ m = NewManifest
    BY <1>1
  <2>4. QED BY <2>1, <2>2, <2>3, Zenon DEF NativeMatchesJson
<1>6. Durable \subseteq Durable'
  BY <1>1 DEF Durable
<1>7. \A m, n \in disk' : m.att = n.att => m = n
  BY <1>1, <1>3 DEF IInv, RecordInv
<1>8. \A m \in disk' : m.att <= att
  BY <1>1, <1>2, <1>3
<1>9. (base = 0 /\ last = -1) \/ \E n \in disk' : n.att = base /\ n.step = last
  BY <1>1 DEF IInv, RecordInv
<1>10. QED BY <1>1, <1>5, <1>6, <1>7, <1>8, <1>9 DEF IInv, RecordInv

LEMMA PublishStep ==
  ASSUME IInv, Publish  PROVE IInv'
<1>1. TypeOK'
  BY DriverTypes DEF IInv, StepStep
<1>2. /\ phase = "publish" /\ phase' = "finalize" /\ PublishManifest
      /\ UNCHANGED <<last, base, cur, att, active, target, pending, token, waiting, broken, cached,
                    request, response, worker, files>>
  BY DEF Publish, driver, adapter, client
<1>3. ~waiting /\ ~broken /\ request = NoRequest
  BY <1>2, NotWaiting DEF IInv, ClientInv, Calls
<1>4. RecordInv' /\ \E m \in disk' : m.att = att /\ m.step = cur
  BY <1>2, PublishRecords
<1>5. ClientInv'
  BY <1>2, <1>3 DEF IInv, ClientInv, Calls
<1>6. PhaseInv'
  BY <1>2, <1>4 DEF IInv, PhaseInv, Running
<1>7. RequestInv' /\ AnswerInv' /\ CallsLegal'
  BY <1>2, <1>3 DEF IInv, RequestInv, AnswerInv, CallsLegal
<1>8. WorkerInv'
  BY <1>2, <1>3 DEF IInv, WorkerInv, Before, HasStaged
<1>9. QED BY <1>1, <1>4, <1>5, <1>6, <1>7, <1>8 DEF IInv

LEMMA StepRaisesStep ==
  ASSUME IInv, StepRaises  PROVE IInv'
<1>1. TypeOK'
  BY DriverTypes DEF IInv, StepStep
<1>2. /\ phase \in {"slices", "publish"} /\ phase' = (IF active THEN "discard" ELSE "failed")
      /\ active' = FALSE
      /\ UNCHANGED disk \/ (phase = "publish" /\ PublishManifest)
      /\ UNCHANGED <<last, base, cur, att, target, pending, token, waiting, broken, cached,
                    request, response, worker, files>>
  BY DEF StepRaises, FailPrecommit, Points, driver, adapter, client
<1>3. ~waiting /\ ~broken /\ request = NoRequest
  BY <1>2, NotWaiting DEF IInv, ClientInv, Calls
<1>4. RecordInv'
  BY <1>2, PublishRecords, QuietRecords
<1>5. ClientInv'
  BY <1>2, <1>3 DEF IInv, ClientInv, Calls
<1>6. PhaseInv'
  BY <1>2 DEF IInv, PhaseInv, Running
<1>7. RequestInv' /\ AnswerInv' /\ CallsLegal'
  BY <1>2, <1>3 DEF IInv, RequestInv, AnswerInv, CallsLegal
<1>8. WorkerInv'
  <2>1. phase' = "discard" => phase = "publish"
    BY <1>2 DEF IInv, PhaseInv
  <2>2. Snapshot # NoFile
    BY DEF Snapshot, NoFile, IInv, TypeOK, StepNos
  <2>3. worker.alive /\ phase' = "discard" => Before("discard")'
    BY <1>2, <1>3, <2>1, <2>2 DEF IInv, WorkerInv, Before, HasStaged
  <2>4. QED BY <1>2, <1>3, <2>3 DEF WorkerInv, Calls
<1>9. QED BY <1>1, <1>4, <1>5, <1>6, <1>7, <1>8 DEF IInv

LEMMA RestartStep ==
  ASSUME IInv, Restart  PROVE IInv'
<1>1. TypeOK'
  BY DriverTypes DEF IInv, Decide
<1>2. /\ phase' = "start" /\ last' = -1 /\ base' = 0 /\ active' = FALSE
      /\ waiting' = FALSE /\ broken' = FALSE /\ request' = NoRequest /\ response' = NoResponse
      /\ worker' = FreshWorker /\ files' = [files EXCEPT ![0] = NoFile]
      /\ UNCHANGED <<cur, att, disk>>
  BY DEF Restart
<1>3. files'[0] = NoFile /\ \A m \in disk : files'[m.att] = files[m.att]
  BY <1>2, NoManifestZero, Numbers DEF IInv, TypeOK, Atts
<1>4. RecordInv'
  <2>1. NativeMatchesJson'
    BY <1>2, <1>3, Zenon DEF IInv, RecordInv, NativeMatchesJson
  <2>2. NoFile.state \in Durable' /\ FreshWorker.committed \in Durable'
    BY DEF Durable, NoFile, FreshWorker
  <2>3. QED BY <1>2, <1>3, <2>1, <2>2 DEF IInv, RecordInv
<1>5. ClientInv' /\ PhaseInv' /\ RequestInv' /\ AnswerInv' /\ CallsLegal'
  BY <1>2 DEF ClientInv, PhaseInv, RequestInv, AnswerInv, CallsLegal, Running, NoResponse
<1>6. WorkerInv'
  BY <1>2 DEF WorkerInv, Before, FreshWorker
<1>7. QED BY <1>1, <1>4, <1>5, <1>6 DEF IInv

LEMMA WorkerExitsStep ==
  ASSUME IInv, WorkerExits  PROVE IInv'
<1>1. TypeOK'
  BY DriverTypes DEF IInv
<1>2. /\ worker' = [FreshWorker EXCEPT !.alive = FALSE]
      /\ UNCHANGED <<phase, last, base, cur, att, active, target, pending, token, waiting, broken,
                    request, response, files, disk>>
  BY DEF WorkerExits, driver, adapter, client
<1>3. ~worker'.alive /\ worker'.committed = 0
  BY <1>2 DEF FreshWorker
<1>4. RecordInv'
  <2>1. NativeMatchesJson' = NativeMatchesJson /\ Durable' = Durable /\ 0 \in Durable
    BY <1>2 DEF NativeMatchesJson, Durable
  <2>2. QED BY <1>2, <1>3, <2>1 DEF IInv, RecordInv
<1>5. ClientInv' /\ PhaseInv' /\ RequestInv' /\ AnswerInv' /\ CallsLegal'
  <2>1. Atts' = Atts /\ Kept' = Kept
    BY <1>2 DEF Atts, Kept
  <2>2. QED BY <1>2, <2>1 DEF IInv, ClientInv, PhaseInv, RequestInv, AnswerInv, CallsLegal
<1>6. WorkerInv'
  BY <1>3 DEF WorkerInv
<1>7. QED BY <1>1, <1>4, <1>5, <1>6 DEF IInv

LEMMA Initially == Init => IInv
<1> SUFFICES ASSUME Init  PROVE IInv
  OBVIOUS
<1>1. TypeOK
  <2>1. files \in [Versions -> Files]
    BY FreshType DEF Init
  <2>2. QED BY <2>1, Numbers, FreshType DEF Init, TypeOK, Calls
<1>2. RecordInv
  BY Numbers DEF Init, RecordInv, NativeMatchesJson, Durable, NoFile, FreshWorker
<1>3. ClientInv /\ PhaseInv /\ RequestInv /\ AnswerInv /\ CallsLegal
  BY DEF Init, ClientInv, PhaseInv, RequestInv, AnswerInv, CallsLegal, Running, NoResponse
<1>4. WorkerInv
  BY DEF Init, WorkerInv, Before, FreshWorker
<1>5. QED BY <1>1, <1>2, <1>3, <1>4 DEF IInv

LEMMA Stutter == IInv /\ UNCHANGED vars => IInv'
<1> SUFFICES ASSUME IInv, UNCHANGED vars  PROVE IInv'
  OBVIOUS
<1>1. UNCHANGED <<phase, last, base, cur, att, active, target, pending, token, waiting, broken,
                  cached, request, response, worker, files, disk>>
  BY DEF vars, driver, adapter, client
<1>2. TypeOK'
  BY <1>1 DEF IInv, TypeOK
<1>3. ClientInv' /\ PhaseInv' /\ RequestInv' /\ AnswerInv' /\ CallsLegal'
  BY <1>1, QuietRecords DEF IInv, ClientInv, PhaseInv, RequestInv, AnswerInv, CallsLegal
<1>4. WorkerInv'
  BY <1>1, QuietRecords DEF IInv, WorkerInv, After, Spoiled, Idle
<1>5. QED BY <1>1, <1>2, <1>3, <1>4, QuietRecords DEF IInv

(***************************************************************************)
(* The inductive invariant of driver, adapter, client, worker and files.   *)
(***************************************************************************)
THEOREM WorkerInvariant == Spec => []IInv
<1>1. IInv /\ [Next]_vars => IInv'
  <2> SUFFICES ASSUME IInv, [Next]_vars  PROVE IInv'
    OBVIOUS
  <2>1. CASE CallStep
    BY <2>1, SendStep, FailureStep, AnswerStep, FinalizedStep, LoadedStep DEF CallStep
  <2>2. CASE StepStep
    BY <2>2, SlicesDoneStep, StepRaisesStep, PublishStep DEF StepStep
  <2>3. CASE Decide
    BY <2>3, RunStepStep, RestartStep, NameManifest DEF Decide
  <2>4. QED BY <2>1, <2>2, <2>3, HandleStep, WorkerExitsStep, Stutter DEF Next
<1>2. QED BY <1>1, Initially, PTL DEF Spec

(***************************************************************************)
(* Every variable keeps its type.                                          *)
(***************************************************************************)
THEOREM WorkerTypeCorrect == Spec => []TypeOK
<1>1. IInv => TypeOK
  BY DEF IInv
<1>2. QED BY <1>1, WorkerInvariant, PTL

(***************************************************************************)
(* A ready driver has a worker with its own state and step and nothing     *)
(* staged, whatever failed, timed out or was lost before.                  *)
(***************************************************************************)
THEOREM DriverInStep == Spec => []InStep
<1>1. ASSUME IInv  PROVE InStep
  <2> SUFFICES ASSUME phase = "ready", worker.alive, ~broken  PROVE InStep
    BY DEF InStep
  <2>1. request = NoRequest
    BY NotWaiting, <1>1 DEF Calls
  <2>2. Idle(base, last)
    BY <1>1 DEF IInv, WorkerInv
  <2>3. QED BY <2>1, <2>2 DEF InStep, Idle
<1>2. QED BY <1>1, WorkerInvariant, PTL

(***************************************************************************)
(* The JSON state and the native file of every manifest are the correction *)
(* of its own attempt, and it continues a manifest of the step before.     *)
(***************************************************************************)
THEOREM TwoRecordsAgree == Spec => []NativeMatchesJson
<1>1. IInv => NativeMatchesJson
  BY DEF IInv, RecordInv
<1>2. QED BY <1>1, WorkerInvariant, PTL

(***************************************************************************)
(* No command is sent that the worker turns down for its state, but for    *)
(* the finalization inside a recovery.                                     *)
(***************************************************************************)
THEOREM ProtocolKept == Spec => []CallsLegal
<1>1. IInv => CallsLegal
  BY DEF IInv
<1>2. QED BY <1>1, WorkerInvariant, PTL
-----------------------------------------------------------------------------
\* The states of the manifests are their attempts.
LEMMA DurableAttempts ==
  ASSUME IInv
  PROVE  {m.json : m \in disk} = Atts /\ 0 \notin Atts
  BY ManifestFile, NoManifestZero DEF IInv, RecordInv, Atts

LEMMA CommandsImplement ==
  ASSUME IInv, Handle  PROVE [Contract!Next]_(Contract!vars)
<1> DEFINE durable == {m.json : m \in disk}
<1>1. durable' = durable
  BY HandleFrame
<1>2. durable = Atts
  BY DurableAttempts
<1>3. CASE Initialize \/ DiscardCommand \/ LoadCommand
  <2>1. worker'.correction = 0
    BY <1>3 DEF Initialize, DiscardCommand, LoadCommand, Unstaged, FreshWorker, IInv, TypeOK,
       Workers
  <2>2. CASE DiscardCommand
    BY <1>1, <2>1, <2>2 DEF DiscardCommand, Unstaged, IInv, TypeOK, Workers,
                            Contract!Next, Contract!Discard
  <2>3. CASE Initialize \/ LoadCommand
    <3>1. worker'.committed \in durable \cup {0}
      BY <1>1, <2>3, InitializeStep, LoadStep DEF Handled, RecordInv, Durable
    <3>2. QED BY <1>1, <2>1, <3>1 DEF Contract!Next, Contract!Load
  <2>4. QED BY <1>3, <2>2, <2>3
<1>4. CASE FinalizeCommand
  <2>1. HasStaged /\ att \in Atts
    BY <1>4, HandleFrame DEF FinalizeCommand, Before, Finalizable, Staged, IInv, RequestInv
  <2>2. worker'.committed = worker.correction /\ worker'.correction = 0
    BY <1>4 DEF FinalizeCommand, Unstaged, IInv, TypeOK, Workers
  <2>3. QED BY <1>1, <1>2, <2>1, <2>2 DEF HasStaged, Contract!Next, Contract!Finalize
<1>5. CASE PredictCommand \/ SaveCommand \/ RefuseCommand
  <2>1. worker'.committed = worker.committed /\ worker'.correction = worker.correction
    BY <1>5 DEF PredictCommand, SaveCommand, RefuseCommand, IInv, TypeOK, Workers
  <2>2. QED BY <1>1, <2>1 DEF Contract!vars
<1>6. CASE CorrectCommand \/ FailCommand
  <2>1. \/ worker'.committed = worker.committed /\ worker'.correction = worker.correction
        \/ /\ request.by = "correct"
           /\ worker'.committed = worker.committed /\ worker'.correction = att
    BY <1>6 DEF CorrectCommand, FailCommand, IInv, TypeOK, Workers
  <2>2. ASSUME request.by = "correct"
        PROVE  worker.correction = 0 /\ att \in Attempts \ durable
    <3>1. HasPredicted /\ att > 0 /\ att \notin Atts
      BY <2>2, HandleFrame DEF Before, IInv, RequestInv
    <3>2. att \in Attempts
      BY <3>1, SizeAssumption DEF IInv, TypeOK, Versions, Attempts
    <3>3. QED BY <1>2, <3>1, <3>2 DEF HasPredicted
  <2>3. QED BY <1>1, <2>1, <2>2 DEF Contract!vars, Contract!Next, Contract!Stage
<1>7. QED BY <1>3, <1>4, <1>5, <1>6 DEF Handle

\* The two steps that make a manifest.
LEMMA PublicationImplements ==
  ASSUME IInv, phase = "publish", PublishManifest, worker' = worker
  PROVE  Contract!Publish
<1>1. pending = att /\ att > 0
  BY DEF IInv, PhaseInv, Running
<1>2. att \in Attempts
  BY <1>1, SizeAssumption DEF IInv, TypeOK, Versions, Attempts
<1>3. NewManifest.json = att
  BY <1>1 DEF NewManifest
<1>4. {m.json : m \in disk'} = {m.json : m \in disk} \cup {att}
  BY <1>3 DEF PublishManifest
<1>5. QED BY <1>2, <1>4 DEF Contract!Publish

(***************************************************************************)
(* The production structure is the structure the driver's module assumes:  *)
(* staged once, committed only when durable, reloaded only from what is    *)
(* durable.                                                                *)
(***************************************************************************)
THEOREM StructureImplemented == Spec => ImplementsContract
<1>1. Init => Contract!Init
  BY DEF Init, FreshWorker, Contract!Init
<1>2. IInv /\ [Next]_vars => [Contract!Next]_(Contract!vars)
  <2> SUFFICES ASSUME IInv, [Next]_vars  PROVE [Contract!Next]_(Contract!vars)
    OBVIOUS
  <2>1. CASE UNCHANGED <<worker, disk>>
    BY <2>1 DEF Contract!vars
  <2>2. CASE WorkerExits \/ Restart
    <3>1. worker'.committed = 0 /\ worker'.correction = 0 /\ disk' = disk
      BY <2>2 DEF WorkerExits, Restart, FreshWorker
    <3>2. QED BY <3>1 DEF Contract!Next, Contract!Load
  <2>3. CASE Publish \/ StepRaises
    <3>1. worker' = worker
          /\ (UNCHANGED disk \/ (phase = "publish" /\ PublishManifest))
      BY <2>3 DEF Publish, StepRaises
    <3>2. QED BY <2>1, <3>1, PublicationImplements DEF Contract!Next
  <2>4. CASE CallStep \/ SlicesDone
    <3>1. UNCHANGED <<worker, disk>>
      BY <2>4 DEF CallStep, SlicesDone, Send, CannotSend, ReceiveError, SeeExit, TimeOut, Raise,
                  Started, Predicted, Snapshotted, Corrected, Exported, Finalized, Discarded,
                  Reloaded, Loaded, Received
    <3>2. QED BY <2>1, <3>1
  <2>5. CASE RunStep \/ \E m \in disk : Recover(m) \/ Restore(m)
    BY <2>1, <2>5 DEF RunStep, Recover, Restore
  <2>6. CASE UNCHANGED vars
    BY <2>1, <2>6 DEF vars
  <2>7. QED BY <2>2, <2>3, <2>4, <2>5, <2>6, CommandsImplement DEF Next, StepStep, Decide
<1>3. QED BY <1>1, <1>2, WorkerInvariant, PTL DEF Spec, ImplementsContract, Contract!Spec
-----------------------------------------------------------------------------
\* What the contract promises whoever keeps it.
LEMMA ContractDurable ==
  /\ Contract!Init => Contract!CommittedDurable
  /\ Contract!CommittedDurable /\ [Contract!Next]_(Contract!vars) => Contract!CommittedDurable'
BY DEF Contract!Init, Contract!Next, Contract!vars, Contract!Stage, Contract!Publish,
       Contract!Finalize, Contract!Discard, Contract!Load, Contract!CommittedDurable

(***************************************************************************)
(* The worker's committed state is the initial one or the corrected state  *)
(* of a manifest on disk: in every state, also after a finalization whose  *)
(* answer was lost, a load from a native file, an exit or a restart.       *)
(***************************************************************************)
THEOREM WorkerNeverAhead == Spec => []Contract!CommittedDurable
BY StructureImplemented, ContractDurable, PTL DEF ImplementsContract, Contract!Spec

(***************************************************************************)
(* A recovery with the persistent adapter never succeeds.  The load leaves *)
(* nothing staged, so no answer to the finalization after it is complete,  *)
(* and the driver leaves RECOVERY_REQUIRED only by a restart, whatever the *)
(* worker and the manifest named.                                          *)
(***************************************************************************)
Recovering == {"recovery", "recover", "refinalize"}

THEOREM RecoveryNeedsRestart ==
  Spec => [][(phase \in Recovering) => phase' \in Recovering \/ phase' = "start"]_vars
<1>1. ASSUME IInv, [Next]_vars, phase \in Recovering
      PROVE  phase' \in Recovering \/ phase' = "start"
  <2> USE DEF Recovering
  <2>1. Answered => phase # "refinalize"
    BY <1>1 DEF IInv, AnswerInv, Answered
  <2>2. CASE CallStep
    BY <1>1, <2>1, <2>2 DEF CallStep, Send, CannotSend, ReceiveError, SeeExit, TimeOut, Raise,
       FailPrecommit, Started, Predicted, Snapshotted, Corrected, Exported, Finalized, Discarded,
       Reloaded, Loaded
  <2>3. CASE StepStep
    BY <1>1, <2>3 DEF StepStep, SlicesDone, StepRaises, Publish, Points
  <2>4. CASE Decide
    BY <1>1, <2>4 DEF Decide, RunStep, Restart, Recover, Restore
  <2>5. CASE Handle \/ WorkerExits \/ UNCHANGED vars
    BY <1>1, <2>5 DEF Handle, WorkerExits, vars
  <2>6. QED BY <1>1, <2>2, <2>3, <2>4, <2>5 DEF Next
<1>2. QED BY <1>1, WorkerInvariant, PTL DEF Spec
=============================================================================
