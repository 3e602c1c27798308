--------------------------- MODULE PersistentAncf ---------------------------
(***************************************************************************)
(* The structure of the multi-slice driver in production: the adapter of   *)
(* the driver's process (PersistentProductionANCFAdapter), the client that *)
(* sends its commands as files (PersistentANCFRunner), and the one MATLAB  *)
(* worker process that holds the committed, predicted and corrected states *)
(* (persistent_ancf_worker.m), under the calls run_step, recovery and      *)
(* restart make on them.                                                   *)
(*                                                                         *)
(* A phase of the driver is one command to the worker, or a point between  *)
(* two commands.  States of the structure are versions: the correction of  *)
(* attempt a is a, the prediction of attempt a is -a, the initial state 0. *)
(* A manifest names the JSON state it was published with, and the worker's *)
(* native file of the attempt.                                             *)
(* Everything a step does outside the structure is one choice: it succeeds *)
(* or it raises.                                                           *)
(***************************************************************************)
EXTENDS Integers

CONSTANTS MaxStep,      \* bound: the last coupling step
          MaxAttempts,  \* bound: run_step calls accepted over all drivers
          Faults        \* what may go wrong (AllFaults below)

AllFaults ==
  {"refuse",     \* a command fails in the worker
   "unwritten",  \* the worker cannot write its response
   "exit",       \* the worker process exits
   "timeout",    \* the client gives up waiting
   "step",       \* something else of run_step raises
   "crash"}      \* the driver's process dies, or stops, and is started again

ASSUME SizeAssumption == MaxStep \in Nat /\ MaxAttempts \in Nat /\ Faults \subseteq AllFaults

Steps    == 0..MaxStep
Attempts == 1..MaxAttempts
Versions == 0..MaxAttempts
StepNos  == -1..MaxStep

\* Phases in which a command is sent or awaited, named after the caller.
Calls == {"start", "predict", "snapshot", "correct", "export", "finalize",
          "discard", "reload", "recover", "refinalize", "restore"}

\* Points of run_step between two commands, and the driver's resting states.
Points  == {"slices", "publish"}
Resting == {"ready", "failed", "recovery"}

VARIABLES
  phase,               \* driver: the running call, a point, or a resting state
  last, base,          \* driver: last_committed_step, the state it stands on
  cur, att,            \* driver: step and number of the latest attempt
  active,              \* driver: _active_correction is set
  target,              \* driver: attempt of the manifest being restored
  pending, token,      \* adapter: _pending_state, _runner_checkpoint_token
  waiting, broken,     \* client: inside _call, _failed
  cached,              \* client: _last_state
  request, response,   \* the request and response directories
  worker,              \* the worker process
  files,               \* .mat files: 0 the snapshot, a the export of attempt a
  disk                 \* committed manifests

driver  == <<last, base, cur, att>>
adapter == <<pending, token>>
client  == <<waiting, broken, cached>>
vars == <<phase, driver, active, target, adapter, client, request, response, worker, files, disk>>

NoFile     == [state |-> 0, step |-> -2]
NoRequest  == [by |-> "none", arg |-> 0]
NoResponse == [by |-> "none", status |-> "none", state |-> 0, token |-> 0]

\* A response of status "error" is "illegal" or "failed" by its error_code: the
\* worker's state does not allow the command, or the command failed.
Files     == [state : Versions, step : StepNos \cup {-2}]
Requests  == [by : Calls, arg : -1..(MaxStep + MaxAttempts)] \cup {NoRequest}
Responses == [by : Calls, status : {"complete", "illegal", "failed"},
              state : (-MaxAttempts)..MaxAttempts, token : Versions] \cup {NoResponse}
Manifests == [att : Attempts, step : Steps, json : Versions, from : Versions]
Workers   == [alive : BOOLEAN, initialized : BOOLEAN,
              committed : Versions, step : StepNos,
              prediction : Versions, correction : Versions, pendingStep : StepNos,
              token : Versions, saved : -1..MaxAttempts]

FreshWorker == [alive |-> TRUE, initialized |-> FALSE, committed |-> 0, step |-> -1,
                prediction |-> 0, correction |-> 0, pendingStep |-> -1,
                token |-> 0, saved |-> -1]

Init ==
  /\ phase = "start"
  /\ last = -1 /\ base = 0 /\ cur = 0 /\ att = 0
  /\ active = FALSE /\ target = 0
  /\ pending = 0 /\ token = 0
  /\ waiting = FALSE /\ broken = FALSE /\ cached = 0
  /\ request = NoRequest /\ response = NoResponse
  /\ worker = FreshWorker
  /\ files = [p \in Versions |-> NoFile]
  /\ disk = {}
-----------------------------------------------------------------------------
(* The worker: one request is taken, handled and answered.                 *)

Answer(st, tok) ==
  [by |-> request.by, status |-> "complete", state |-> st, token |-> tok]
Refusal(code) ==
  [by |-> request.by, status |-> code, state |-> 0, token |-> 0]

\* The worker publishes its response, or warns that it cannot.
Respond(r) == \/ response' = r
              \/ "unwritten" \in Faults /\ UNCHANGED response

\* Each command: when it is accepted, the worker and the files after it, and
\* its answer.
\* Mutant: the prediction outlives the transaction.
UnstagedButPrediction(w) == [w EXCEPT !.correction = 0, !.pendingStep = -1,
                                      !.token = 0, !.saved = -1]

Unstaged(w) == [w EXCEPT !.prediction = 0, !.correction = 0, !.pendingStep = -1,
                         !.token = 0, !.saved = -1]

Initialize ==
  /\ request.by = "start" /\ ~worker.initialized
  /\ worker' = [FreshWorker EXCEPT !.initialized = TRUE]
  /\ UNCHANGED files
  /\ Respond(Answer(0, 0))

Predictable(step) ==
  /\ worker.initialized
  /\ worker.prediction = 0 /\ worker.correction = 0
  /\ step = worker.step + 1

PredictCommand ==
  /\ request.by = "predict" /\ Predictable(request.arg)
  /\ worker' = [worker EXCEPT !.prediction = att, !.pendingStep = request.arg]
  /\ UNCHANGED files
  /\ Respond(Answer(-att, 0))

Correctable(step) ==
  worker.initialized /\ worker.prediction # 0 /\ worker.pendingStep = step

CorrectCommand ==
  /\ request.by = "correct" /\ Correctable(request.arg)
  /\ worker' = [worker EXCEPT !.correction = att, !.token = att]
  /\ UNCHANGED files
  /\ Respond(Answer(att, att))

\* Mutant: a correction is staged once its prediction is gone.
StagedAlone == worker.correction # 0 /\ worker.token # 0 /\ worker.prediction = 0

Staged == worker.correction # 0 /\ worker.token # 0

SaveCommand ==
  /\ request.by \in {"snapshot", "export"} /\ worker.initialized
  /\ IF Staged
     THEN /\ files' = [files EXCEPT ![request.arg] = [state |-> worker.correction,
                                                      step |-> worker.pendingStep]]
          /\ worker' = [worker EXCEPT !.saved = request.arg]
          /\ Respond(Answer(worker.correction, worker.token))
     ELSE /\ files' = [files EXCEPT ![request.arg] = [state |-> worker.committed,
                                                      step |-> worker.step]]
          /\ UNCHANGED worker
          /\ Respond(Answer(worker.committed, 0))

Finalizable(tok) ==
  /\ worker.initialized /\ Staged /\ tok = worker.token
  /\ worker.saved # -1 /\ files[worker.saved] # NoFile

FinalizeCommand ==
  /\ request.by \in {"finalize", "refinalize"} /\ Finalizable(request.arg)
  /\ worker' = [Unstaged(worker) EXCEPT !.committed = worker.correction,
                                        !.step = worker.pendingStep]
  /\ UNCHANGED files
  /\ Respond(Answer(worker.correction, 0))

DiscardCommand ==
  /\ request.by = "discard" /\ worker.initialized
  /\ worker' = Unstaged(worker)
  /\ UNCHANGED files
  /\ Respond(Answer(worker.committed, 0))

LoadCommand ==
  /\ request.by \in {"reload", "recover", "restore"} /\ files[request.arg] # NoFile
  /\ worker' = [Unstaged(worker) EXCEPT !.initialized = TRUE,
                  !.committed = files[request.arg].state, !.step = files[request.arg].step]
  /\ UNCHANGED files
  /\ Respond(Answer(files[request.arg].state, 0))

\* The commands the worker turns down, its state as it was.
Illegal ==
  \/ request.by = "start" /\ worker.initialized
  \/ request.by = "predict" /\ ~Predictable(request.arg)
  \/ request.by = "correct" /\ ~Correctable(request.arg)
  \/ request.by \in {"snapshot", "export", "discard"} /\ ~worker.initialized
  \/ request.by \in {"finalize", "refinalize"} /\ ~Finalizable(request.arg)
  \/ request.by \in {"reload", "recover", "restore"} /\ files[request.arg] = NoFile

\* An error inside a command: the solver diverges or a file cannot be written.
\* The predicted or corrected state is assigned before it is found not to be
\* finite, its step and token only after.
FailCommand ==
  /\ "refuse" \in Faults
  /\ \/ UNCHANGED worker
     \/ /\ request.by = "predict" /\ Predictable(request.arg)
        /\ worker' = [worker EXCEPT !.prediction = att]
     \/ /\ request.by = "correct" /\ Correctable(request.arg)
        /\ worker' = [worker EXCEPT !.correction = att]
  /\ UNCHANGED files
  /\ Respond(Refusal("failed"))

RefuseCommand == /\ Illegal
                 /\ UNCHANGED <<worker, files>>
                 /\ Respond(Refusal("illegal"))

Handle ==
  /\ worker.alive /\ request # NoRequest
  /\ request' = NoRequest
  /\ \/ Initialize \/ PredictCommand \/ CorrectCommand \/ SaveCommand
     \/ FinalizeCommand \/ DiscardCommand \/ LoadCommand \/ FailCommand \/ RefuseCommand
  /\ UNCHANGED <<phase, driver, active, target, adapter, client, disk>>

WorkerExits ==
  /\ "exit" \in Faults /\ worker.alive
  /\ worker' = [FreshWorker EXCEPT !.alive = FALSE]
  /\ UNCHANGED <<phase, driver, active, target, adapter, client, request, response, files, disk>>
-----------------------------------------------------------------------------
(* The driver's failures.                                                  *)

\* _fail_precommit: discard_staged is called when a correction is registered.
FailPrecommit ==
  /\ phase' = IF active THEN "discard" ELSE "failed"
  /\ active' = FALSE

\* The call of this phase raises.
Raise ==
  /\ \/ phase \in {"predict", "snapshot", "correct", "export"} /\ FailPrecommit
     \/ phase \in {"start", "discard", "reload"} /\ phase' = "failed" /\ UNCHANGED active
     \/ phase \in {"finalize", "recover", "refinalize"} /\ phase' = "recovery" /\ UNCHANGED active
     \/ phase = "restore" /\ phase' = "ready" /\ UNCHANGED active
  /\ UNCHANGED <<driver, target, adapter, files, disk>>
-----------------------------------------------------------------------------
(* The client: one command at a time, none after a failure.                *)

Argument == CASE phase \in {"predict", "correct"}       -> cur
              [] phase = "export"                       -> att
              [] phase \in {"finalize", "refinalize"}   -> token
              [] phase \in {"recover", "restore"}       -> target
              [] OTHER                                  -> 0

\* The persistent adapter refuses to finalize without the worker's token.
Callable == phase \in {"finalize", "refinalize"} => token # 0

Send ==
  /\ phase \in Calls /\ ~waiting
  /\ Callable /\ worker.alive /\ ~broken
  /\ request' = [by |-> phase, arg |-> Argument]
  /\ response' = NoResponse
  /\ waiting' = TRUE
  /\ UNCHANGED <<phase, driver, active, target, adapter, broken, cached, worker, files, disk>>

CannotSend ==
  /\ phase \in Calls /\ ~waiting
  /\ ~Callable \/ ~worker.alive \/ broken
  /\ broken' = (broken \/ (Callable /\ ~worker.alive))
  /\ Raise
  /\ UNCHANGED <<waiting, cached, request, response, worker>>

\* The response is an error: the client stays usable.
ReceiveError ==
  /\ waiting /\ response.status \in {"illegal", "failed"}
  /\ waiting' = FALSE
  /\ Raise
  /\ UNCHANGED <<broken, cached, request, response, worker>>

\* The worker has exited, whether or not it answered before.
SeeExit ==
  /\ waiting /\ ~worker.alive
  /\ waiting' = FALSE /\ broken' = TRUE
  /\ Raise
  /\ UNCHANGED <<cached, request, response, worker>>

\* Mutant: the client waits as long as the worker lives.
PatientOnly == "timeout" \in Faults /\ ~worker.alive

Impatient == "timeout" \in Faults

TimeOut ==
  /\ waiting /\ Impatient
  /\ waiting' = FALSE /\ broken' = TRUE
  /\ Raise
  /\ UNCHANGED <<cached, request, response, worker>>

Answered == waiting /\ response.status = "complete"
Received == /\ waiting' = FALSE /\ cached' = response.state
            /\ UNCHANGED <<broken, request, response, worker, files>>
-----------------------------------------------------------------------------
(* What the adapter and the driver do with a response.                     *)

Started ==
  /\ Answered /\ phase = "start"
  /\ Received
  /\ phase' = "ready"
  /\ UNCHANGED <<driver, active, target, adapter, disk>>

RunStep ==
  /\ phase = "ready" /\ last + 1 \in Steps /\ att < MaxAttempts
  /\ phase' = "predict"
  /\ cur' = last + 1 /\ att' = att + 1
  /\ UNCHANGED <<last, base, active, target, adapter, client, request, response, worker, files, disk>>

Predicted ==
  /\ Answered /\ phase = "predict"
  /\ Received
  /\ phase' = "slices"
  /\ UNCHANGED <<driver, active, target, adapter, disk>>

\* Motions, CFD and loads succeed; correct_all begins with the snapshot.
SlicesDone ==
  /\ phase = "slices"
  /\ phase' = "snapshot"
  /\ UNCHANGED <<driver, active, target, adapter, client, request, response, worker, files, disk>>

Snapshotted ==
  /\ Answered /\ phase = "snapshot"
  /\ Received
  /\ phase' = "correct"
  /\ UNCHANGED <<driver, active, target, adapter, disk>>

\* correct_all keeps the state of the response; run_step accepts it, or raises
\* before it has registered the correction.
Corrected ==
  /\ Answered /\ phase = "correct"
  /\ Received
  /\ pending' = response.state
  /\ \/ phase' = "export" /\ active' = TRUE
     \/ "step" \in Faults /\ phase' = "failed" /\ UNCHANGED active
  /\ UNCHANGED <<driver, target, token, disk>>

Exported ==
  /\ Answered /\ phase = "export"
  /\ Received
  /\ token' = IF response.token # 0 THEN response.token ELSE token
  /\ phase' = "publish"
  /\ UNCHANGED <<driver, active, target, pending, disk>>

\* Mutant: the manifest carries the step committed before.
NewManifestOfLast == [att |-> att, step |-> last, json |-> pending, from |-> base]

NewManifest == [att |-> att, step |-> cur, json |-> pending, from |-> base]

\* Mutant: the structure is finalized before the manifest is on disk.
PublishLate == UNCHANGED disk

PublishManifest == disk' = disk \cup {NewManifest}

\* Anything else of the step raises before the manifest is published, or the
\* publication raises although the manifest is in place.
StepRaises ==
  /\ phase \in Points /\ "step" \in Faults
  /\ FailPrecommit
  /\ UNCHANGED disk \/ (phase = "publish" /\ PublishManifest)
  /\ UNCHANGED <<driver, target, adapter, client, request, response, worker, files>>

Publish ==
  /\ phase = "publish"
  /\ PublishManifest
  /\ phase' = "finalize"
  /\ UNCHANGED <<driver, active, target, adapter, client, request, response, worker, files>>

\* finalize_committed returned, in run_step or in a recovery from manifest m.
Finalized ==
  /\ Answered /\ phase \in {"finalize", "refinalize"}
  /\ Received
  /\ pending' = 0 /\ token' = 0
  /\ phase' = "ready" /\ active' = FALSE
  /\ \E m \in disk : /\ m.att = IF phase = "finalize" THEN att ELSE target
                     /\ last' = m.step /\ base' = m.att
  /\ UNCHANGED <<cur, att, target, disk>>

\* discard_staged: the worker's staging, then the snapshot.
Discarded ==
  /\ Answered /\ phase = "discard"
  /\ Received
  /\ phase' = IF pending # 0 THEN "reload" ELSE "failed"
  /\ token' = IF pending # 0 THEN token ELSE 0
  /\ UNCHANGED <<driver, active, target, pending, disk>>

Reloaded ==
  /\ Answered /\ phase = "reload"
  /\ Received
  /\ pending' = 0 /\ token' = 0
  /\ phase' = "failed"
  /\ UNCHANGED <<driver, active, target, disk>>

\* recover_from_checkpoint and restore_from_checkpoint name a manifest.
Recover(m) ==
  /\ phase = "recovery"
  /\ phase' = "recover" /\ target' = m.att
  /\ UNCHANGED <<driver, active, adapter, client, request, response, worker, files, disk>>

Restore(m) ==
  /\ phase = "ready" /\ last = -1
  /\ phase' = "restore" /\ target' = m.att
  /\ UNCHANGED <<driver, active, adapter, client, request, response, worker, files, disk>>

\* load_checkpoint returns when the worker's state is that of the JSON file,
\* and raises otherwise; then a recovery finalizes, a restart is done.
Loaded(m) ==
  /\ Answered /\ phase \in {"recover", "restore"} /\ m.att = target
  /\ Received
  /\ LET agrees == response.state = m.json
         restored == agrees /\ phase = "restore"
     IN /\ pending' = IF agrees THEN 0 ELSE pending
        /\ last' = IF restored THEN m.step ELSE last
        /\ base' = IF restored THEN m.att ELSE base
        /\ phase' = IF phase = "restore" THEN "ready"
                    ELSE IF agrees THEN "refinalize" ELSE "recovery"
  /\ UNCHANGED <<cur, att, active, target, token, disk>>

\* A new driver, adapter, client and worker under a run root of their own, with
\* its request directories; the worker of the old client answers nobody.  Dying again while it
\* starts would leave nothing that is not here already.
Restart ==
  /\ "crash" \in Faults /\ phase # "start" /\ att > 0
  /\ phase' = "start"
  /\ last' = -1 /\ base' = 0
  /\ active' = FALSE /\ target' = 0
  /\ pending' = 0 /\ token' = 0
  /\ waiting' = FALSE /\ broken' = FALSE /\ cached' = 0
  /\ request' = NoRequest /\ response' = NoResponse
  /\ worker' = FreshWorker
  /\ files' = [files EXCEPT ![0] = NoFile]
  /\ UNCHANGED <<cur, att, disk>>

CallStep == \/ Send \/ CannotSend \/ ReceiveError \/ SeeExit \/ TimeOut
            \/ Started \/ Predicted \/ Snapshotted \/ Corrected \/ Exported \/ Finalized
            \/ Discarded \/ Reloaded
            \/ \E m \in disk : Loaded(m)

StepStep == SlicesDone \/ StepRaises \/ Publish

Decide == RunStep \/ Restart \/ \E m \in disk : Recover(m) \/ Restore(m)

Next == CallStep \/ StepStep \/ Decide \/ Handle \/ WorkerExits

\* Every wait of the client has a deadline; run_step goes on between its calls.
Spec     == Init /\ [][Next]_vars
FairSpec == Spec /\ WF_vars(CallStep) /\ WF_vars(StepStep)
-----------------------------------------------------------------------------
TypeOK ==
  /\ phase \in Calls \cup Points \cup Resting
  /\ last \in StepNos /\ base \in Versions /\ cur \in Steps /\ att \in Versions
  /\ active \in BOOLEAN /\ target \in Versions
  /\ pending \in (-MaxAttempts)..MaxAttempts /\ token \in Versions
  /\ waiting \in BOOLEAN /\ broken \in BOOLEAN /\ cached \in (-MaxAttempts)..MaxAttempts
  /\ request \in Requests /\ response \in Responses
  /\ worker \in Workers
  /\ files \in [Versions -> Files]
  /\ disk \subseteq Manifests

(***************************************************************************)
(* The worker and the driver are in step: a driver ready for its next step *)
(* has a worker that holds, as committed and with nothing staged, the      *)
(* state and the step the driver stands on, after any failure that leaves  *)
(* the client usable.                                                      *)
(***************************************************************************)
InStep ==
  phase = "ready" /\ worker.alive /\ ~broken =>
    /\ worker.committed = base /\ worker.step = last
    /\ worker.prediction = 0 /\ worker.correction = 0
    /\ request = NoRequest

(***************************************************************************)
(* The two records of a committed state agree: the JSON state the driver   *)
(* took from a response and the native file the worker wrote are the       *)
(* correction of the manifest's own attempt and step, and the manifest     *)
(* continues a committed manifest of the step before.                      *)
(***************************************************************************)
NativeMatchesJson ==
  \A m \in disk :
    /\ m.json = m.att
    /\ files[m.att] = [state |-> m.json, step |-> m.step]
    /\ IF m.from = 0 THEN m.step = 0
       ELSE \E n \in disk : n.att = m.from /\ n.step = m.step - 1

(***************************************************************************)
(* Adapter and driver keep the worker's protocol: whatever timed out, was  *)
(* lost or restarted before, no command is sent that the worker turns down *)
(* because of its state, but for the finalization inside a recovery.       *)
(***************************************************************************)
CallsLegal == response.status = "illegal" => response.by = "refinalize"

(***************************************************************************)
(* The structure seen by the driver: staged, finalized only when durable,  *)
(* reloaded only from what is durable.  MultiSliceScheduler keeps the same *)
(* contract from the driver's side.                                        *)
(***************************************************************************)
Contract == INSTANCE StagedStructure WITH
  Ids       <- Attempts,
  Root      <- 0,
  committed <- worker.committed,
  staged    <- worker.correction,
  durable   <- {m.json : m \in disk}

ImplementsContract == Contract!Spec

(***************************************************************************)
(* Every call of the driver on its structure ends, also when the worker    *)
(* exits, its answer is lost or it never answers.                          *)
(***************************************************************************)
CallEnds == phase \in Calls ~> phase \notin Calls

\* finalize_committed is idempotent: called again by a recovery, after the
\* worker has loaded the committed state, it does not raise.
FinalizeIdempotent == response.by = "refinalize" => response.status # "illegal"
=============================================================================
