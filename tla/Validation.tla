----------------------------- MODULE Validation -----------------------------
(***************************************************************************)
(* Validation in the asynchronous pipeline.  Every weight synchronization  *)
(* has the Rollouter put one report of its version into the message        *)
(* queue's val_queue, with metrics if the version is one to validate; the  *)
(* Trainer takes and logs at most one after each of its steps.  The        *)
(* Trainer may validate half of the data itself.  Its actor has one event  *)
(* loop, which a ray.get blocks: a call submitted to it meanwhile waits.   *)
(* (message_queue.py, param_sync.py, fully_async_rollouter.py,             *)
(* fully_async_trainer.py)                                                 *)
(***************************************************************************)
EXTENDS Integers, Sequences

CONSTANTS Modes,      \* settings to consider: parallel is parallel_validate_and_rollout,
                      \* byTrainer use_trainer_do_validate, before val_before_train,
                      \* freq rollout.test_freq, trigger trigger_parameter_sync_step
          Steps       \* training steps until the finish signal

ASSUME ModesAssumption ==
  /\ Steps \in Nat
  /\ \A m \in Modes : /\ {m.parallel, m.byTrainer, m.before} \subseteq BOOLEAN
                      /\ m.freq \in Nat \ {0} /\ m.trigger \in Nat \ {0}

VARIABLES
  mode,
  valQueue,     \* the message queue's val_queue: reports [version, metrics]
  queueVersion, \* the message queue's current_param_version
  update,       \* wait_last_update: the call of update_param_version last submitted
  valTask,      \* the Rollouter's validate_task: the version it validates, or Absent
  ownTask,      \* the synchronizer's validate_task: "none", "submitted", "done"
  fit,          \* where the trainer's fit() is
  steps,        \* training steps made
  step,         \* local_trigger_step
  current,      \* the trainer's current_param_version
  logged        \* versions whose reports were logged, in order

valVars == <<mode, valQueue, queueVersion, update, valTask, ownTask, fit, steps, step, current, logged>>

Absent == -1
NoUpdate == [state |-> "done", version |-> Absent, validate |-> FALSE]

ValInit ==
  /\ mode \in Modes
  /\ valQueue = <<>> /\ queueVersion = 0
  /\ update = NoUpdate /\ valTask = Absent /\ ownTask = "none"
  /\ fit = "starting" /\ steps = 0 /\ step = 1 /\ current = 0
  /\ logged = <<>>

TestDue(v) == v % mode.freq = 0 /\ v > 0

-----------------------------------------------------------------------------
\* message_queue.py

PutValidate(v, metrics) == valQueue' = Append(valQueue, [version |-> v, metrics |-> metrics])

-----------------------------------------------------------------------------
\* fully_async_rollouter.py

\* Mutant of Reports: nothing is put when there is nothing to validate
ReportsOnlyMetrics(needValidate) == needValidate /\ ~mode.parallel

\* Without parallel_validate_and_rollout a report is put before the call returns.
Reports(needValidate) == ~needValidate \/ ~mode.parallel

\* update_param_version.  A validation still running is waited for with
\* validate_task.get(), which an asyncio task does not have.
UpdateParamVersion ==
  LET needValidate == TestDue(update.version) \/ update.validate
      clash == needValidate /\ mode.parallel /\ valTask # Absent
  IN  /\ update.state = "submitted"
      /\ update' = [update EXCEPT !.state = IF clash THEN "failed" ELSE "done"]
      /\ IF Reports(needValidate) THEN PutValidate(update.version, needValidate) ELSE UNCHANGED valQueue
      /\ valTask' = IF needValidate /\ mode.parallel /\ ~clash THEN update.version ELSE valTask
      /\ UNCHANGED <<mode, queueVersion, ownTask, fit, steps, step, current, logged>>

\* do_validate_async
DoValidate ==
  /\ valTask # Absent
  /\ PutValidate(valTask, TRUE)
  /\ valTask' = Absent
  /\ UNCHANGED <<mode, queueVersion, update, ownTask, fit, steps, step, current, logged>>

-----------------------------------------------------------------------------
\* param_sync.py

\* Mutant of OwnSubmitted: at every synchronization
OwnSubmittedAlways(validate) == mode.byTrainer

OwnSubmitted(validate) == validate /\ mode.byTrainer

\* sync_weights, from the update of the queue's version
SyncWeights(v, validate) ==
  /\ queueVersion' = v
  /\ ownTask' = IF OwnSubmitted(validate) THEN "submitted" ELSE "none"
  /\ update' = [state |-> "submitted", version |-> v, validate |-> validate]

\* Mutant of LastValid: only the trainer's own validation is waited for
LastValidOwn == ownTask # "submitted"

\* wait_last_valid returns when update and resume have, and the trainer's validation
LastValid == update.state = "done" /\ ownTask # "submitted"

-----------------------------------------------------------------------------
\* fully_async_trainer.py

\* _validate_process, submitted by the synchronizer: fit() has not begun, or awaits
LoopFree == fit \in {"starting", "before", "validating", "validatingLast", "ended"}

ValidateProcess ==
  /\ ownTask = "submitted" /\ LoopFree
  /\ ownTask' = "done"
  /\ UNCHANGED <<mode, valQueue, queueVersion, update, valTask, fit, steps, step, current, logged>>

\* _log_validation_data, the last thing before fit() goes on to p
LogValidation(p) ==
  /\ fit' = p
  /\ IF valQueue = <<>> THEN UNCHANGED <<valQueue, logged>>
     ELSE valQueue' = Tail(valQueue) /\ logged' = Append(logged, Head(valQueue).version)
  /\ UNCHANGED <<mode, queueVersion, update, valTask, ownTask, steps, step, current>>

\* The task runner's first synchronization and its wait
FirstSync ==
  /\ fit = "starting" /\ SyncWeights(0, mode.before)
  /\ fit' = "before"
  /\ UNCHANGED <<mode, valQueue, valTask, steps, step, current, logged>>

Begin == fit = "before" /\ LastValid /\ LogValidation("train")

\* One step, and _trigger_parameter_sync_after_step up to its wait
Train ==
  /\ fit = "train" /\ steps < Steps
  /\ steps' = steps + 1
  /\ IF step < mode.trigger
     THEN step' = step + 1 /\ fit' = "log" /\ UNCHANGED current
     ELSE step' = 1 /\ fit' = "sync" /\ current' = current + 1
  /\ UNCHANGED <<mode, valQueue, queueVersion, update, valTask, ownTask, logged>>

\* The trainer validates itself, and then goes on, if the version is due.
Sync(validate, validating, next) ==
  /\ LastValid
  /\ SyncWeights(current, validate)
  /\ fit' = IF TestDue(current) /\ mode.byTrainer THEN validating ELSE next
  /\ UNCHANGED <<mode, valQueue, valTask, steps, step, current, logged>>

TriggerSync == fit = "sync" /\ Sync(FALSE, "validating", "log")

OwnValidation ==
  /\ fit \in {"validating", "validatingLast"}
  /\ fit' = IF fit = "validating" THEN "log" ELSE "lastWait"
  /\ UNCHANGED <<mode, valQueue, queueVersion, update, valTask, ownTask, steps, step, current, logged>>

Log == fit = "log" /\ LogValidation("train")

Finish ==
  /\ fit = "train" /\ steps = Steps /\ fit' = "remaining"
  /\ UNCHANGED <<mode, valQueue, queueVersion, update, valTask, ownTask, steps, step, current, logged>>

FinalSyncDue == current % mode.freq # 0 \/ step > 1

Remaining ==
  /\ fit = "remaining" /\ LastValid
  /\ LogValidation(IF FinalSyncDue THEN "lastTrigger" ELSE "ended")

LastTrigger ==
  /\ fit = "lastTrigger" /\ fit' = "lastSync"
  /\ current' = current + 1 /\ step' = 1
  /\ UNCHANGED <<mode, valQueue, queueVersion, update, valTask, ownTask, steps, logged>>

LastSync == fit = "lastSync" /\ Sync(TRUE, "validatingLast", "lastWait")

LastLog == fit = "lastWait" /\ LastValid /\ LogValidation("ended")

\* A wait for a call that failed raises.
Raise ==
  /\ fit \in {"before", "sync", "remaining", "lastSync", "lastWait"} /\ update.state = "failed"
  /\ fit' = "raised"
  /\ UNCHANGED <<mode, valQueue, queueVersion, update, valTask, ownTask, steps, step, current, logged>>

-----------------------------------------------------------------------------
\* Properties

\* The reports of all versions are logged, each once and in order, although the
\* trainer takes at most one after a step and does not wait for it: the last ones
\* are waited for, but for a validation beside the rollout (_log_validation_data)
Reported ==
  /\ \A i \in 1..Len(logged) : logged[i] = i - 1
  /\ fit = "ended" /\ ~mode.parallel => Len(logged) = current + 1 /\ valQueue = <<>>
  /\ \A i \in 1..Len(valQueue) : valQueue[i].version <= queueVersion

\* Once begun, the trainer's fit() returns: no wait of the three actors for each other is for
\* good. Only a validation beside the rollout makes it raise (fit)
FitReturns == (fit # "starting") ~> (fit = "ended" \/ (fit = "raised" /\ mode.parallel))
=============================================================================
