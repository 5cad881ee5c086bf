----------------------------- MODULE FullyAsync -----------------------------
(***************************************************************************)
(* The fully asynchronous RL pipeline: the Rollouter fills the             *)
(* MessageQueue while the FullyAsyncTrainer drains it batch by batch and,  *)
(* every trigger_parameter_sync_step batches, has the                      *)
(* ParameterSynchronizer pause the Rollouter, transfer the weights, and    *)
(* -- without waiting -- update its version and resume it.                 *)
(* (fully_async_trainer.py, param_sync.py; Rollouter and MessageQueue are  *)
(* modules of their own.)                                                  *)
(***************************************************************************)
EXTENDS Rollouter, Functions

CONSTANTS Trainer,      \* the queue's one consumer
          TestFreq      \* rollout.test_freq (its absolute value: only % uses it)

ASSUME TrainerAssumption == Consumers = {Trainer} /\ TestFreq \in Nat \ {0}

VARIABLES
  tpc,          \* where the trainer's fit() is
  batch,        \* queue_samples: the samples collected so far
  localStep,    \* local_trigger_step
  tversion,     \* the trainer's current_param_version
  syncVersion,  \* the ParameterSynchronizer's current_version, passed to the Rollouter
  trained,      \* samples trained on
  staleUsed     \* samples of an older version trained on since the last version bump

trainVars == <<tpc, batch, localStep, tversion, syncVersion, trained, staleUsed>>
vars == <<mqVars, rollVars, trainVars>>

TrainTypeOK ==
  /\ tpc \in {"collect", "train", "trigger", "sync", "final", "finalSync", "finalWait", "ended"}
  /\ batch \in Seq(Sample) /\ Len(batch) <= RequiredSamples
  /\ localStep \in 1..TriggerStep
  /\ tversion \in Nat /\ syncVersion \in Nat
  /\ trained \subseteq Sample
  /\ staleUsed \in Nat

TypeOK == MQTypeOK(0..Total) /\ RollTypeOK /\ TrainTypeOK

Init ==
  /\ MQInit
  /\ RollInit
  /\ tpc = "collect" /\ batch = <<>> /\ localStep = 1
  /\ tversion = 0 /\ syncVersion = 0 /\ trained = {} /\ staleUsed = 0

-----------------------------------------------------------------------------
\* _get_samples_from_queue

TrainerWait ==
  /\ tpc = "collect"
  /\ WaitForSample(Trainer)
  /\ UNCHANGED <<rollVars, trainVars>>

\* The finish signal ends the collection; a batch it cuts short is thrown away
TrainerTake ==
  /\ tpc = "collect"
  /\ TakeSample(Trainer)
  /\ IF Head(queue) = Nothing
     THEN tpc' = "final" /\ UNCHANGED batch
     ELSE /\ batch' = Append(batch, Head(queue))
          /\ tpc' = IF Len(batch) + 1 = RequiredSamples THEN "train" ELSE "collect"
  /\ UNCHANGED <<rollVars, localStep, tversion, syncVersion, trained, staleUsed>>

\* Samples of this batch rolled out with older parameters
\* (stale_samples_processed in _collect_metrics_from_samples)
StaleInBatch == Cardinality({s \in Range(batch) : tversion - ver[s] >= 1})

SyncDue == localStep >= TriggerStep

\* One training step, then _trigger_parameter_sync_after_step up to its first wait
TrainStep ==
  /\ tpc = "train"
  /\ trained' = trained \cup Range(batch)
  /\ batch' = <<>>
  /\ staleUsed' = StaleInBatch + (IF localStep = 1 THEN 0 ELSE staleUsed)
  /\ IF SyncDue
     THEN localStep' = 1 /\ tversion' = tversion + 1 /\ tpc' = "trigger"
     ELSE localStep' = localStep + 1 /\ tpc' = "collect" /\ UNCHANGED tversion
  /\ UNCHANGED <<rollVars, mqVars, syncVersion>>

-----------------------------------------------------------------------------
\* ParameterSynchronizer

\* wait_last_valid(): the previous update_param_version and resume have returned
LastSyncDone == rpc = "idle"

\* Mutant of PassedOn: the version counted on only after the call
PassedOnBefore == tversion - 1

\* The version the trainer calls sync_weights() with
PassedOn == tversion

\* sync_weights(): call pause() and wait for it
SyncBegin ==
  /\ tpc = "trigger" /\ LastSyncDone
  /\ syncVersion' = PassedOn
  /\ rpc' = "pauseCall"
  /\ tpc' = "sync"
  /\ UNCHANGED <<loop, lock, procVars, feedVars, flagVars, staleness, taskVars, counted,
                 version, serversPaused, mon, mainpc, mqVars,
                 batch, localStep, tversion, trained, staleUsed>>

\* ... the weights have been transferred: submit update_param_version and, behind
\* it, resume, and let the trainer go on
WeightsSynced ==
  /\ rpc = "paused"
  /\ rpc' = "updateCall"
  /\ tpc' = IF tpc = "sync" THEN "collect" ELSE "finalWait"
  /\ UNCHANGED <<loop, lock, procVars, feedVars, flagVars, staleness, taskVars, counted,
                 version, serversPaused, mon, mainpc, mqVars,
                 batch, localStep, tversion, syncVersion, trained, staleUsed>>

Update == UpdateBegin(syncVersion) /\ UNCHANGED trainVars

-----------------------------------------------------------------------------
\* The end of the trainer's fit()

FinalSyncNeeded == tversion % TestFreq # 0 \/ localStep > 1

TrainerFinal ==
  /\ tpc = "final" /\ LastSyncDone
  /\ IF FinalSyncNeeded
     THEN tversion' = tversion + 1 /\ localStep' = 1 /\ syncVersion' = tversion + 1
          /\ rpc' = "pauseCall" /\ tpc' = "finalSync"
     ELSE tpc' = "ended" /\ UNCHANGED <<tversion, localStep, syncVersion, rpc>>
  /\ UNCHANGED <<loop, lock, procVars, feedVars, flagVars, staleness, taskVars, counted,
                 version, serversPaused, mon, mainpc, mqVars, batch, trained, staleUsed>>

TrainerEnd ==
  /\ tpc = "finalWait" /\ LastSyncDone
  /\ tpc' = "ended"
  /\ UNCHANGED <<rollVars, mqVars, batch, localStep, tversion, syncVersion, trained, staleUsed>>

TrainerStep ==
  \/ TrainerWait \/ TrainerTake \/ TrainStep \/ SyncBegin \/ TrainerFinal \/ TrainerEnd

SyncStep ==
  \/ (CallStart \/ PauseBegin \/ PauseGathered \/ PauseEnd
      \/ UpdateQueueSize \/ UpdateStore \/ UpdateEnd \/ Resume) /\ UNCHANGED trainVars
  \/ WeightsSynced
  \/ Update

RollStep == (Feed \/ Processor \/ Monitor \/ Main) /\ UNCHANGED trainVars

TaskStep(s) == Task(s) /\ UNCHANGED trainVars

Ended == tpc = "ended" /\ mainpc = "ended" /\ mon = "ended"

Terminated == Ended /\ UNCHANGED vars

Next ==
  \/ RollStep \/ SyncStep \/ TrainerStep
  \/ \E s \in Sample : TaskStep(s)
  \/ Terminated

Spec == Init /\ [][Next]_vars

(***************************************************************************)
(* Fairness.  asyncio serves its ready queue in order, so a coroutine that *)
(* can run again and again does run: strong fairness, because another      *)
(* coroutine holding the event loop disables it for a moment.  The         *)
(* monitor's timer expires again and again, a Ray call that was submitted  *)
(* is executed, and a generation ends unless it is interrupted.  Nothing   *)
(* makes a task fail.                                                      *)
(***************************************************************************)
Fairness ==
  /\ SF_vars(Feed /\ UNCHANGED trainVars)
  /\ SF_vars(Processor /\ UNCHANGED trainVars)
  /\ SF_vars(Monitor /\ UNCHANGED trainVars)
  /\ SF_vars(Main /\ UNCHANGED trainVars)
  /\ SF_vars(SyncStep)
  /\ WF_vars(TrainerStep)
  /\ \A s \in Sample :
        SF_vars((TaskFinish(s) \/ TaskPut(s) \/ TaskCancel(s)) /\ UNCHANGED trainVars)

FairSpec == Spec /\ Fairness

-----------------------------------------------------------------------------
\* Samples the Rollouter has started and the Trainer has not got yet (while no
\* finish signal is in the queue), and the one the processor still holds
Outstanding == Cardinality(gen) + Cardinality(putting) + Len(cancelQ) + Len(queue)
HeldSample == IF held \in Sample THEN 1 ELSE 0

(* A sample is in one place at a time and reaches the trainer at most once,*)
(* through every interruption, requeueing and failure.                     *)
OnePlace ==
  /\ \A s \in Sample :
       Cardinality({p \in 1..9 :
          s \in << (taken + 1)..Total, {held}, gen, putting, Range(cancelQ),
                  Range(queue), Range(batch), trained, lost >>[p]}) <= 1
  /\ IsInjective(cancelQ) /\ IsInjective(batch)
  /\ \A i, j \in 1..Len(queue) : i # j => queue[i] # queue[j]

(* active_tasks never exceeds max_concurrent_samples, although the         *)
(* processor checks the limit first, waits for the lock, and possibly for  *)
(* the end of a pause, and adds its task only then.                        *)
ConcurrencyLimit == Active <= MaxConcurrent

(* The staleness count keeps the samples that are started but not yet      *)
(* trained within max_required_samples plus the one the processor holds:   *)
(* update_param_version recomputes the count while samples move between    *)
(* tasks and queues, and forgets the held one.                             *)
OutstandingBound == mainpc = "run" => Outstanding + HeldSample <= MaxRequired + 1

(* Both bounds on what the Rollouter has in flight, its tasks and its      *)
(* samples ahead of training.                                              *)
InFlightBounded == ConcurrencyLimit /\ OutstandingBound

(* A processor asleep on the condition is asleep because generation is     *)
(* paused: whoever clears `paused' (the monitor, resume) also notifies.    *)
SleepsOnlyWhilePaused == ppc \in {"condResume", "condSubmit"} => paused

(* staleness_threshold is the maximum proportion of stale samples          *)
(* (fully_async_policy/README.md): of those trained on between two weight  *)
(* synchronizations at most StaleSamples are stale.                        *)
StaleShare == staleUsed <= StaleSamples

(* A sample is trained on late by no more versions than the budget allows: *)
(* the samples of the whole intervals in between are fewer than            *)
(* max_required_samples, wherever update_param_version's recount falls     *)
(* among the trainer's steps, which do not wait for it.                    *)
VersionLag ==
  tpc = "train" =>
    \A s \in Range(batch) :
      (tversion - ver[s] - 1) * (RequiredSamples * TriggerStep) < MaxRequired

(* The samples in the queue are ordered by the parameter version they were *)
(* finished with: a weight synchronization separates them.                 *)
VersionsInOrder ==
  \A i, j \in 1..Len(queue) :
     i < j /\ queue[i] # Nothing /\ queue[j] # Nothing => ver[queue[i]] <= ver[queue[j]]

(* While the weights are being transferred the rollout engines generate    *)
(* nothing: pause() has waited for every task, including those whose       *)
(* samples were submitted while it waited for the lock, and the processor  *)
(* adds none.  Only the monitor, which decides without the lock, can undo  *)
(* the pause behind pause()'s back; then and only then do tasks run.       *)
NoGenerationDuringSync == rpc = "paused" => gen = {} \/ serversPaused \/ behind

(* fully_async_policy/README.md: "When triggering parameter                *)
(* synchronization, if Rollouter has ongoing tasks, it will wait for the   *)
(* tasks to complete and not add new tasks".                               *)
NoNewTasks == rpc = "paused" => gen = {}

(* The monitor has left the present synchronization alone, or cannot harm  *)
(* it: with partial rollout the servers refuse what it lets in.            *)
Undisturbed == PartialRollout \/ ~behind

(* The processor ends with the feed and never dies of an exception of its  *)
(* own (no sample task raises in the runs that check it).                  *)
ProcessorSurvives == ppc # "crashed"

(* README: rollouter generates at most rollout_num =                       *)
(* (1+staleness_threshold)*(...) - num_staleness_sample samples between    *)
(* two updates, so old and new samples together never exceed it.           *)
RolloutBudget == mainpc = "run" => Outstanding <= MaxRequired

(* No sample is evicted from a full queue while samples are produced.      *)
NoEviction == mainpc = "run" => dropped = 0

(* When both sides are finished and nothing failed or was evicted, the     *)
(* trainer has used every sample but the incomplete last batch.            *)
AllDelivered ==
  Ended /\ ppc = "end" /\ lost = {} /\ dropped = 0
    => trained \cup Range(batch) = Sample

(* Never do both sides wait for good: the processor asleep because the     *)
(* staleness count is at its limit, the trainer waiting for a sample, none *)
(* on its way, and no weight synchronization left to reset the count.      *)
NoStall ==
  ~ /\ mainpc = "run" /\ ppc \in {"condResume", "condSubmit"}
    /\ staleness >= MaxRequired /\ gen = {} /\ putting = {} /\ queue = <<>>
    /\ tpc = "collect" /\ rpc = "idle"

(* Rollout and training never wait for each other forever: the trainer's   *)
(* fit() returns.                                                          *)
Terminates == <>(tpc = "ended")
=============================================================================
