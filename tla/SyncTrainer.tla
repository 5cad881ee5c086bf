----------------------------- MODULE SyncTrainer -----------------------------
(* The synchronous PPO trainer (RayPPOTrainer): one driver that has the       *)
(* workers generate, score and train batch after batch, saves checkpoints,    *)
(* may die at any moment and is then started again.                           *)
EXTENDS HybridWorker, Checkpoint

CONSTANTS Confs,        \* the configurations considered
          EpochLen,     \* batches in the dataloader
          Epochs,       \* trainer.total_epochs
          TotalSteps,   \* total_training_steps
          SaveFreq,     \* trainer.save_freq
          TestFreq,     \* trainer.test_freq
          MaxCrashes    \* bound: crashes considered

ConfType == [lora : BOOLEAN, sleepLevel : 1..2, freeCache : BOOLEAN, offload : BOOLEAN,
             critic : BOOLEAN, keep : Nat, warmup : Nat, dummy : BOOLEAN, valFirst : BOOLEAN,
             asyncReward : BOOLEAN, bypass : BOOLEAN, esi : BOOLEAN]

ASSUME TrainerAssumption ==
  /\ Confs \subseteq ConfType
  /\ {EpochLen, Epochs, TotalSteps, SaveFreq, TestFreq, MaxCrashes} \subseteq Nat
  /\ EpochLen > 0 /\ SaveFreq > 0 /\ TestFreq > 0

VARIABLES
  pc,        \* where the driver is in fit
  stage,     \* before the first step, in a step, or after its updates
  step,      \* global_steps
  epoch,     \* the epoch of the outer loop
  loader,    \* batches the dataloader has yielded in this epoch
  batch,     \* which weights made the parts of the batch
  crashes    \* history: crashes so far

driverVars == <<pc, stage, step, epoch, loader, batch, crashes>>
vars == <<driverVars, hybridVars, ckptVars>>

Nothing == [data |-> 0, by |-> None, old |-> None, values |-> None, reward |-> "none"]
UsedRoles == IF conf.critic THEN Roles ELSE {"actor"}

Init ==
  /\ conf \in Confs
  /\ WorkerStart
  /\ CkptInit
  /\ pc = "down" /\ stage = "first"
  /\ step = 0 /\ epoch = 0
  /\ loader = 0
  /\ batch = Nothing
  /\ crashes = 0

(* init_workers: the engine starts awake and is put to sleep at once. *)
Boot ==
  /\ pc = "down"
  /\ pc' = "load"
  /\ IF conf.freeCache THEN TrainerMode ELSE UNCHANGED hybridVars
  /\ UNCHANGED <<ckptVars, stage, step, epoch, loader, batch, crashes>>

FromScratch == tracker = Absent

Readable == tracker > 0 /\ Complete(tracker, UsedRoles)

\* Mutant of RestoredLoader: data.pt is not read
RestoredLoaderNever == loader

(* Without a state file the dataloader starts from scratch. *)
RestoredLoader == IF DataSaved(tracker) THEN Loaded(tracker, "data") ELSE loader

(* _load_checkpoint: the step in the tracker, weights, optimizer, generator  *)
(* and position in the data.  A missing shard is an exception.          *)
Load ==
  /\ pc = "load"
  /\ \/ /\ FromScratch
        /\ pc' = "begin"
        /\ UNCHANGED <<model, rng, step, loader>>
     \/ /\ ~FromScratch /\ ~Readable
        /\ pc' = "failed"
        /\ UNCHANGED <<model, rng, step, loader>>
     \/ /\ Readable
        /\ pc' = "begin"
        /\ step' = tracker
        /\ model' = [role \in Roles |->
                       IF role \in UsedRoles
                       THEN WithState(model[role], Loaded(tracker, role).version)
                       ELSE model[role]]
        /\ rng' = [rng EXCEPT !.device =
                     Loaded(tracker, IF conf.critic THEN "critic" ELSE "actor").rng]
        /\ loader' = RestoredLoader
  /\ UNCHANGED <<conf, engine, ckptVars, stage, epoch, batch, crashes>>

FirstEpoch == step \div EpochLen

(* The start of fit: perhaps a validation, then the first step. *)
Begin ==
  /\ pc = "begin"
  /\ epoch' = FirstEpoch
  /\ IF conf.valFirst
     THEN pc' = "wake" /\ UNCHANGED <<stage, step>>
     ELSE pc' = "fetch" /\ stage' = "train" /\ step' = step + 1
  /\ UNCHANGED <<hybridVars, ckptVars, loader, batch, crashes>>

(* The next batch of this epoch; a loader restored from a checkpoint goes on *)
(* where it was, and one restored after its last batch has none.              *)
NextBatch ==
  /\ pc = "fetch"
  /\ epoch < Epochs
  /\ loader < EpochLen
  /\ loader' = loader + 1
  /\ batch' = [Nothing EXCEPT !.data = loader + 1]
  /\ pc' = "wake"
  /\ UNCHANGED <<hybridVars, ckptVars, stage, step, epoch, crashes>>

EndEpoch ==
  /\ pc = "fetch"
  /\ epoch < Epochs
  /\ loader = EpochLen
  /\ loader' = 0
  /\ epoch' = epoch + 1
  /\ UNCHANGED <<hybridVars, ckptVars, pc, stage, step, batch, crashes>>

OutOfEpochs ==
  /\ pc = "fetch"
  /\ epoch >= Epochs
  /\ pc' = "finished"
  /\ UNCHANGED <<hybridVars, ckptVars, stage, step, epoch, loader, batch, crashes>>

\* Mutant of Wake: the workers are woken up only when the cache is freed
WakeIfFreed ==
  /\ pc = "wake"
  /\ IF conf.freeCache THEN GatherWeights("actor") /\ pc' = "offload"
                       ELSE UNCHANGED hybridVars /\ pc' = "generate"
  /\ UNCHANGED <<ckptVars, stage, step, epoch, loader, batch, crashes>>

(* AgentLoopManager.generate_sequences: wake up, generate, sleep.  It wakes  *)
(* the workers up whether or not the cache is freed.                          *)
Wake ==
  /\ pc = "wake"
  /\ GatherWeights("actor")
  /\ pc' = "offload"
  /\ UNCHANGED <<ckptVars, stage, step, epoch, loader, batch, crashes>>

Offload ==
  /\ pc = "offload"
  /\ ResumeWeights("actor")
  /\ pc' = "send"
  /\ UNCHANGED <<ckptVars, stage, step, epoch, loader, batch, crashes>>

Send ==
  /\ pc = "send"
  /\ SendWeights("actor")
  /\ pc' = "generate"
  /\ UNCHANGED <<ckptVars, stage, step, epoch, loader, batch, crashes>>

Generate ==
  /\ pc = "generate"
  /\ EngineGenerate
  /\ batch' = IF stage = "train" THEN [batch EXCEPT !.by = Policy] ELSE batch
  /\ pc' = "sleep"
  /\ UNCHANGED <<ckptVars, stage, step, epoch, loader, crashes>>

(* Back in trainer mode, and on to what the generation was for. *)
Sleep ==
  /\ pc = "sleep"
  /\ TrainerMode
  /\ pc' = CASE stage = "first" -> "fetch" [] stage = "train" -> "reward"
             [] stage = "after" -> "save"
  /\ IF stage = "first" THEN stage' = "train" /\ step' = step + 1
                        ELSE UNCHANGED <<stage, step>>
  /\ UNCHANGED <<ckptVars, epoch, loader, batch, crashes>>

(* The reward is computed here, or by a remote task whose answer is awaited  *)
(* only before the advantages.                                                *)
Reward ==
  /\ pc = "reward"
  /\ batch' = [batch EXCEPT !.reward = IF conf.asyncReward THEN "running" ELSE "done"]
  /\ pc' = "old_log_prob"
  /\ UNCHANGED <<hybridVars, ckptVars, stage, step, epoch, loader, crashes>>

RewardDone ==
  /\ batch.reward = "running"
  /\ batch' = [batch EXCEPT !.reward = "done"]
  /\ UNCHANGED <<hybridVars, ckptVars, pc, stage, step, epoch, loader, crashes>>

(* Bypass mode takes the rollout's own log probabilities. *)
OldLogProb ==
  /\ pc = "old_log_prob"
  /\ batch' = [batch EXCEPT !.old = IF conf.bypass THEN batch.by ELSE model["actor"].version]
  /\ pc' = IF conf.critic THEN "values" ELSE "advantage"
  /\ UNCHANGED <<hybridVars, ckptVars, stage, step, epoch, loader, crashes>>

Values ==
  /\ pc = "values"
  /\ batch' = [batch EXCEPT !.values = model["critic"].version]
  /\ pc' = "advantage"
  /\ UNCHANGED <<hybridVars, ckptVars, stage, step, epoch, loader, crashes>>

Advantage ==
  /\ pc = "advantage"
  /\ batch.reward = "done"
  /\ pc' = IF conf.critic THEN "load_critic" ELSE "actor"
  /\ UNCHANGED <<hybridVars, ckptVars, stage, step, epoch, loader, batch, crashes>>

LoadCritic ==
  /\ pc = "load_critic"
  /\ LoadForUpdate("critic")
  /\ pc' = "update_critic"
  /\ UNCHANGED <<ckptVars, stage, step, epoch, loader, batch, crashes>>

UpdateCritic ==
  /\ pc = "update_critic"
  /\ ApplyUpdate("critic")
  /\ pc' = "actor"
  /\ UNCHANGED <<ckptVars, stage, step, epoch, loader, batch, crashes>>

WarmedUp == conf.warmup <= step

LoadActor ==
  /\ pc = "actor"
  /\ WarmedUp
  /\ LoadForUpdate("actor")
  /\ pc' = "update_actor"
  /\ UNCHANGED <<ckptVars, stage, step, epoch, loader, batch, crashes>>

LastStep == step >= TotalSteps
ValDue == LastStep \/ step % TestFreq = 0

AfterUpdates == stage' = "after" /\ pc' = IF ValDue THEN "wake" ELSE "save"

SkipActor ==
  /\ pc = "actor"
  /\ ~WarmedUp
  /\ AfterUpdates
  /\ UNCHANGED <<hybridVars, ckptVars, step, epoch, loader, batch, crashes>>

UpdateActor ==
  /\ pc = "update_actor"
  /\ ApplyUpdate("actor")
  /\ AfterUpdates
  /\ UNCHANGED <<ckptVars, step, epoch, loader, batch, crashes>>

\* Mutant of SaveDue: only the last step saves
SaveDueAtEnd == LastStep

SaveDue == LastStep \/ step % SaveFreq = 0

(* A save is due, or the elastic instance is about to expire. *)
BeginSave ==
  /\ pc = "save"
  /\ \/ SaveDue /\ pc' = "save_actor"
     \/ ~SaveDue /\ pc' = "advance"
     \/ ~SaveDue /\ conf.esi /\ pc' = "save_actor"
  /\ UNCHANGED <<hybridVars, ckptVars, stage, step, epoch, loader, batch, crashes>>

SavePlace(role) == IF role = "actor" THEN "save_actor" ELSE "save_critic"
StateOf(role) == [version |-> model[role].version, rng |-> rng.device]

SaveRole(role) ==
  /\ pc = SavePlace(role)
  /\ SaveStep(role, step, StateOf(role), conf.keep)
  /\ UNCHANGED <<hybridVars, driverVars>>

(* Every rank has returned: on to the critic, or to the dataloader. *)
RoleSaved(role) ==
  /\ pc = SavePlace(role)
  /\ Saved
  /\ place' = [r \in Ranks |-> "idle"]
  /\ pc' = IF role = "actor" /\ conf.critic THEN "save_critic" ELSE "save_data"
  /\ UNCHANGED <<hybridVars, disk, tracker, saved, stage, step, epoch, loader, batch,
                 crashes>>

SaveData ==
  /\ pc = "save_data"
  /\ WriteData(step, loader)
  /\ pc' = "save_tracker"
  /\ UNCHANGED <<hybridVars, stage, step, epoch, loader, batch, crashes>>

SaveTracker ==
  /\ pc = "save_tracker"
  /\ WriteTracker(step)
  /\ pc' = "advance"
  /\ UNCHANGED <<hybridVars, stage, step, epoch, loader, batch, crashes>>

Advance ==
  /\ pc = "advance"
  /\ step' = step + 1
  /\ stage' = "train"
  /\ batch' = Nothing
  /\ pc' = IF LastStep THEN "finished" ELSE "fetch"
  /\ UNCHANGED <<hybridVars, ckptVars, epoch, loader, crashes>>

(* Any process dies and the job with it; what is in memory is gone. *)
Crash ==
  /\ pc \notin {"down", "failed", "finished"}
  /\ crashes < MaxCrashes
  /\ crashes' = crashes + 1
  /\ ForgetPaths
  /\ pc' = "down" /\ stage' = "first"
  /\ step' = 0 /\ epoch' = 0
  /\ loader' = 0
  /\ batch' = Nothing
  /\ model' = [role \in Roles |-> FreshModel]
  /\ engine' = FreshEngine /\ rng' = FreshRng
  /\ UNCHANGED conf

Driver ==
  \/ Boot \/ Load \/ Begin \/ NextBatch \/ EndEpoch \/ OutOfEpochs
  \/ Wake \/ Offload \/ Send \/ Generate \/ Sleep
  \/ Reward \/ OldLogProb \/ Values \/ Advantage
  \/ LoadCritic \/ UpdateCritic \/ LoadActor \/ SkipActor \/ UpdateActor
  \/ BeginSave \/ (\E role \in Roles : SaveRole(role) \/ RoleSaved(role))
  \/ SaveData \/ SaveTracker \/ Advance

Next == Driver \/ RewardDone \/ Crash

Spec == Init /\ [][Next]_vars

(* The driver and its calls go on as long as they can, a remote reward task  *)
(* returns, and a job that died is started again; nothing makes it die.       *)
FairSpec == Spec /\ WF_vars(Driver) /\ WF_vars(RewardDone)
-----------------------------------------------------------------------------
(* Properties. *)

(* Updates of each role after so many steps: the actor's start when the      *)
(* critic is warm.                                                            *)
ActorUpdates(n) == IF conf.warmup <= 1 THEN n
                   ELSE IF n < conf.warmup THEN 0 ELSE n - conf.warmup + 1
Updates(role, n) == IF role = "actor" THEN ActorUpdates(n) ELSE n
Position(n) == ((n - 1) % EpochLen) + 1

(* Whenever the job dies, the checkpoint its tracker names is whole and of   *)
(* one moment: a shard of every rank and role, the same updates in all of     *)
(* them, and the position in the data that belongs to that step (the order    *)
(* of _save_checkpoint and of the manager's removals).                        *)
Recoverable ==
  tracker > 0 =>
    /\ Complete(tracker, UsedRoles)
    /\ \A role \in UsedRoles : \A f \in ShardsOf(tracker, role) :
         f.holds.version = Updates(role, tracker)
    /\ DataSaved(tracker) /\ Loaded(tracker, "data") = Position(tracker)

(* A restart in auto mode finds a checkpoint it can load, or none.           *)
Resumable == pc # "failed"

(* Tokens come from the actor's present weights, with no prefix cached under *)
(* older ones; and an update uses a batch made, and scored as old policy, by  *)
(* the weights it changes, with values of the critic before its own update.   *)
OnPolicy ==
  /\ pc = "generate" => /\ Policy = model["actor"].version
                        /\ engine.cached \subseteq {Policy}
  /\ pc = "update_actor" =>
       /\ batch.by = model["actor"].version /\ batch.old = batch.by
       /\ conf.critic => batch.values = model["critic"].version - 1
       /\ batch.reward = "done"

(* The step counter, the weights, the batch and the training stream of the   *)
(* generator go together, in the first process and in every one resumed:      *)
(* no batch is trained on twice or passed over.                               *)
TrainedSteps == IF stage = "train" THEN step - 1 ELSE step
StateMatchesStep ==
  /\ pc = "fetch" => \A role \in UsedRoles : model[role].version = Updates(role, step - 1)
  /\ pc \in {"wake", "actor"} /\ stage = "train" => batch.data = Position(step)
  /\ pc = "reward" => rng.device[2] = model["actor"].version + model["critic"].version

(* With offloading and a cache that is freed, the engine's weights and cache *)
(* are never in GPU memory together with the parameters or an optimizer;      *)
(* weights are sent to an engine that has room for them; and generation       *)
(* draws from a stream of its own.                                            *)
ModesApart ==
  /\ conf.offload /\ conf.freeCache /\ engine.awake # {} =>
       \A role \in Roles : model[role].params # "gpu" /\ model[role].optim # "gpu"
  /\ pc = "send" => "weights" \in engine.awake
  /\ pc \in {"generate", "sleep"} => rng.device[1] # rng.train[1]

(* What a restart at this moment would reach. *)
Durable == IF Readable /\ DataSaved(tracker) THEN tracker ELSE 0
Progress == IF pc \in {"down", "load", "failed"} THEN Durable ELSE TrainedSteps

Abstract == INSTANCE TrainingRun WITH
  MaxSteps <- EpochLen * Epochs, SaveEvery <- SaveFreq,
  progress <- Progress, durable <- Durable

(* The trainer implements TrainingRun: a crash costs at most the steps since *)
(* the last save, and never one that was saved.                               *)
ImplementsTrainingRun == Abstract!Spec

(* However often the job dies, it ends. *)
Finishes == <>(pc = "finished")
=============================================================================
