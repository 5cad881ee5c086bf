----------------------------- MODULE OneStepOff -----------------------------
(* The one-step-off-policy trainer (OneStepOffRayTrainer): while a batch is   *)
(* trained on, the next one is generated on other GPUs by the weights of the  *)
(* step before.  The driver is an asyncio program; a generation is a task of  *)
(* its loop that waits for remote workers.                                    *)
EXTENDS Integers, Sequences, FiniteSets, Functions

CONSTANTS EpochLen,     \* batches in the dataloader
          Epochs,       \* trainer.total_epochs
          SaveFreq,     \* trainer.save_freq
          TestFreq,     \* trainer.test_freq
          Tensors,      \* tensors of a weight transfer, sent in order
          MaxTokens,    \* bound: tokens of a generation
          MaxCrashes    \* bound: no crash after so many restarts

ASSUME OneStepAssumption ==
  /\ {EpochLen, Epochs, SaveFreq, TestFreq, Tensors, MaxTokens} \subseteq Nat \ {0}
  /\ MaxCrashes \in Nat

VARIABLES
  pc,          \* where the driver is in fit
  step,        \* global_steps
  actor,       \* updates of the actor's weights
  sent,        \* tensors sent by the transfer under way
  weights,     \* the rollout engine's weights: the version of each tensor
  cached,      \* versions of the weights that computed the prefix cache
  iterator,    \* the continuous iterator and the dataloader under it
  future,      \* batch_data_future: the generation of the next batch
  validated,   \* versions that generated for the last validation
  batch,       \* the batch in hand
  checkpoint,  \* the last one complete on disk
  trained,     \* history: the batches behind the present weights
  begun,       \* history: the step this process went on from
  restarts     \* history: restarts so far

engineVars == <<sent, weights, cached>>
rest == <<begun, checkpoint, restarts>>
oneStepVars == <<pc, step, actor, engineVars, iterator, future, validated, batch, trained, rest>>

TotalSteps == EpochLen * Epochs

(* taken counts the batches of the dataloader over the life of the run. *)
Start == [epoch |-> 0, yielded |-> 0, taken |-> 0]
NoFuture == [state |-> "none", data |-> 0, by |-> {}, tokens |-> 0]
NoBatch == [data |-> 0, by |-> {}]
NoCheckpoint == [step |-> 0, actor |-> 0, iterator |-> Start, trained |-> <<>>]

Unloaded == [t \in 1..Tensors |-> 0]

OneStepInit ==
  /\ pc = "load" /\ step = 0 /\ actor = 0
  /\ sent = 0 /\ weights = Unloaded /\ cached = {}
  /\ iterator = Start /\ future = NoFuture /\ validated = {} /\ batch = NoBatch
  /\ trained = <<>>
  /\ begun = 0 /\ checkpoint = NoCheckpoint /\ restarts = 0
-----------------------------------------------------------------------------
(* The rollout side: agent loop workers, servers and engine. *)

(* A token reads every tensor and the cached prefix. *)
Readers == Range(weights) \cup cached

GenerateToken ==
  /\ future.state = "running" /\ future.tokens < MaxTokens
  /\ future' = [future EXCEPT !.by = @ \cup Readers, !.tokens = @ + 1]
  /\ cached' = Readers
  /\ UNCHANGED <<pc, step, actor, sent, weights, iterator, validated, batch, trained, rest>>

GenerateEnd ==
  /\ future.state = "running" /\ future.tokens > 0
  /\ future' = [future EXCEPT !.state = "done"]
  /\ UNCHANGED <<pc, step, actor, engineVars, iterator, validated, batch, trained, rest>>

(* A validation goes to the same servers, beside a generation under way. *)
ValidateToken ==
  /\ pc \in {"validate_first", "validate"}
  /\ validated' = validated \cup Readers
  /\ cached' = Readers
  /\ UNCHANGED <<pc, step, actor, sent, weights, iterator, future, batch, trained, rest>>

-----------------------------------------------------------------------------
(* The driver. *)

\* Mutant of IteratorRestored: the dataloader's state is not loaded
IteratorNew == Start

(* The dataloader goes on where it was; the continuous iterator counts its   *)
(* epochs anew.                                                               *)
IteratorRestored == [checkpoint.iterator EXCEPT !.epoch = 0]

(* _load_checkpoint *)
Load ==
  /\ pc = "load"
  /\ step' = checkpoint.step
  /\ actor' = checkpoint.actor
  /\ iterator' = IteratorRestored
  /\ trained' = checkpoint.trained
  /\ begun' = checkpoint.step
  /\ pc' = "send_first"
  /\ UNCHANGED <<engineVars, future, validated, batch, checkpoint, restarts>>

(* sync_rollout_weights broadcasts tensor after tensor, each loaded as it    *)
(* comes.                                                                     *)
SendTensor ==
  /\ pc \in {"send_first", "send"}
  /\ sent < Tensors
  /\ sent' = sent + 1
  /\ weights' = [weights EXCEPT ![sent + 1] = actor]
  /\ UNCHANGED <<pc, step, actor, cached, iterator, future, validated, batch, trained, rest>>

\* Mutant of ClearedCache: the prefix cache is left as it is
ClearedNothing == cached

(* clear_kv_cache *)
ClearedCache == {}

\* Mutant of Synced: the transfer is not waited for
SyncedAtOnce ==
  /\ sent' = 0
  /\ cached' = ClearedCache
  /\ UNCHANGED weights

Synced ==
  /\ sent = Tensors
  /\ sent' = 0
  /\ cached' = ClearedCache
  /\ UNCHANGED weights

(* The weights are sent before anything is generated. *)
FirstSync ==
  /\ pc = "send_first" /\ Synced
  /\ pc' = "validate_first" /\ validated' = {}
  /\ UNCHANGED <<step, actor, iterator, future, batch, trained, rest>>

(* The next batch of the iterator: of this epoch, or else of the next one. *)
Yields == iterator.yielded < EpochLen \/ iterator.epoch + 1 < Epochs
NextItem ==
  LET i == [iterator EXCEPT !.taken = @ + 1]
  IN  IF iterator.yielded < EpochLen
      THEN [i EXCEPT !.yielded = @ + 1]
      ELSE [i EXCEPT !.epoch = @ + 1, !.yielded = 1]

(* _async_gen_next_batch up to its first await; without a batch left its     *)
(* result is None.                                                            *)
StartGeneration ==
  IF Yields
  THEN /\ iterator' = NextItem
       /\ future' = [NoFuture EXCEPT !.state = "running", !.data = NextItem.taken]
  ELSE /\ future' = [NoFuture EXCEPT !.state = "none_left"]
       /\ UNCHANGED iterator

(* After the initial validation the first generation is started. *)
FirstGeneration ==
  /\ pc = "validate_first"
  /\ step' = step + 1
  /\ StartGeneration
  /\ pc' = "await"
  /\ UNCHANGED <<actor, engineVars, validated, batch, trained, rest>>

(* The result is unpacked; a None cannot be. *)
AwaitBatch ==
  /\ pc = "await"
  /\ \/ /\ future.state = "done"
        /\ batch' = [data |-> future.data, by |-> future.by]
        /\ pc' = "send"
     \/ /\ future.state = "none_left"
        /\ pc' = "failed"
        /\ UNCHANGED batch
  /\ UNCHANGED <<step, actor, engineVars, iterator, future, validated, trained, rest>>

\* Mutant of LastStep: off by one
LastStepLate == step > TotalSteps

LastStep == step >= TotalSteps

(* The new weights are there: the next generation goes ahead of training. *)
NextGeneration ==
  /\ pc = "send" /\ Synced
  /\ pc' = "update"
  /\ IF LastStep THEN UNCHANGED <<iterator, future>> ELSE StartGeneration
  /\ UNCHANGED <<step, actor, validated, batch, trained, rest>>

(* Reward, log probabilities, values and advantages are computed from the    *)
(* batch and the weights as they are; then the actor is updated.              *)
UpdateActor ==
  /\ pc = "update"
  /\ actor' = actor + 1
  /\ trained' = Append(trained, batch.data)
  /\ IF LastStep \/ step % TestFreq = 0
     THEN pc' = "validate" /\ validated' = {}
     ELSE pc' = "save" /\ UNCHANGED validated
  /\ UNCHANGED <<step, engineVars, iterator, future, batch, rest>>

ValidationEnd ==
  /\ pc = "validate" /\ validated # {}
  /\ pc' = "save"
  /\ UNCHANGED <<step, actor, engineVars, iterator, future, validated, batch, trained, rest>>

(* _save_checkpoint, complete once its tracker is written (Checkpoint).  The *)
(* dataloader's state is the one the batch generated ahead has already left.  *)
Save ==
  /\ pc = "save"
  /\ checkpoint' = IF LastStep \/ step % SaveFreq = 0
                   THEN [step |-> step, actor |-> actor, iterator |-> iterator,
                         trained |-> trained]
                   ELSE checkpoint
  /\ pc' = IF LastStep THEN "finished" ELSE "await"
  /\ step' = step + 1
  /\ batch' = NoBatch
  /\ UNCHANGED <<actor, engineVars, iterator, future, validated, trained, begun, restarts>>

(* Everything in memory is gone, and the job is started again. *)
Restart ==
  /\ pc' = "load" /\ step' = 0 /\ actor' = 0
  /\ sent' = 0 /\ weights' = Unloaded /\ cached' = {}
  /\ iterator' = Start /\ future' = NoFuture /\ validated' = {} /\ batch' = NoBatch
  /\ trained' = <<>> /\ begun' = 0
  /\ UNCHANGED checkpoint

Crash ==
  /\ pc \notin {"failed", "finished"}
  /\ restarts < MaxCrashes
  /\ restarts' = restarts + 1
  /\ Restart

(* A job that died of an exception is started again too. *)
Again == pc = "failed" /\ restarts' = restarts + 1 /\ Restart

Rollout == GenerateToken \/ GenerateEnd \/ ValidateToken
Driver ==
  \/ Load \/ SendTensor \/ FirstSync \/ FirstGeneration
  \/ AwaitBatch \/ NextGeneration \/ UpdateActor \/ ValidationEnd \/ Save
OneStepNext == Rollout \/ Driver \/ Again \/ Crash

(* Driver and remote workers go on as long as they can; a generation and a   *)
(* validation end.                                                            *)
Fairness == /\ WF_oneStepVars(Driver) /\ WF_oneStepVars(GenerateToken) /\ WF_oneStepVars(GenerateEnd)
            /\ WF_oneStepVars(ValidateToken) /\ WF_oneStepVars(Again)

OneStepSpec == OneStepInit /\ [][OneStepNext]_oneStepVars /\ Fairness
-----------------------------------------------------------------------------
(* Properties. *)

(* While anything is generated the engine's tensors and its prefix cache are *)
(* of one version, so that no token mixes two (the order of await, transfer,  *)
(* clear and prefetch in fit).  A batch then is of the weights of the step     *)
(* before, or, for the first batch of a process, of its own; and a validation *)
(* of the step before, the final one included: the transfer comes before the  *)
(* update.                                                                    *)
OneStepBehind ==
  /\ future.state = "running" \/ pc \in {"validate_first", "validate"} =>
       Cardinality(Readers) = 1
  /\ pc = "update" => \/ batch.by = {actor - 1}
                      \/ batch.by = {actor} /\ step = begun + 1
  /\ pc = "validate" => validated \subseteq {actor - 1}

(* The batches behind the weights are those of the data in order, each once; *)
(* the only ones passed over are those generated ahead when a checkpoint was  *)
(* saved that a restart went back to.                                         *)
TrainedInOrder ==
  /\ \A i, j \in DOMAIN trained : i < j => trained[i] < trained[j]
  /\ Len(trained) = actor
  /\ \A i \in DOMAIN trained : trained[i] <= i + restarts

(* All steps are made. *)
Finished == pc = "finished" /\ actor = TotalSteps
=============================================================================
