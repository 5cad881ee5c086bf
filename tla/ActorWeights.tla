---------------------------- MODULE ActorWeights ----------------------------
(***************************************************************************)
(* The actor's weights between two synchronizations, with                  *)
(* compute_prox_log_prob: old log probabilities are computed by the weights *)
(* of the last synchronization, kept in CPU memory, which are put into the  *)
(* model for that time.  Weights are numbered by the updates behind them    *)
(* and lie in storages: a copy shares the storage of weights that are in    *)
(* CPU memory already, as they are with param_offload.                      *)
(* (ray_trainer.py, fsdp_workers.py, fsdp2_utils.py)                        *)
(***************************************************************************)
EXTENDS Integers, Functions

CONSTANTS Offload,     \* fsdp_config.param_offload
          MaxTrigger   \* bound on trigger_parameter_sync_step

ASSUME ActorAssumption == Offload \in BOOLEAN /\ MaxTrigger \in Nat \ {0}

VARIABLES
  actor,      \* the storages with their contents, the model's, and cpu_saved_models
  updates,    \* updates made
  synced,     \* updates behind the weights last synchronized
  proximal    \* updates behind the weights that computed the last old log probabilities

actorVars == <<actor, updates, synced, proximal>>

NotSaved == 0
Storage == 1..(MaxTrigger + 2)

ActorInit ==
  /\ actor = [heap |-> [s \in Storage |-> 0], param |-> 1, saved |-> [n \in 1..MaxTrigger |-> NotSaved]]
  /\ updates = 0 /\ synced = 0 /\ proximal = 0

Fresh(w) == CHOOSE s \in Storage : s # w.param /\ s \notin Range(w.saved)

\* Loaded for a computation and offloaded after it: the weights are in a new storage.
Reloaded(w) ==
  IF Offload THEN [w EXCEPT !.param = Fresh(w), !.heap[Fresh(w)] = w.heap[w.param]] ELSE w

\* save_model_to_cpu
Saved(w, n) ==
  IF Offload THEN [w EXCEPT !.saved[n] = w.param]
  ELSE [w EXCEPT !.saved[n] = Fresh(w), !.heap[Fresh(w)] = w.heap[w.param]]

\* restore_model_from_cpu
RestoredFrom(w, n) ==
  IF w.saved[n] = NotSaved THEN w ELSE [w EXCEPT !.heap[w.param] = w.heap[w.saved[n]]]

\* clear_cpu_model
Cleared(w, n) == [w EXCEPT !.saved[n] = NotSaved]

\* Mutant of Snapshot: taken once, by the first step of the run
SnapshotOnce(w) == IF w.saved[1] = NotSaved THEN Saved(w, 1) ELSE w

\* The first step after a synchronization keeps its weights.
Snapshot(w) == Saved(w, 1)

\* _process_batch_common, where it computes the old log probabilities
Proximal(w, step) == IF step = 1 THEN Snapshot(w) ELSE RestoredFrom(Saved(w, step), 1)
AfterProximal(w, step) ==
  IF step = 1 THEN Reloaded(w) ELSE Cleared(RestoredFrom(Reloaded(w), step), step)

\* One training step: old log probabilities, then the update
TrainWeights(step) ==
  LET before == Proximal(actor, step)
      after == Reloaded(AfterProximal(before, step))
  IN  /\ proximal' = before.heap[before.param]
      /\ actor' = [after EXCEPT !.heap[after.param] = @ + 1]
      /\ updates' = updates + 1
      /\ UNCHANGED synced

Synced ==
  /\ synced' = actor.heap[actor.param]
  /\ actor' = Reloaded(actor)
  /\ UNCHANGED <<updates, proximal>>
=============================================================================
