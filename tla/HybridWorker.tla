---------------------------- MODULE HybridWorker ----------------------------
(* A worker that trains and generates on the same GPU                        *)
(* (ActorRolloutRefWorker): the FSDP model and its optimizer, the inference   *)
(* engine with its own copy of the weights, and the two random streams.       *)
(* All ranks switch together, so one worker stands for the group.             *)
EXTENDS Integers

VARIABLES
  conf,      \* the configuration of the run, fixed
  model,     \* weights by role: how many updates, and where they are
  engine,    \* the inference engine
  rng        \* the state of the device's generator and the two saved ones

hybridVars == <<conf, model, engine, rng>>

Lost == -2          \* freed by a sleep of level 2
Dummy == -1         \* never loaded (load_format = "dummy")
None == -3          \* no adapter

(* An update consumes from the train stream, a generation from the gen one.  *)
TrainStream(n) == <<"train", n>>
GenStream(n) == <<"gen", n>>

Place(offload) == IF offload THEN "cpu" ELSE "gpu"

FreshModel == [version |-> 0, params |-> Place(conf.offload), optim |-> "none"]

(* _build_rollout and the launch of the server: the engine holds the base    *)
(* model of the checkpoint it was given, or nothing; its start has drawn      *)
(* from the generator.                                                        *)
FreshEngine ==
  [awake |-> {"weights", "kv_cache"},
   base |-> IF conf.dummy THEN Dummy ELSE 0,
   adapter |-> None,
   cached |-> {},
   baseSynced |-> ~conf.dummy]

FreshRng == [device |-> <<"engine", 0>>, train |-> TrainStream(0), gen |-> GenStream(0)]

WorkerStart ==
  /\ model = [role \in {"actor", "critic"} |-> FreshModel]
  /\ engine = FreshEngine
  /\ rng = FreshRng

ToGpu(m) == [m EXCEPT !.params = "gpu"]

\* Mutant of Offloaded: the optimizer stays on the GPU
OffloadedParams(m) == [m EXCEPT !.params = Place(conf.offload)]

Offloaded(m) == [m EXCEPT !.params = Place(conf.offload),
                          !.optim = IF @ = "none" THEN @ ELSE Place(conf.offload)]

(* The engine's sleep: with level 1 the weights wait in host memory.         *)
Released(e) ==
  IF ~conf.freeCache THEN e
  ELSE [e EXCEPT !.awake = {},
                 !.base = IF conf.sleepLevel = 2 THEN Lost ELSE @]

(* Of a LoRA model rollout_mode sends the base until it has been sent once,  *)
(* then the adapter; with sleep level 2 the base is sent again every time.    *)
SendsBase == ~conf.lora \/ ~engine.baseSynced \/ conf.sleepLevel = 2
SendsAdapter == conf.lora /\ engine.baseSynced

Updated(e, version) ==
  [e EXCEPT !.base = IF ~SendsBase THEN @ ELSE IF conf.lora THEN 0 ELSE version,
            !.adapter = IF SendsAdapter THEN version ELSE @,
            !.baseSynced = TRUE]

(* rollout_mode: the weights are gathered on the GPU. *)
GatherWeights(role) ==
  /\ model' = [model EXCEPT ![role] = ToGpu(@)]
  /\ UNCHANGED <<conf, engine, rng>>

\* Mutant of ResumeWeights: the model stays on the GPU until the training mode
ResumeWeightsFirst(role) ==
  /\ engine' = IF conf.freeCache THEN [engine EXCEPT !.awake = @ \cup {"weights"}]
                                 ELSE engine
  /\ UNCHANGED <<conf, model, rng>>

(* The model goes back to the host before the engine's weights return. *)
ResumeWeights(role) ==
  /\ model' = [model EXCEPT ![role].params = Place(conf.offload)]
  /\ engine' = IF conf.freeCache THEN [engine EXCEPT !.awake = @ \cup {"weights"}]
                                 ELSE engine
  /\ UNCHANGED <<conf, rng>>

(* The weights are sent, and room is made for the cache.                      *)
SendWeights(role) ==
  /\ engine' = LET e == Updated(engine, model[role].version)
               IN  IF conf.freeCache THEN [e EXCEPT !.awake = @ \cup {"kv_cache"}] ELSE e
  /\ rng' = [rng EXCEPT !.train = rng.device, !.device = rng.gen]
  /\ UNCHANGED <<conf, model>>

(* The weights whose tokens the engine would produce.  Without an adapter a  *)
(* LoRA model generates as its base, which is its adapter before any update.  *)
Policy == IF conf.lora /\ engine.base = 0 /\ engine.adapter # None
          THEN engine.adapter ELSE engine.base

(* A generation leaves prefixes computed with these weights in the cache.    *)
EngineGenerate ==
  /\ engine' = [engine EXCEPT !.cached = @ \cup {Policy}]
  /\ rng' = [rng EXCEPT !.device = <<@[1], @[2] + 1>>]
  /\ UNCHANGED <<conf, model>>

(* vLLMHttpServer.sleep: the prefix cache is reset, then trainer_mode.       *)
PrefixReset(e) == [e EXCEPT !.cached = {}]

RestoredRng(g) == [g EXCEPT !.gen = g.device, !.device = g.train]

TrainerMode ==
  /\ engine' = Released(PrefixReset(engine))
  /\ rng' = RestoredRng(rng)
  /\ UNCHANGED <<conf, model>>

(* update_actor, update_critic: model and optimizer on the GPU, one update,  *)
(* and both back.                                                             *)
LoadForUpdate(role) ==
  /\ model' = [model EXCEPT ![role] = [ToGpu(@) EXCEPT !.optim = "gpu"]]
  /\ UNCHANGED <<conf, engine, rng>>

Trained(m) == [m EXCEPT !.version = @ + 1]

ApplyUpdate(role) ==
  /\ model' = [model EXCEPT ![role] = Offloaded(Trained(@))]
  /\ rng' = [rng EXCEPT !.device = <<@[1], @[2] + 1>>]
  /\ UNCHANGED <<conf, engine>>

(* load_checkpoint of the worker: weights, optimizer and generator. *)
WithState(m, version) == Offloaded([m EXCEPT !.version = version, !.optim = "gpu"])
=============================================================================
