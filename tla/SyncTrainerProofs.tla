-------------------------- MODULE SyncTrainerProofs --------------------------
(* What the synchronous trainer guarantees for every number of ranks, data   *)
(* size, save interval and configuration, and however often it dies.         *)
(*                                                                            *)
(* The invariant has one part per thing that is kept: where the driver is     *)
(* (StageInv), how many updates the weights have (VersionInv), the position   *)
(* in the data (LoaderInv, EpochInv), the steps since the last save (LagInv), *)
(* the files (DiskInv, WholeInv) and the paths that may be removed (PathInv), *)
(* the engine and the GPU (EngineInv, MemoryInv), the random streams (RngInv) *)
(* and the batch (BatchInv).                                                  *)
EXTENDS SyncTrainer, SequenceTheorems, TLAPS

Booting == {"down", "load", "failed"}
Rolling == {"wake", "offload", "send", "generate", "sleep"}
Training == {"reward", "old_log_prob", "values", "advantage", "load_critic", "update_critic",
             "actor", "update_actor"}
Saving == {"save_actor", "save_critic", "save_data", "save_tracker"}
Places == Booting \cup {"begin", "fetch"} \cup Rolling \cup Training \cup {"save"} \cup Saving
            \cup {"advance", "finished"}

StageInv ==
  /\ conf \in Confs
  /\ step \in Nat /\ tracker \in Nat
  /\ \/ stage = "first" /\ pc \in Booting \cup {"begin"} \cup Rolling
     \/ stage = "train" /\ step > 0 /\ pc \in {"fetch", "finished"} \cup Rolling \cup Training
     \/ stage = "after" /\ step > 0 /\ pc \in Rolling \cup {"save"} \cup Saving \cup {"advance"}
  /\ pc \in {"values", "load_critic", "update_critic", "save_critic"} => conf.critic
  /\ pc = "update_actor" => WarmedUp
  /\ pc \in {"down", "load"} => step = 0 /\ loader = 0

VersionInv ==
  /\ model["actor"].version = ActorUpdates(IF stage = "train" THEN step - 1 ELSE step)
  /\ model["critic"].version =
       IF ~conf.critic THEN 0
       ELSE IF stage = "train" /\ pc \notin {"actor", "update_actor"} THEN step - 1 ELSE step

InHand == stage = "after" \/ (stage = "train" /\ pc \in Rolling \cup Training)

LoaderInv ==
  /\ loader \in 0..EpochLen
  /\ stage = "first" => loader % EpochLen = step % EpochLen
  /\ pc = "fetch" => loader % EpochLen = (step - 1) % EpochLen
  /\ InHand => loader = Position(step)

EpochInv ==
  /\ epoch \in Nat
  /\ stage = "first" /\ pc \in Rolling => step <= epoch * EpochLen + loader
  /\ pc = "fetch" => step - 1 <= epoch * EpochLen + loader
  /\ InHand => step <= epoch * EpochLen + loader
  /\ stage = "train" /\ InHand => step <= EpochLen * Epochs

LagInv ==
  /\ stage = "first" /\ pc \notin Booting => step = tracker
  /\ stage = "train" => tracker < step /\ (step - 1) - tracker <= (step - 1) % SaveFreq
  /\ stage = "after" /\ pc # "advance" =>
       tracker < step /\ step - tracker <= ((step - 1) % SaveFreq) + 1
  /\ pc = "advance" => tracker <= step /\ step - tracker <= step % SaveFreq

TrainTag == IF conf.freeCache THEN "train" ELSE "engine"
GenTag == IF conf.freeCache THEN "engine" ELSE "gen"
Drawn(n) == ActorUpdates(n) + (IF conf.critic THEN n ELSE 0)

DiskInv ==
  \A f \in disk :
    /\ f = Shard(f.step, f.role, f.rank, f.holds) /\ f.step \in Nat
    /\ \/ /\ f.role \in UsedRoles /\ f.rank \in Ranks
          /\ f.holds = [version |-> Updates(f.role, f.step), rng |-> <<TrainTag, Drawn(f.step)>>]
       \/ f.role = "data" /\ f.rank = Lead /\ f.holds = Position(f.step)

In(files, r, role, n) == \E f \in files : f.step = n /\ f.role = role /\ f.rank = r
HasShard(r, role, n) == In(disk, r, role, n)
HasAll(role, n) == \A r \in Ranks : HasShard(r, role, n)

DataInv ==
  /\ tracker > 0 => HasShard(Lead, "data", tracker)
  /\ pc = "save_tracker" => HasShard(Lead, "data", step)

PlaceInv ==
  /\ place \in [Ranks -> {"idle", "ready", "written", "saved"}]
  /\ \A r \in Ranks :
       /\ pc \notin {"save_actor", "save_critic"} => place[r] = "idle"
       /\ place[r] \in {"written", "saved"} => \A q \in Ranks : place[q] # "idle"

WholeInv ==
  /\ tracker > 0 => \A role \in UsedRoles : HasAll(role, tracker)
  /\ pc \in {"save_critic", "save_data", "save_tracker"} => HasAll("actor", step)
  /\ pc \in {"save_data", "save_tracker"} /\ conf.critic => HasAll("critic", step)
  /\ \A r \in Ranks : \A role \in Roles :
       place[r] \in {"written", "saved"} /\ pc = SavePlace(role) => HasShard(r, role, step)

Registered(role) ==
  \/ pc = SavePlace(role) /\ place[Lead] = "saved"
  \/ pc = "save_critic" /\ role = "actor"
  \/ pc \in {"save_data", "save_tracker"}

PathInv ==
  /\ saved \in [Roles -> Seq(Nat)]
  /\ \A role \in Roles :
       LET paths == saved[role]  n == Len(saved[role])
       IN  /\ role \notin UsedRoles => paths = <<>>
           /\ paths # <<>> =>
                IF Registered(role)
                THEN paths[n] = step /\ (n > 1 => paths[n - 1] = tracker)
                ELSE paths[n] = tracker

Memory == {"weights", "kv_cache"}
GpuModel(m) ==
  m = [version |-> m.version, params |-> m.params, optim |-> m.optim]
GpuEngine(e) ==
  e = [awake |-> e.awake, base |-> e.base, adapter |-> e.adapter, cached |-> e.cached,
       baseSynced |-> e.baseSynced]

EngineInv ==
  /\ GpuEngine(engine)
  /\ engine.awake = IF ~conf.freeCache \/ pc \in {"down", "generate", "sleep"} THEN Memory
                    ELSE IF pc = "send" THEN {"weights"} ELSE {}
  /\ pc # "sleep" => engine.cached = {}
  /\ ~conf.lora => engine.adapter = None
  /\ conf.lora /\ ~conf.dummy =>
       engine.baseSynced /\ (engine.base = 0 \/ (engine.base = Lost /\ conf.sleepLevel = 2))
  /\ (conf.lora => ~conf.dummy) /\ pc = "generate" => Policy = model["actor"].version

Updating(role) ==
  \/ role = "actor" /\ pc = "update_actor"
  \/ role = "critic" /\ pc = "update_critic"
Gathered(role) == role = "actor" /\ pc = "offload"

MemoryInv ==
  /\ model = [role \in Roles |-> model[role]]
  /\ \A role \in Roles :
       /\ GpuModel(model[role])
       /\ ~Updating(role) => model[role].optim \in {"none", Place(conf.offload)}
       /\ ~Updating(role) /\ ~Gathered(role) => model[role].params = Place(conf.offload)

RngInv ==
  /\ rng = [device |-> rng.device, train |-> rng.train, gen |-> rng.gen]
  /\ pc = "down" => rng = FreshRng
  /\ pc # "down" =>
       IF pc \in {"generate", "sleep"}
       THEN /\ rng.device = <<GenTag, rng.device[2]>> /\ rng.device[2] \in Nat
            /\ rng.train = <<TrainTag, model["actor"].version + model["critic"].version>>
       ELSE /\ rng.gen = <<GenTag, rng.gen[2]>> /\ rng.gen[2] \in Nat
            /\ rng.device = <<TrainTag, model["actor"].version + model["critic"].version>>

Scored == {"reward", "old_log_prob", "values", "advantage", "load_critic", "update_critic",
           "actor", "update_actor"}

BatchInv ==
  /\ batch = [data |-> batch.data, by |-> batch.by, old |-> batch.old, values |-> batch.values,
              reward |-> batch.reward]
  /\ stage = "train" /\ InHand =>
       /\ batch.data = Position(step)
       /\ (conf.lora => ~conf.dummy) /\ pc \in Scored \cup {"sleep"} =>
            /\ batch.by = model["actor"].version
            /\ pc \notin {"sleep", "reward", "old_log_prob"} => batch.old = batch.by
       /\ pc \in {"advantage", "load_critic", "update_critic"} /\ conf.critic =>
            batch.values = model["critic"].version
       /\ pc \in {"actor", "update_actor"} /\ conf.critic =>
            batch.values = model["critic"].version - 1
       /\ pc \in {"load_critic", "update_critic", "actor", "update_actor"} =>
            batch.reward = "done"

SyncInv ==
  /\ StageInv /\ VersionInv /\ LoaderInv /\ EpochInv /\ LagInv /\ DiskInv /\ DataInv
  /\ PlaceInv /\ PathInv /\ EngineInv /\ MemoryInv /\ RngInv /\ BatchInv

\* A manager that keeps one checkpoint removes the last one before the next is written
KeepsTwo == \A c \in Confs : c.keep # 1

\* src/train/docs/advance/ppo_lora.rst:37: LoRA requires the engine to load the base from its files
LoadsBase == \A c \in Confs : c.lora => ~c.dummy

-----------------------------------------------------------------------------
\* Division by a positive number, for divisors that are not literals
LEMMA DivMod ==
  ASSUME NEW e \in Nat, e > 0, NEW x \in Nat
  PROVE  x % e \in 0..(e - 1) /\ x \div e \in Nat /\ x = (x \div e) * e + (x % e)
<1>1. x % e \in 0..(e - 1)
  OBVIOUS
<1>2. x \div e \in Nat
  OBVIOUS
<1>3. x = (x \div e) * e + (x % e)
  OBVIOUS
<1> QED
  BY <1>1, <1>2, <1>3

LEMMA ModOf ==
  ASSUME NEW e \in Nat, e > 0, NEW q \in Nat, NEW r \in 0..(e - 1)
  PROVE  (q * e + r) % e = r /\ (q * e + r) \div e = q
<1> DEFINE x == q * e + r  p == x \div e  s == x % e
<1>1. x \in Nat
  <2>1. q * e \in Nat
    OBVIOUS
  <2> QED
    BY <2>1
<1>2. s \in 0..(e - 1) /\ p \in Nat /\ x = p * e + s
  BY <1>1, DivMod
<1> HIDE DEF p, s
<1>3. p = q
  <2>1. ASSUME NEW i \in Nat, NEW j \in Nat, i < j PROVE i * e + e <= j * e
    <3>1. (j - i) * e >= e
      BY <2>1
    <3>2. (j - i) * e = j * e - i * e
      BY <2>1
    <3> QED
      BY <3>1, <3>2
  <2>2. ~(p < q)
    BY <1>2, <2>1
  <2>3. ~(q < p)
    BY <1>2, <2>1
  <2> QED
    BY <1>2, <2>2, <2>3
<1>4. s = r
  BY <1>2, <1>3
<1> QED
  BY <1>3, <1>4 DEF p, s

LEMMA ModNext ==
  ASSUME NEW e \in Nat, e > 0, NEW x \in Nat
  PROVE  (x + 1) % e = IF x % e = e - 1 THEN 0 ELSE (x % e) + 1
<1> DEFINE q == x \div e  r == x % e
<1>1. r \in 0..(e - 1) /\ q \in Nat /\ x = q * e + r
  BY DivMod
<1> HIDE DEF q, r
<1>2. CASE r = e - 1
  <2>1. x + 1 = (q + 1) * e + 0
    BY <1>1, <1>2
  <2>2. ((q + 1) * e + 0) % e = 0
    BY <1>1, ModOf
  <2> QED
    BY <1>2, <2>1, <2>2 DEF r
<1>3. CASE r # e - 1
  <2>1. x + 1 = q * e + (r + 1) /\ r + 1 \in 0..(e - 1)
    BY <1>1, <1>3
  <2>2. (q * e + (r + 1)) % e = r + 1
    BY <1>1, <2>1, ModOf
  <2> QED
    BY <1>3, <2>1, <2>2 DEF r
<1> QED
  BY <1>2, <1>3

LEMMA ModSmall ==
  ASSUME NEW e \in Nat, e > 0
  PROVE  /\ \A x \in 0..(e - 1) : x % e = x
         /\ e % e = 0
<1>1. ASSUME NEW x \in 0..(e - 1) PROVE x % e = x
  <2>1. (0 * e + x) % e = x
    BY ModOf
  <2> QED
    BY <2>1
<1>2. e % e = 0
  <2>1. (1 * e + 0) % e = 0
    BY ModOf
  <2> QED
    BY <2>1
<1> QED
  BY <1>1, <1>2

LEMMA Sizes ==
  /\ EpochLen \in Nat /\ EpochLen > 0 /\ Epochs \in Nat /\ TotalSteps \in Nat
  /\ SaveFreq \in Nat /\ SaveFreq > 0 /\ TestFreq \in Nat /\ TestFreq > 0
  /\ Confs \subseteq ConfType
  /\ Lead \in Ranks
BY TrainerAssumption, LeadAssumption

\* The position of the batch of a step, in the data and in its epoch
LEMMA Positions ==
  ASSUME NEW n \in Nat, n > 0
  PROVE  /\ Position(n) \in 1..EpochLen /\ Position(n) % EpochLen = n % EpochLen
         /\ n <= (n \div EpochLen) * EpochLen + Position(n)
<1> DEFINE r == (n - 1) % EpochLen
<1>1. r \in 0..(EpochLen - 1) /\ n - 1 \in Nat /\ Position(n) = r + 1
  BY Sizes, DivMod DEF Position
<1>2. n % EpochLen = IF r = EpochLen - 1 THEN 0 ELSE r + 1
  <2>1. ((n - 1) + 1) % EpochLen = IF r = EpochLen - 1 THEN 0 ELSE r + 1
    BY <1>1, Sizes, ModNext
  <2> QED
    BY <2>1
<1> HIDE DEF r
<1>3. (r + 1) % EpochLen = IF r = EpochLen - 1 THEN 0 ELSE r + 1
  BY <1>1, Sizes, ModSmall
<1>4. n = (n \div EpochLen) * EpochLen + (n % EpochLen) /\ n \div EpochLen \in Nat
  BY Sizes, DivMod
<1> DEFINE q == (n \div EpochLen) * EpochLen
<1>5. q \in Nat
  BY <1>4, Sizes
<1> HIDE DEF q
<1>6. Position(n) % EpochLen = n % EpochLen
  BY <1>1, <1>2, <1>3
<1>7. n <= q + Position(n)
  <2>1. n % EpochLen <= r + 1
    BY <1>1, <1>2
  <2>2. n = q + (n % EpochLen)
    BY <1>4 DEF q
  <2>3. n % EpochLen \in Int
    BY <1>1, <1>2
  <2> QED
    BY <1>1, <1>5, <2>1, <2>2, <2>3
<1> QED
  BY <1>1, <1>6, <1>7, Sizes DEF q

-----------------------------------------------------------------------------
\* Which actions change what
LEMMA Frames ==
  ASSUME [Next]_vars
  PROVE  /\ conf' = conf
         /\ UNCHANGED model \/ Load \/ Wake \/ Offload \/ LoadCritic \/ UpdateCritic \/ LoadActor \/ UpdateActor \/ Crash
         /\ UNCHANGED engine \/ Boot \/ Offload \/ Send \/ Generate \/ Sleep \/ Crash
         /\ UNCHANGED rng \/ Boot \/ Load \/ Send \/ Generate \/ Sleep \/ UpdateCritic \/ UpdateActor \/ Crash
         /\ UNCHANGED disk \/ (\E role \in Roles : SaveRole(role)) \/ SaveData
         /\ UNCHANGED tracker \/ SaveTracker
         /\ UNCHANGED saved \/ (\E role \in Roles : SaveRole(role)) \/ Crash
         /\ UNCHANGED place \/ (\E role \in Roles : SaveRole(role) \/ RoleSaved(role)) \/ Crash
         /\ UNCHANGED batch \/ NextBatch \/ Generate \/ Reward \/ RewardDone \/ OldLogProb \/ Values \/ Advance \/ Crash
         /\ UNCHANGED loader \/ Load \/ NextBatch \/ EndEpoch \/ Crash
         /\ UNCHANGED epoch \/ Begin \/ EndEpoch \/ Crash
         /\ UNCHANGED step \/ Load \/ Begin \/ Sleep \/ Advance \/ Crash
         /\ UNCHANGED stage \/ Begin \/ Sleep \/ SkipActor \/ UpdateActor \/ Advance \/ Crash
         /\ pc \in {"offload", "update_actor", "update_critic"} =>
              pc' = pc \/ Offload \/ UpdateActor \/ UpdateCritic \/ Crash
<1> USE DEF Next, Driver, vars, driverVars, hybridVars, ckptVars, Boot, Load, Begin, NextBatch, EndEpoch,
        OutOfEpochs, Wake, Offload, Send, Generate, Sleep, Reward, RewardDone, OldLogProb, Values,
        Advantage, LoadCritic, UpdateCritic, LoadActor, SkipActor, UpdateActor, AfterUpdates,
        BeginSave, SaveRole, RoleSaved, SaveData, SaveTracker, Advance, Crash,
        GatherWeights, ResumeWeights, SendWeights, EngineGenerate, TrainerMode, LoadForUpdate,
        ApplyUpdate, SaveStep, Prepare, WriteShard, Register, WriteData, WriteTracker, ForgetPaths
<1>1. conf' = conf
  OBVIOUS
<1>2. UNCHANGED model \/ Load \/ Wake \/ Offload \/ LoadCritic \/ UpdateCritic \/ LoadActor \/ UpdateActor \/ Crash
  OBVIOUS
<1>3. UNCHANGED engine \/ Boot \/ Offload \/ Send \/ Generate \/ Sleep \/ Crash
  OBVIOUS
<1>4. UNCHANGED rng \/ Boot \/ Load \/ Send \/ Generate \/ Sleep \/ UpdateCritic \/ UpdateActor \/ Crash
  OBVIOUS
<1>5. UNCHANGED disk \/ (\E role \in Roles : SaveRole(role)) \/ SaveData
  OBVIOUS
<1>6. UNCHANGED tracker \/ SaveTracker
  OBVIOUS
<1>7. UNCHANGED saved \/ (\E role \in Roles : SaveRole(role)) \/ Crash
  OBVIOUS
<1>8. UNCHANGED place \/ (\E role \in Roles : SaveRole(role) \/ RoleSaved(role)) \/ Crash
  OBVIOUS
<1>9. UNCHANGED batch \/ NextBatch \/ Generate \/ Reward \/ RewardDone \/ OldLogProb \/ Values \/ Advance \/ Crash
  OBVIOUS
<1>10. UNCHANGED loader \/ Load \/ NextBatch \/ EndEpoch \/ Crash
  OBVIOUS
<1>11. UNCHANGED epoch \/ Begin \/ EndEpoch \/ Crash
  OBVIOUS
<1>12. UNCHANGED step \/ Load \/ Begin \/ Sleep \/ Advance \/ Crash
  OBVIOUS
<1>13. UNCHANGED stage \/ Begin \/ Sleep \/ SkipActor \/ UpdateActor \/ Advance \/ Crash
  OBVIOUS
<1>14. pc \in {"offload", "update_actor", "update_critic"} =>
         pc' = pc \/ Offload \/ UpdateActor \/ UpdateCritic \/ Crash
  BY DEF SavePlace, Roles
<1> QED
  BY <1>1, <1>2, <1>3, <1>4, <1>5, <1>6, <1>7, <1>8, <1>9, <1>10, <1>11, <1>12, <1>13, <1>14, Zenon

-----------------------------------------------------------------------------
\* What the driver knows at each place
LEMMA StageStep == StageInv /\ [Next]_vars => StageInv'
<1> SUFFICES ASSUME StageInv, [Next]_vars PROVE StageInv'
  OBVIOUS
<1> USE DEF StageInv, Booting, Rolling, Training, Saving
<1>0. conf' = conf /\ tracker' \in Nat
  BY Frames DEF SaveTracker, WriteTracker
<1>1. CASE Boot \/ Begin \/ NextBatch \/ EndEpoch \/ OutOfEpochs
  BY <1>0, <1>1, Sizes DEF Boot, Begin, NextBatch, EndEpoch, OutOfEpochs
<1>2. CASE Load
  BY <1>0, <1>2 DEF Load, FromScratch, Absent
<1>3. CASE Wake \/ Offload \/ Send \/ Generate
  BY <1>0, <1>3 DEF Wake, Offload, Send, Generate
<1>4. CASE Sleep
  BY <1>0, <1>4 DEF Sleep
<1>5. CASE Reward \/ OldLogProb \/ Values \/ Advantage \/ RewardDone
  BY <1>0, <1>5 DEF Reward, OldLogProb, Values, Advantage, RewardDone, WarmedUp
<1>6. CASE LoadCritic \/ UpdateCritic \/ LoadActor
  BY <1>0, <1>6 DEF LoadCritic, UpdateCritic, LoadActor, WarmedUp
<1>7. CASE SkipActor \/ UpdateActor
  BY <1>0, <1>7 DEF SkipActor, UpdateActor, AfterUpdates
<1>8. CASE BeginSave \/ SaveData \/ SaveTracker \/ Advance
  BY <1>0, <1>8 DEF BeginSave, SaveData, SaveTracker, Advance
<1>9. ASSUME NEW role \in Roles, SaveRole(role) \/ RoleSaved(role) PROVE StageInv'
  BY <1>0, <1>9 DEF SaveRole, RoleSaved, SavePlace, Roles, driverVars
<1>10. CASE Crash
  BY <1>0, <1>10 DEF Crash
<1>11. CASE UNCHANGED vars
  BY <1>0, <1>11 DEF vars, driverVars, WarmedUp
<1> QED
  BY <1>1, <1>2, <1>3, <1>4, <1>5, <1>6, <1>7, <1>8, <1>9, <1>10, <1>11 DEF Next, Driver

-----------------------------------------------------------------------------
\* Where the weights are
LEMMA ConfFacts ==
  ASSUME StageInv
  PROVE  /\ conf.lora \in BOOLEAN /\ conf.sleepLevel \in 1..2 /\ conf.freeCache \in BOOLEAN
         /\ conf.offload \in BOOLEAN /\ conf.critic \in BOOLEAN /\ conf.keep \in Nat
         /\ conf.warmup \in Nat /\ conf.dummy \in BOOLEAN /\ conf.bypass \in BOOLEAN
         /\ conf \in Confs
BY Sizes DEF StageInv, ConfType

LEMMA ModelOps ==
  ASSUME NEW m, GpuModel(m), NEW v
  PROVE  /\ ToGpu(m) = [version |-> m.version, params |-> "gpu", optim |-> m.optim]
         /\ [m EXCEPT !.params = v] = [version |-> m.version, params |-> v, optim |-> m.optim]
         /\ [m EXCEPT !.optim = v] = [version |-> m.version, params |-> m.params, optim |-> v]
         /\ [m EXCEPT !.version = v] = [version |-> v, params |-> m.params, optim |-> m.optim]
<1> DEFINE n == m.version  p == m.params  o == m.optim
<1>1. m = [version |-> n, params |-> p, optim |-> o]
  BY DEF GpuModel
<1> HIDE DEF n, p, o
<1>2. [m EXCEPT !.params = v] = [version |-> n, params |-> v, optim |-> o]
  BY <1>1
<1>3. [m EXCEPT !.optim = v] = [version |-> n, params |-> p, optim |-> v]
  BY <1>1
<1>4. [m EXCEPT !.version = v] = [version |-> v, params |-> p, optim |-> o]
  BY <1>1
<1>5. [m EXCEPT !.params = "gpu"] = [version |-> n, params |-> "gpu", optim |-> o]
  BY <1>1
<1> QED
  BY <1>2, <1>3, <1>4, <1>5, Zenon DEF ToGpu, n, p, o

LEMMA OffloadedOp ==
  ASSUME NEW m, GpuModel(m)
  PROVE  Offloaded(m) =
              [version |-> m.version, params |-> Place(conf.offload),
               optim |-> IF m.optim = "none" THEN "none" ELSE Place(conf.offload)]
<1> DEFINE n == m.version  p == m.params  o == m.optim  c == Place(conf.offload)
           k == [m EXCEPT !.params = c]  d == IF m.optim = "none" THEN m.optim ELSE c
<1>1. k = [version |-> n, params |-> c, optim |-> o]
  BY ModelOps
<1> HIDE DEF k, d
<1>2. [k EXCEPT !.optim = d] = [version |-> n, params |-> c, optim |-> d]
  BY <1>1
<1>3. d = IF o = "none" THEN "none" ELSE c
  BY Zenon DEF d
<1>4. Offloaded(m) = [k EXCEPT !.optim = d]
  BY Zenon DEF Offloaded, k, d
<1> QED
  BY <1>2, <1>3, <1>4, Zenon

\* What the operations of the workers do to a model
LEMMA UpdateOps ==
  ASSUME NEW m, GpuModel(m), NEW v
  PROVE  /\ [ToGpu(m) EXCEPT !.optim = "gpu"] =
              [version |-> m.version, params |-> "gpu", optim |-> "gpu"]
         /\ Offloaded([m EXCEPT !.version = v]) =
              [version |-> v, params |-> Place(conf.offload),
               optim |-> IF m.optim = "none" THEN "none" ELSE Place(conf.offload)]
         /\ WithState(m, v) =
              [version |-> v, params |-> Place(conf.offload), optim |-> Place(conf.offload)]
<1> DEFINE n == m.version  p == m.params  o == m.optim  c == Place(conf.offload)
           G(x, y, z) == [version |-> x, params |-> y, optim |-> z]
<1>0. /\ m = [version |-> n, params |-> p, optim |-> o]
      /\ ToGpu(m) = G(n, "gpu", o) /\ [m EXCEPT !.version = v] = G(v, p, o)
  BY ModelOps DEF GpuModel
<1>1. \A x, y, z : GpuModel(G(x, y, z)) /\ G(x, y, z).version = x /\ G(x, y, z).optim = z
  BY DEF GpuModel
<1>2. [ToGpu(m) EXCEPT !.optim = "gpu"] = G(n, "gpu", "gpu")
  BY <1>0
<1>3. Offloaded(G(v, p, o)) = G(v, c, IF o = "none" THEN "none" ELSE c)
  BY <1>1, OffloadedOp
<1>4. [[m EXCEPT !.version = v] EXCEPT !.optim = "gpu"] = G(v, p, "gpu")
  <2> DEFINE k == [m EXCEPT !.version = v]
  <2>1. k = G(v, p, o)
    BY <1>0
  <2> HIDE DEF k
  <2>2. [k EXCEPT !.optim = "gpu"] = G(v, p, "gpu")
    BY <2>1
  <2> QED
    BY <2>2, Zenon DEF k
<1>5. Offloaded(G(v, p, "gpu")) = G(v, c, c)
  <2>1. Offloaded(G(v, p, "gpu")) = G(v, c, IF "gpu" = "none" THEN "none" ELSE c)
    BY <1>1, OffloadedOp
  <2> QED
    BY <2>1
<1> QED
  BY <1>0, <1>2, <1>3, <1>4, <1>5, Zenon DEF WithState, n, o, c

\* What a load finds in the files
LEMMA Chosen ==
  ASSUME DiskInv, NEW role, NEW n, HasShard(Lead, role, n)
  PROVE  /\ role \in UsedRoles =>
              Loaded(n, role) = [version |-> Updates(role, n), rng |-> <<TrainTag, Drawn(n)>>]
         /\ role = "data" => Loaded(n, role) = Position(n)
<1> DEFINE f == CHOOSE g \in ShardsOf(n, role) : g.rank = Lead
<1>1. f \in disk /\ f.step = n /\ f.role = role
  BY DEF HasShard, In, ShardsOf
<1>2. Loaded(n, role) = f.holds
  BY Zenon DEF Loaded
<1> HIDE DEF f
<1>3. "data" \notin UsedRoles
  BY DEF UsedRoles, Roles
<1> QED
  BY <1>1, <1>2, <1>3, Zenon DEF DiskInv

LEMMA Readables ==
  ASSUME Readable, NEW role \in UsedRoles
  PROVE  HasAll(role, tracker) /\ HasShard(Lead, role, tracker)
BY Sizes DEF Readable, Complete, ShardsOf, HasAll, HasShard, In

\* Where the weights are, and which steps update them
Same == \A role \in Roles : model'[role].version = model[role].version
Quiet == ~UpdateActor /\ ~UpdateCritic /\ ~(Load /\ Readable) /\ ~Crash /\ Same
ActorUpdated == /\ model'["actor"].version = model["actor"].version + 1
                /\ model'["critic"].version = model["critic"].version
CriticUpdated == /\ model'["actor"].version = model["actor"].version
                 /\ model'["critic"].version = model["critic"].version + 1
Reloaded == \A role \in Roles :
  model'[role].version = IF role \in UsedRoles THEN Updates(role, tracker)
                         ELSE model[role].version
Started == \A role \in Roles : model'[role].version = 0

LEMMA MemoryStep ==
  ASSUME StageInv, DiskInv, MemoryInv, [Next]_vars
  PROVE  /\ MemoryInv'
         /\ \/ UpdateActor /\ ActorUpdated
            \/ UpdateCritic /\ CriticUpdated
            \/ Load /\ Readable /\ Reloaded
            \/ Crash /\ Started
            \/ Quiet
<1> DEFINE Sys(x, y, z) == [version |-> x, params |-> y, optim |-> z]
           c == Place(conf.offload)
           Kept(role) == IF model[role].optim = "none" THEN "none" ELSE c
           Ok(role, m) == /\ GpuModel(m)
                          /\ ~Updating(role)' => m.optim \in {"none", c}
                          /\ ~Updating(role)' /\ ~Gathered(role)' => m.params = c
<1>0. /\ conf' = conf /\ Place(conf.offload)' = c /\ Roles = {"actor", "critic"}
      /\ \A x, y, z : /\ GpuModel(Sys(x, y, z)) /\ Sys(x, y, z).version = x
                       /\ Sys(x, y, z).params = y /\ Sys(x, y, z).optim = z
  BY Frames DEF GpuModel, Roles
<1>1. /\ model = [role \in Roles |-> model[role]]
      /\ \A role \in Roles : GpuModel(model[role])
  BY DEF MemoryInv
<1>2. ASSUME model' = [role \in Roles |-> model'[role]], \A role \in Roles : Ok(role, model'[role])
      PROVE  MemoryInv'
  BY <1>0, <1>2, Zenon DEF MemoryInv, GpuModel
<1>3. CASE UNCHANGED model /\ ~UpdateActor /\ ~UpdateCritic /\ ~Load /\ ~Crash /\ ~Offload
  <2>1. ASSUME NEW role \in Roles PROVE Ok(role, model'[role])
    <3>1. (Updating(role) => Updating(role)') /\ (Gathered(role) => Gathered(role)')
      BY <1>3, Frames DEF Updating, Gathered
    <3> QED
      BY <1>3, <3>1 DEF MemoryInv
  <2>2. MemoryInv'
    BY <1>1, <1>2, <1>3, <2>1, Zenon
  <2> QED
    BY <1>3, <2>2 DEF Quiet, Same
<1>4. ASSUME NEW role \in Roles, NEW m, model' = [model EXCEPT ![role] = m]
      PROVE  /\ model' = [r \in Roles |-> model'[r]] /\ model'[role] = m
             /\ \A r \in Roles : r # role => model'[r] = model[r]
  BY <1>1, <1>4
<1>5. ASSUME NEW role \in Roles, NEW m, model' = [model EXCEPT ![role] = m], Ok(role, m),
             \A r \in Roles : r # role => ~Updating(r) /\ ~Gathered(r)
      PROVE  /\ MemoryInv' /\ model'[role] = m
             /\ \A r \in Roles : r # role => model'[r].version = model[r].version
  <2>1. ASSUME NEW r \in Roles, r # role PROVE Ok(r, model'[r])
    BY <1>4, <1>5, <2>1 DEF MemoryInv
  <2>2. \A r \in Roles : Ok(r, model'[r])
    BY <1>4, <1>5, <2>1, Zenon
  <2> QED
    BY <1>2, <1>4, <1>5, <2>2, Zenon
<1> DEFINE Exits == UpdateActor \/ UpdateCritic \/ Load \/ Crash
           actor == model["actor"]  critic == model["critic"]
<1>6. CASE Wake
  <2>1. pc = "wake" /\ pc' = "offload" /\ model' = [model EXCEPT !["actor"] = ToGpu(actor)]
    BY <1>6 DEF Wake, GatherWeights
  <2>2. ToGpu(actor) = Sys(actor.version, "gpu", actor.optim)
    BY <1>0, <1>1, ModelOps
  <2>3. Ok("actor", ToGpu(actor)) /\ ToGpu(actor).version = actor.version
    BY <1>0, <2>1, <2>2 DEF MemoryInv, Updating, Gathered
  <2>4. "actor" \in Roles /\ \A r \in Roles : r # "actor" => ~Updating(r) /\ ~Gathered(r)
    BY <1>0, <2>1 DEF Updating, Gathered
  <2> HIDE DEF Ok
  <2>6. MemoryInv' /\ model'["actor"] = ToGpu(actor)
         /\ \A r \in Roles : r # "actor" => model'[r].version = model[r].version
    BY <1>5, <2>1, <2>3, <2>4, Zenon
  <2>7. Same
    BY <2>3, <2>6, Zenon DEF Same
  <2>5. ~Exits
    BY <2>1 DEF UpdateActor, UpdateCritic, Load, Crash, AfterUpdates
  <2> QED
    BY <2>5, <2>6, <2>7, Zenon DEF Quiet
<1>7. CASE Offload
  <2>1. pc = "offload" /\ pc' = "send" /\ model' = [model EXCEPT !["actor"] = [actor EXCEPT !.params = c]]
    BY <1>7 DEF Offload, ResumeWeights
  <2> DEFINE m == [actor EXCEPT !.params = c]
  <2>2. m = Sys(actor.version, c, actor.optim)
    BY <1>0, <1>1, ModelOps
  <2>3. Ok("actor", m) /\ m.version = actor.version
    BY <1>0, <2>1, <2>2 DEF MemoryInv, Updating, Gathered
  <2> HIDE DEF m
  <2>4. "actor" \in Roles /\ \A r \in Roles : r # "actor" => ~Updating(r) /\ ~Gathered(r)
    BY <1>0, <2>1 DEF Updating, Gathered
  <2> HIDE DEF Ok
  <2>6. MemoryInv' /\ model'["actor"] = m
         /\ \A r \in Roles : r # "actor" => model'[r].version = model[r].version
    BY <1>5, <2>1, <2>3, <2>4, Zenon DEF m
  <2>7. Same
    BY <2>3, <2>6, Zenon DEF Same
  <2>5. ~Exits
    BY <2>1 DEF UpdateActor, UpdateCritic, Load, Crash, AfterUpdates
  <2> QED
    BY <2>5, <2>6, <2>7, Zenon DEF Quiet
<1>8. ASSUME LoadCritic \/ LoadActor PROVE MemoryInv' /\ Quiet
  <2>1. PICK role \in Roles :
          /\ Updating(role)' /\ pc \in {"load_critic", "actor"} /\ pc' \in {"update_critic", "update_actor"}
          /\ model' = [model EXCEPT ![role] = [ToGpu(model[role]) EXCEPT !.optim = "gpu"]]
    BY <1>0, <1>8 DEF LoadCritic, LoadActor, LoadForUpdate, Updating
  <2> DEFINE m == [ToGpu(model[role]) EXCEPT !.optim = "gpu"]
  <2>2. m = Sys(model[role].version, "gpu", "gpu")
    BY <1>1, UpdateOps
  <2>3. Ok(role, m) /\ m.version = model[role].version
    BY <1>0, <2>1, <2>2
  <2> HIDE DEF m, Ok
  <2>4. \A r \in Roles : r # role => ~Updating(r) /\ ~Gathered(r)
    BY <2>1 DEF Updating, Gathered
  <2>5. MemoryInv' /\ model'[role] = m
         /\ \A r \in Roles : r # role => model'[r].version = model[r].version
    BY <1>5, <2>1, <2>3, <2>4, Zenon DEF m
  <2>6. Same
    BY <2>3, <2>5, Zenon DEF Same
  <2>7. ~Exits
    BY <2>1 DEF UpdateActor, UpdateCritic, Load, Crash, AfterUpdates
  <2> QED
    BY <2>5, <2>6, <2>7, Zenon DEF Quiet
<1>9. ASSUME NEW role \in Roles, Updating(role), ~Updating(role)', ~Gathered(role)',
             model' = [model EXCEPT ![role] = Offloaded(Trained(model[role]))]
      PROVE  /\ MemoryInv' /\ model'[role].version = model[role].version + 1
             /\ \A r \in Roles : r # role => model'[r].version = model[r].version
  <2> DEFINE v == model[role].version + 1
             m == Offloaded(Trained(model[role]))
  <2>0. m = Offloaded([model[role] EXCEPT !.version = v])
    BY Zenon DEF Trained
  <2>1. m = Sys(v, c, Kept(role))
    BY <1>1, <2>0, UpdateOps, Zenon
  <2>2. Ok(role, m) /\ m.version = v
    BY <1>0, <1>9, <2>1
  <2>3. model' = [model EXCEPT ![role] = m]
    BY <1>9, Zenon
  <2> HIDE DEF m, Ok
  <2>4. \A r \in Roles : r # role => ~Updating(r) /\ ~Gathered(r)
    BY <1>9 DEF Updating, Gathered
  <2> QED
    BY <1>5, <2>2, <2>3, <2>4, Zenon
<1>10. CASE UpdateCritic
  <2>1. /\ Updating("critic") /\ ~Updating("critic")' /\ ~Gathered("critic")'
        /\ model' = [model EXCEPT !["critic"] = Offloaded(Trained(model["critic"]))]
    BY <1>10 DEF UpdateCritic, ApplyUpdate, Updating, Gathered
  <2> QED
    BY <1>0, <1>9, <1>10, <2>1 DEF CriticUpdated
<1>11. CASE UpdateActor
  <2>1. /\ Updating("actor") /\ ~Updating("actor")' /\ ~Gathered("actor")'
        /\ model' = [model EXCEPT !["actor"] = Offloaded(Trained(model["actor"]))]
    BY <1>11 DEF UpdateActor, AfterUpdates, ApplyUpdate, Updating, Gathered
  <2> QED
    BY <1>0, <1>9, <1>11, <2>1 DEF ActorUpdated
<1>12. CASE Crash
  <2>1. model' = [role \in Roles |-> FreshModel]
    BY <1>12 DEF Crash
  <2>2. FreshModel = Sys(0, c, "none")
    BY DEF FreshModel
  <2>3. \A role \in Roles : model'[role] = FreshModel
    BY <2>1
  <2>4. \A role \in Roles : Ok(role, FreshModel) /\ FreshModel.version = 0
    BY <1>0, <2>2
  <2> QED
    BY <1>2, <1>12, <2>1, <2>3, <2>4 DEF Started
<1>13. CASE Load
  <2>1. CASE UNCHANGED model /\ ~Readable
    <3>1. pc = "load" /\ pc' \in {"begin", "failed"}
      BY <1>13 DEF Load
    <3>2. \A r \in Roles : ~Updating(r) /\ ~Gathered(r)
      BY <3>1 DEF Updating, Gathered
    <3>3. MemoryInv'
      BY <1>1, <1>2, <2>1, <3>2 DEF MemoryInv
    <3>4. ~UpdateActor /\ ~UpdateCritic /\ ~Crash
      BY <3>1 DEF UpdateActor, UpdateCritic, Crash
    <3> QED
      BY <2>1, <3>3, <3>4 DEF Quiet, Same
  <2>2. CASE Readable
    <3> DEFINE M(r) == IF r \in UsedRoles THEN WithState(model[r], Loaded(tracker, r).version)
                       ELSE model[r]
    <3>1. pc = "load" /\ pc' = "begin" /\ model' = [r \in Roles |-> M(r)]
      BY <1>13, <2>2 DEF Load, Readable, FromScratch, Absent
    <3>2. \A r \in Roles : ~Updating(r) /\ ~Gathered(r) /\ ~Updating(r)' /\ ~Gathered(r)'
      BY <3>1 DEF Updating, Gathered
    <3>3. ASSUME NEW r \in Roles
          PROVE  /\ Ok(r, M(r))
                 /\ M(r).version = IF r \in UsedRoles THEN Updates(r, tracker) ELSE model[r].version
      <4>1. CASE r \in UsedRoles
        <5>1. Loaded(tracker, r) = [version |-> Updates(r, tracker), rng |-> <<TrainTag, Drawn(tracker)>>]
          BY <2>2, <4>1, Readables, Chosen
        <5>2. Loaded(tracker, r).version = Updates(r, tracker)
          BY <5>1
        <5>3. WithState(model[r], Updates(r, tracker)) = Sys(Updates(r, tracker), c, c)
          BY <1>1, UpdateOps
        <5>4. M(r) = Sys(Updates(r, tracker), c, c)
          BY <4>1, <5>2, <5>3
        <5> HIDE DEF M
        <5> QED
          BY <1>0, <4>1, <5>4
      <4>2. CASE r \notin UsedRoles
        BY <3>2, <4>2 DEF MemoryInv
      <4> QED
        BY <4>1, <4>2
    <3> HIDE DEF M
    <3>4. \A r \in Roles : model'[r] = M(r)
      BY <3>1
    <3>5. model' = [r \in Roles |-> model'[r]]
      BY <3>1
    <3> HIDE DEF Ok
    <3>6. MemoryInv'
      BY <1>2, <3>3, <3>4, <3>5, Zenon
    <3>7. Reloaded
      BY <3>3, <3>4, Zenon DEF Reloaded
    <3> QED
      BY <1>13, <2>2, <3>6, <3>7
  <2> QED
    BY <1>13, <2>1, <2>2 DEF Load, FromScratch, Readable, Absent
<1> QED
  BY <1>3, <1>6, <1>7, <1>8, <1>10, <1>11, <1>12, <1>13, Frames, Zenon

-----------------------------------------------------------------------------
\* How many updates the weights have
LEMMA UpdatesAt ==
  ASSUME StageInv
  PROVE  /\ ActorUpdates(0) = 0
         /\ \A n \in Nat : /\ ActorUpdates(n) \in Nat
                           /\ ActorUpdates(n + 1) = IF conf.warmup <= n + 1 THEN ActorUpdates(n) + 1
                                                    ELSE ActorUpdates(n)
BY ConfFacts DEF ActorUpdates

ActorStep == IF stage = "train" THEN step - 1 ELSE step
CriticStep == IF stage = "train" /\ pc \notin {"actor", "update_actor"} THEN step - 1 ELSE step

LEMMA QuietSteps ==
  ASSUME StageInv, [Next]_vars
  PROVE  \/ UpdateActor \/ UpdateCritic \/ (Load /\ Readable) \/ Crash
         \/ /\ ActorStep' = ActorStep \/ (SkipActor /\ ActorStep' = step)
            /\ conf.critic => CriticStep' = CriticStep
<1> USE DEF StageInv, Booting, Rolling, Training, Saving, ActorStep, CriticStep
<1>1. CASE Boot \/ Begin \/ NextBatch \/ EndEpoch \/ OutOfEpochs
  BY <1>1 DEF Boot, Begin, NextBatch, EndEpoch, OutOfEpochs
<1>2. CASE Load
  BY <1>2 DEF Load
<1>3. CASE Wake \/ Offload \/ Send \/ Generate
  BY <1>3 DEF Wake, Offload, Send, Generate
<1>4. CASE Sleep
  BY <1>4 DEF Sleep
<1>5. CASE Reward \/ OldLogProb \/ Values \/ Advantage \/ RewardDone
  BY <1>5 DEF Reward, OldLogProb, Values, Advantage, RewardDone
<1>6. CASE LoadCritic \/ LoadActor
  BY <1>6 DEF LoadCritic, LoadActor
<1>7. CASE SkipActor
  BY <1>7 DEF SkipActor, AfterUpdates
<1>8. CASE BeginSave \/ SaveData \/ SaveTracker \/ Advance
  BY <1>8 DEF BeginSave, SaveData, SaveTracker, Advance
<1>9. CASE \E role \in Roles : SaveRole(role) \/ RoleSaved(role)
  BY <1>9 DEF SaveRole, RoleSaved, SavePlace, Roles, driverVars
<1>10. CASE UNCHANGED vars
  BY <1>10 DEF vars, driverVars
<1> QED
  BY <1>1, <1>2, <1>3, <1>4, <1>5, <1>6, <1>7, <1>8, <1>9, <1>10 DEF Next, Driver

LEMMA VersionStep ==
  ASSUME StageInv, VersionInv, DiskInv, MemoryInv, [Next]_vars
  PROVE  VersionInv'
<1> DEFINE actor == model["actor"].version  critic == model["critic"].version
<1>0. /\ actor = ActorUpdates(ActorStep) /\ critic = IF conf.critic THEN CriticStep ELSE 0
      /\ ActorStep \in Nat /\ CriticStep \in Nat
  BY ConfFacts DEF VersionInv, ActorStep, CriticStep, StageInv
<1>1. ASSUME actor' = ActorUpdates(ActorStep'), critic' = IF conf.critic THEN CriticStep' ELSE 0
      PROVE  VersionInv'
  BY <1>1, Frames, ConfFacts DEF VersionInv, ActorStep, CriticStep, ActorUpdates
<1> HIDE DEF actor, critic
<1>2. ASSUME UpdateActor, ActorUpdated PROVE VersionInv'
  <2>1. ActorStep = step - 1 /\ ActorStep' = step /\ step \in Nat /\ conf.warmup <= step
    BY <1>2 DEF UpdateActor, AfterUpdates, StageInv, Booting, Rolling, Training, Saving, ActorStep, WarmedUp
  <2>2. CriticStep = step /\ CriticStep' = step
    BY <1>2 DEF UpdateActor, AfterUpdates, CriticStep
  <2>3. ActorUpdates(step) = ActorUpdates(step - 1) + 1
    BY <1>0, <2>1, UpdatesAt
  <2> QED
    BY <1>0, <1>1, <1>2, <2>1, <2>2, <2>3 DEF ActorUpdated, actor, critic
<1>3. ASSUME UpdateCritic, CriticUpdated PROVE VersionInv'
  <2>1. ActorStep' = ActorStep /\ CriticStep = step - 1 /\ CriticStep' = step /\ conf.critic
    BY <1>3 DEF UpdateCritic, StageInv, Booting, Rolling, Training, Saving, ActorStep, CriticStep
  <2> QED
    BY <1>0, <1>1, <1>3, <2>1 DEF CriticUpdated, actor, critic, StageInv
<1>4. ASSUME Load, Readable, Reloaded PROVE VersionInv'
  <2>1. stage' = "first" /\ step' = tracker
    BY <1>4 DEF Load, FromScratch, Readable, Absent, StageInv, Booting, Rolling, Training, Saving
  <2>2. ActorStep' = tracker /\ CriticStep' = tracker
    BY <2>1 DEF ActorStep, CriticStep
  <2>3. /\ actor' = ActorUpdates(tracker)
        /\ critic' = IF conf.critic THEN tracker ELSE critic
    BY <1>4 DEF Reloaded, UsedRoles, Roles, Updates, actor, critic
  <2> QED
    BY <1>0, <1>1, <2>2, <2>3
<1>5. ASSUME Crash, Started PROVE VersionInv'
  <2>1. ActorStep' = 0 /\ CriticStep' = 0
    BY <1>5 DEF Crash, ActorStep, CriticStep
  <2> QED
    BY <1>1, <1>5, <2>1, UpdatesAt DEF Started, Roles, actor, critic
<1>6. ASSUME Quiet PROVE VersionInv'
  <2>1. actor' = actor /\ critic' = critic
    BY <1>6 DEF Quiet, Same, Roles, actor, critic
  <2>2. /\ ActorStep' = ActorStep \/ (SkipActor /\ ActorStep' = step)
        /\ conf.critic => CriticStep' = CriticStep
    BY <1>6, QuietSteps DEF Quiet
  <2>3. ASSUME SkipActor, ActorStep' = step PROVE ActorUpdates(ActorStep') = ActorUpdates(ActorStep)
    <3>1. ActorStep = step - 1 /\ step \in Nat /\ ~(conf.warmup <= step)
      BY <2>3 DEF SkipActor, StageInv, Booting, Rolling, Training, Saving, ActorStep, WarmedUp
    <3> QED
      BY <1>0, <2>3, <3>1, UpdatesAt
  <2> QED
    BY <1>0, <1>1, <2>1, <2>2, <2>3
<1> QED
  BY <1>2, <1>3, <1>4, <1>5, <1>6, MemoryStep, Zenon

-----------------------------------------------------------------------------
\* The position in the data
LEMMA LoaderStep ==
  ASSUME StageInv, LoaderInv, DiskInv, DataInv, [Next]_vars
  PROVE  LoaderInv'
<1> USE DEF StageInv, Booting, Rolling, Training, Saving, InHand
<1>0. /\ EpochLen \in Nat /\ EpochLen > 0 /\ 0 % EpochLen = 0 /\ EpochLen % EpochLen = 0
      /\ \A x \in 0..(EpochLen - 1) : x % EpochLen = x
      /\ \A n \in Nat : n > 0 => /\ Position(n) \in 1..EpochLen
                                /\ Position(n) % EpochLen = n % EpochLen
  <2>1. EpochLen % EpochLen = 0 /\ \A x \in 0..(EpochLen - 1) : x % EpochLen = x
    BY Sizes, ModSmall
  <2> QED
    BY <2>1, Sizes, Positions
<1>1. CASE Load
  <2>1. CASE Readable
    <3>1. pc' = "begin" /\ step' = tracker /\ loader' = RestoredLoader /\ stage' = "first"
      BY <1>1, <2>1 DEF Load, FromScratch, Readable, Absent
    <3>2. DataSaved(tracker) /\ HasShard(Lead, "data", tracker) /\ tracker > 0
      BY <2>1 DEF DataInv, Readable, HasShard, In, DataSaved, ShardsOf
    <3>3. loader' = Position(tracker)
      BY <3>1, <3>2, Chosen DEF RestoredLoader
    <3> QED
      BY <1>0, <3>1, <3>2, <3>3 DEF LoaderInv
  <2>2. CASE ~Readable
    BY <1>1, <2>2 DEF Load, LoaderInv
  <2> QED
    BY <2>1, <2>2
<1>2. CASE Begin
  BY <1>2 DEF Begin, LoaderInv
<1>3. CASE NextBatch
  <2>1. /\ stage' = "train" /\ pc' = "wake" /\ loader' = loader + 1 /\ step' = step
        /\ loader \in 0..(EpochLen - 1) /\ loader % EpochLen = (step - 1) % EpochLen
    BY <1>0, <1>3 DEF NextBatch, LoaderInv
  <2>2. loader' = Position(step)
    BY <1>0, <2>1 DEF Position
  <2> QED
    BY <1>0, <2>1, <2>2 DEF LoaderInv
<1>4. CASE EndEpoch
  BY <1>0, <1>4 DEF EndEpoch, LoaderInv
<1>5. CASE Sleep
  BY <1>5 DEF Sleep, LoaderInv
<1>6. CASE Advance
  BY <1>0, <1>6 DEF Advance, LoaderInv
<1>7. CASE Crash
  BY <1>0, <1>7 DEF Crash, LoaderInv
<1>8. CASE Boot \/ OutOfEpochs
  BY <1>8 DEF Boot, OutOfEpochs, LoaderInv
<1>9. CASE Wake \/ Offload \/ Send \/ Generate
  BY <1>9 DEF Wake, Offload, Send, Generate, LoaderInv
<1>10. CASE Reward \/ OldLogProb \/ Values \/ Advantage \/ RewardDone
  BY <1>10 DEF Reward, OldLogProb, Values, Advantage, RewardDone, LoaderInv
<1>11. CASE LoadCritic \/ UpdateCritic \/ LoadActor \/ SkipActor \/ UpdateActor
  BY <1>11 DEF LoadCritic, UpdateCritic, LoadActor, SkipActor, UpdateActor, AfterUpdates, LoaderInv
<1>12. CASE BeginSave \/ SaveData \/ SaveTracker
  BY <1>12 DEF BeginSave, SaveData, SaveTracker, LoaderInv
<1>13. CASE \E role \in Roles : SaveRole(role) \/ RoleSaved(role)
  BY <1>13 DEF SaveRole, RoleSaved, SavePlace, Roles, driverVars, LoaderInv
<1>14. CASE UNCHANGED vars
  BY <1>14 DEF vars, driverVars, LoaderInv
<1> QED
  BY <1>1, <1>2, <1>3, <1>4, <1>5, <1>6, <1>7, <1>8, <1>9, <1>10, <1>11, <1>12, <1>13, <1>14
     DEF Next, Driver

\* The batches of all the epochs bound the steps
LEMMA EpochStep ==
  ASSUME StageInv, LoaderInv, EpochInv, [Next]_vars
  PROVE  EpochInv'
<1> USE DEF StageInv, Booting, Rolling, Training, Saving, InHand
<1> DEFINE base == epoch * EpochLen
<1>0. /\ EpochLen \in Nat /\ EpochLen > 0 /\ epoch \in Nat /\ base \in Nat
      /\ loader \in Nat /\ loader <= EpochLen
  BY Sizes DEF EpochInv, LoaderInv
<1>1. CASE Load \/ Crash \/ Boot
  BY <1>0, <1>1 DEF Load, Crash, Boot, EpochInv
<1>2. CASE Begin
  <2>1. /\ epoch' = step \div EpochLen /\ loader' = loader /\ loader % EpochLen = step % EpochLen
        /\ \/ stage' = "first" /\ pc' = "wake" /\ step' = step
           \/ stage' = "train" /\ pc' = "fetch" /\ step' - 1 = step
    BY <1>2 DEF Begin, FirstEpoch, LoaderInv
  <2>2. /\ epoch' \in Nat /\ step = epoch' * EpochLen + (step % EpochLen)
        /\ step % EpochLen \in Nat
    BY <1>0, <2>1, DivMod
  <2>3. step % EpochLen <= loader
    <3>1. loader = EpochLen \/ loader \in 0..(EpochLen - 1)
      BY <1>0
    <3> QED
      BY <1>0, <2>1, <3>1, ModSmall
  <2> DEFINE m == step % EpochLen  q == epoch' * EpochLen
  <2>4. \A i, j \in Nat : i * j \in Nat
    OBVIOUS
  <2>5. q \in Nat /\ step = q + m /\ m \in Nat /\ m <= loader
    BY <1>0, <2>2, <2>3, <2>4, Zenon
  <2> HIDE DEF m, q
  <2>6. step <= q + loader
    BY <1>0, <2>5
  <2> QED
    BY <2>1, <2>2, <2>6 DEF EpochInv, q
<1>3. CASE NextBatch
  <2>1. /\ stage' = "train" /\ pc' = "wake" /\ loader' = loader + 1 /\ step' = step /\ epoch' = epoch
        /\ loader < EpochLen /\ epoch < Epochs /\ step - 1 <= base + loader
    BY <1>3 DEF NextBatch, EpochInv
  <2>2. base + EpochLen <= EpochLen * Epochs
    <3>1. (Epochs - epoch) * EpochLen >= EpochLen
      BY <1>0, <2>1, Sizes
    <3>2. (Epochs - epoch) * EpochLen = EpochLen * Epochs - base
      BY <1>0, Sizes
    <3>3. EpochLen * Epochs \in Nat
      BY Sizes
    <3> HIDE DEF base
    <3> DEFINE all == EpochLen * Epochs
    <3> HIDE DEF all
    <3>4. all - base >= EpochLen
      BY <3>1, <3>2 DEF all
    <3> QED
      BY <1>0, <3>3, <3>4 DEF all
  <2>3. base' = base
    BY <2>1
  <2>4. EpochLen * Epochs \in Nat
    BY Sizes
  <2> DEFINE all == EpochLen * Epochs
  <2> HIDE DEF base, all
  <2>5. step <= base + (loader + 1) /\ step <= all
    BY <1>0, <2>1, <2>2, <2>4 DEF all
  <2>6. step' <= base' + loader' /\ step' <= all
    BY <2>1, <2>3, <2>5
  <2> QED
    BY <1>0, <2>1, <2>6 DEF EpochInv, base, all
<1>4. CASE EndEpoch
  <2>1. /\ pc = "fetch" /\ pc' = "fetch" /\ stage' = stage /\ step' = step /\ loader' = 0
        /\ loader = EpochLen /\ epoch' = epoch + 1 /\ step - 1 <= base + loader
    BY <1>4 DEF EndEpoch, EpochInv
  <2>2. epoch' * EpochLen = base + EpochLen
    BY <1>0, <2>1
  <2> HIDE DEF base
  <2>3. step' - 1 <= epoch' * EpochLen + loader'
    BY <1>0, <2>1, <2>2
  <2> QED
    BY <1>0, <2>1, <2>3 DEF EpochInv
<1>5. epoch' = epoch /\ loader' = loader => base' = base
  OBVIOUS
<1> HIDE DEF base
<1>6. /\ stage = "first" /\ pc \in Rolling => step <= base + loader
      /\ pc = "fetch" => step - 1 <= base + loader
      /\ InHand => step <= base + loader
  BY DEF EpochInv, base
<1>7. ASSUME epoch' = epoch, loader' = loader,
             stage' = "first" /\ pc' \in Rolling => step' <= base + loader,
             pc' = "fetch" => step' - 1 <= base + loader,
             InHand' => step' <= base + loader,
             stage' = "train" /\ InHand' => stage = "train" /\ InHand /\ step' = step
      PROVE  EpochInv'
  BY <1>0, <1>5, <1>7 DEF EpochInv, base
<1>8. CASE Sleep \/ Advance
  BY <1>6, <1>7, <1>8 DEF Sleep, Advance
<1>9. CASE OutOfEpochs \/ Wake \/ Offload \/ Send \/ Generate
  BY <1>6, <1>7, <1>9 DEF OutOfEpochs, Wake, Offload, Send, Generate
<1>10. CASE Reward \/ OldLogProb \/ Values \/ Advantage \/ RewardDone
  BY <1>6, <1>7, <1>10 DEF Reward, OldLogProb, Values, Advantage, RewardDone
<1>11. CASE LoadCritic \/ UpdateCritic \/ LoadActor \/ SkipActor \/ UpdateActor
  BY <1>6, <1>7, <1>11 DEF LoadCritic, UpdateCritic, LoadActor, SkipActor, UpdateActor, AfterUpdates
<1>12. CASE BeginSave \/ SaveData \/ SaveTracker
  BY <1>6, <1>7, <1>12 DEF BeginSave, SaveData, SaveTracker
<1>13. CASE \E role \in Roles : SaveRole(role) \/ RoleSaved(role)
  BY <1>6, <1>7, <1>13 DEF SaveRole, RoleSaved, SavePlace, Roles, driverVars
<1>14. CASE UNCHANGED vars
  BY <1>6, <1>7, <1>14 DEF vars, driverVars
<1> QED
  BY <1>1, <1>2, <1>3, <1>4, <1>8, <1>9, <1>10, <1>11, <1>12, <1>13, <1>14
     DEF Next, Driver

\* The steps since the last save
LEMMA LagStep ==
  ASSUME StageInv, LagInv, [Next]_vars
  PROVE  LagInv'
<1> USE DEF StageInv, Booting, Rolling, Training, Saving
<1>0. /\ SaveFreq \in Nat /\ SaveFreq > 0 /\ tracker \in Nat /\ step \in Nat
      /\ \A n \in Nat : n % SaveFreq \in Nat
  BY Sizes, DivMod
<1>1. step > 0 /\ step % SaveFreq # 0 => step % SaveFreq = ((step - 1) % SaveFreq) + 1
  <2>1. SUFFICES ASSUME step > 0, step % SaveFreq # 0
                 PROVE  step % SaveFreq = ((step - 1) % SaveFreq) + 1
    OBVIOUS
  <2>2. PICK k \in Nat : step = k + 1 /\ step - 1 = k
    <3>1. step - 1 \in Nat /\ step = (step - 1) + 1
      BY <1>0, <2>1
    <3> QED
      BY <3>1
  <2>3. (k + 1) % SaveFreq = IF k % SaveFreq = SaveFreq - 1 THEN 0 ELSE (k % SaveFreq) + 1
    BY <1>0, ModNext
  <2> QED
    BY <2>1, <2>2, <2>3, Zenon
<1>2. CASE Boot \/ Load \/ Crash
  BY <1>0, <1>2 DEF Boot, Load, Crash, FromScratch, Readable, Absent, LagInv, ForgetPaths, ckptVars
<1>3. CASE Begin \/ Sleep
  BY <1>0, <1>3 DEF Begin, Sleep, LagInv, ckptVars
<1>4. CASE NextBatch \/ EndEpoch \/ OutOfEpochs
  BY <1>4 DEF NextBatch, EndEpoch, OutOfEpochs, LagInv, ckptVars
<1>5. CASE Wake \/ Offload \/ Send \/ Generate
  BY <1>5 DEF Wake, Offload, Send, Generate, LagInv, ckptVars
<1>6. CASE Reward \/ OldLogProb \/ Values \/ Advantage \/ RewardDone
  BY <1>6 DEF Reward, OldLogProb, Values, Advantage, RewardDone, LagInv, ckptVars
<1>7. CASE LoadCritic \/ UpdateCritic \/ LoadActor
  BY <1>7 DEF LoadCritic, UpdateCritic, LoadActor, LagInv, ckptVars
<1>8. CASE SkipActor \/ UpdateActor
  BY <1>0, <1>8 DEF SkipActor, UpdateActor, AfterUpdates, LagInv, ckptVars
<1>9. CASE BeginSave
  BY <1>0, <1>1, <1>9 DEF BeginSave, SaveDue, LagInv, ckptVars
<1>10. CASE SaveData
  BY <1>10 DEF SaveData, WriteData, LagInv
<1>11. CASE SaveTracker
  BY <1>0, <1>11 DEF SaveTracker, WriteTracker, LagInv
<1>12. CASE Advance
  BY <1>0, <1>12 DEF Advance, LagInv, ckptVars
<1>13. CASE \E role \in Roles : SaveRole(role)
  BY <1>13, Frames DEF SaveRole, SavePlace, Roles, driverVars, LagInv, SaveTracker
<1>14. CASE \E role \in Roles : RoleSaved(role)
  BY <1>14 DEF RoleSaved, SavePlace, Roles, driverVars, LagInv
<1>15. CASE UNCHANGED vars
  BY <1>15 DEF vars, driverVars, ckptVars, LagInv
<1> QED
  BY <1>2, <1>3, <1>4, <1>5, <1>6, <1>7, <1>8, <1>9, <1>10, <1>11, <1>12, <1>13, <1>14, <1>15
     DEF Next, Driver

-----------------------------------------------------------------------------
\* What is saved for a role in the step at hand
LEMMA SavedState ==
  ASSUME StageInv, VersionInv, RngInv, NEW role \in Roles, pc = SavePlace(role)
  PROVE  /\ role \in UsedRoles /\ stage = "after" /\ step > 0
         /\ StateOf(role) = [version |-> Updates(role, step), rng |-> <<TrainTag, Drawn(step)>>]
<1>1. role \in UsedRoles /\ stage = "after" /\ step > 0 /\ step \in Nat
  BY DEF StageInv, Booting, Rolling, Training, Saving, SavePlace, Roles, UsedRoles
<1>2. /\ model["actor"].version = ActorUpdates(step)
      /\ model["critic"].version = IF conf.critic THEN step ELSE 0
  BY <1>1 DEF VersionInv
<1>3. rng.device = <<TrainTag, Drawn(step)>>
  <2>1. rng.device = <<TrainTag, model["actor"].version + model["critic"].version>>
    BY DEF RngInv, SavePlace
  <2> QED
    BY <1>2, <2>1 DEF Drawn
<1>4. model[role].version = Updates(role, step)
  BY <1>1, <1>2 DEF Updates, UsedRoles, Roles
<1> QED
  BY <1>1, <1>3, <1>4, Zenon DEF StateOf

\* How the save of a role changes the files
LEMMA DiskChange ==
  ASSUME [Next]_vars, NEW f, f \in disk'
  PROVE  \/ f \in disk
         \/ \E role \in Roles : /\ SaveRole(role)
                                /\ \E r \in Ranks : f = Shard(step, role, r, StateOf(role))
         \/ SaveData /\ f = Shard(step, "data", Lead, loader)
<1>1. CASE UNCHANGED disk
  BY <1>1
<1>2. ASSUME NEW role \in Roles, SaveRole(role)
      PROVE  f \in disk \/ \E r \in Ranks : f = Shard(step, role, r, StateOf(role))
  BY <1>2 DEF SaveRole, SaveStep, Prepare, WriteShard, Register, Without
<1>3. CASE SaveData
  BY <1>3 DEF SaveData, WriteData
<1> QED
  BY <1>1, <1>2, <1>3, Frames

LEMMA DiskStep ==
  ASSUME StageInv, VersionInv, LoaderInv, DiskInv, RngInv, [Next]_vars
  PROVE  DiskInv'
<1> DEFINE Good(f) ==
      /\ f = Shard(f.step, f.role, f.rank, f.holds) /\ f.step \in Nat
      /\ \/ /\ f.role \in UsedRoles /\ f.rank \in Ranks
            /\ f.holds = [version |-> Updates(f.role, f.step), rng |-> <<TrainTag, Drawn(f.step)>>]
         \/ f.role = "data" /\ f.rank = Lead /\ f.holds = Position(f.step)
<1>1. DiskInv <=> \A f \in disk : Good(f)
  BY DEF DiskInv
<1>2. (\A f \in disk' : Good(f)) => DiskInv'
  BY Frames DEF DiskInv, UsedRoles, Updates, ActorUpdates, TrainTag, Drawn
<1>3. \A n, role, r, h : LET f == Shard(n, role, r, h)
                         IN  f.step = n /\ f.role = role /\ f.rank = r /\ f.holds = h
  BY DEF Shard
<1>4. ASSUME NEW role \in Roles, SaveRole(role), NEW r \in Ranks
      PROVE  Good(Shard(step, role, r, StateOf(role)))
  BY <1>3, <1>4, SavedState DEF SaveRole, StageInv
<1>5. ASSUME SaveData PROVE Good(Shard(step, "data", Lead, loader))
  <2>1. loader = Position(step)
    BY <1>5 DEF SaveData, LoaderInv, StageInv, Booting, Rolling, Training, Saving, InHand
  <2> QED
    BY <1>3, <2>1 DEF StageInv
<1> HIDE DEF Good
<1>6. ASSUME NEW f \in disk' PROVE Good(f)
  BY <1>1, <1>4, <1>5, <1>6, DiskChange
<1> QED
  BY <1>2, <1>6

-----------------------------------------------------------------------------
\* The paths that stay
LEMMA NewestKeeps ==
  ASSUME NEW p \in Seq(Nat), p # <<>>, NEW m \in Nat, m > 0
  PROVE  /\ Newest(p, m) \in Seq(Nat) /\ Len(Newest(p, m)) > 0
         /\ Newest(p, m)[Len(Newest(p, m))] = p[Len(p)]
         /\ Len(Newest(p, m)) > 1 => Newest(p, m)[Len(Newest(p, m)) - 1] = p[Len(p) - 1] /\ Len(p) > 1
         /\ m > 1 /\ Len(p) > 1 => Len(Newest(p, m)) > 1
<1> DEFINE k == Newest(p, m)
<1>1. Len(p) \in Nat /\ Len(p) > 0
  BY EmptySeq
<1>2. CASE Len(p) <= m
  BY <1>1, <1>2 DEF Newest
<1>3. CASE Len(p) > m
  <2> DEFINE i == Len(p) - m + 1
  <2>1. i \in Int /\ i >= 1 /\ i <= Len(p) /\ Len(p) - i + 1 = m
    BY <1>1, <1>3
  <2>2. k = SubSeq(p, i, Len(p))
    BY <1>1, <1>3 DEF Newest
  <2> HIDE DEF i, k
  <2>3. \A j \in i..Len(p) : p[j] \in Nat
    BY <1>1, <2>1, ElementOfSeq
  <2>4. k \in Seq(Nat) /\ Len(k) = m /\ \A j \in 1..m : k[j] = p[i + j - 1]
    BY <1>1, <2>1, <2>2, <2>3, SubSeqProperties
  <2>5. k[m] = p[i + m - 1] /\ i + m - 1 = Len(p)
    BY <2>1, <2>4
  <2>7. m \in Nat /\ m > 0
    OBVIOUS
  <2>6. m > 1 => k[m - 1] = p[Len(p) - 1]
    <3>1. m > 1 => m - 1 \in 1..m /\ i + (m - 1) - 1 = Len(p) - 1
      BY ONLY <1>1, <2>1, <2>7
    <3>2. m > 1 => k[m - 1] = p[i + (m - 1) - 1]
      BY ONLY <2>4, <3>1
    <3> QED
      BY ONLY <3>1, <3>2
  <2>8. /\ k \in Seq(Nat) /\ Len(k) > 0 /\ k[Len(k)] = p[Len(p)]
        /\ Len(k) > 1 => k[Len(k) - 1] = p[Len(p) - 1] /\ Len(p) > 1
        /\ m > 1 /\ Len(p) > 1 => Len(k) > 1
    BY ONLY <1>1, <1>3, <2>4, <2>5, <2>6, <2>7, SMTT(20)
  <2> QED
    BY <2>8 DEF k
<1> QED
  BY <1>1, <1>2, <1>3

LEMMA CapacityKeeps ==
  ASSUME NEW p \in Seq(Nat), NEW keep \in Nat
  PROVE  /\ AfterCapacity(p, keep) \in Seq(Nat)
         /\ p = <<>> => AfterCapacity(p, keep) = p
         /\ p # <<>> => /\ Len(AfterCapacity(p, keep)) > 0
                        /\ AfterCapacity(p, keep)[Len(AfterCapacity(p, keep))] = p[Len(p)]
<1>1. CASE keep > 1 /\ Len(p) >= keep
  <2>1. p # <<>> /\ keep - 1 \in Nat /\ keep - 1 > 0
    BY <1>1
  <2> QED
    BY <1>1, <2>1, NewestKeeps DEF AfterCapacity
<1>2. CASE ~(keep > 1 /\ Len(p) >= keep)
  <2>1. AfterCapacity(p, keep) = p
    BY <1>2 DEF AfterCapacity
  <2>2. p # <<>> => Len(p) > 0
    BY EmptySeq
  <2> QED
    BY <2>1, <2>2
<1> QED
  BY <1>1, <1>2

LEMMA RegisterKeeps ==
  ASSUME NEW p \in Seq(Nat), NEW n \in Nat, NEW keep \in Nat
  PROVE  LET k == AfterRegister(p, n, keep)
         IN  /\ k \in Seq(Nat) /\ Len(k) > 0 /\ k[Len(k)] = n
             /\ Len(k) > 1 => p # <<>> /\ k[Len(k) - 1] = p[Len(p)]
             /\ keep # 1 /\ p # <<>> => Len(k) > 1
<1> DEFINE a == Append(p, n)
<1>1. /\ a \in Seq(Nat) /\ a # <<>> /\ Len(a) = Len(p) + 1 /\ a[Len(a)] = n
      /\ Len(p) \in Nat /\ (Len(p) > 0 => a[Len(a) - 1] = p[Len(p)])
      /\ (p # <<>> <=> Len(p) > 0)
  <2>1. a \in Seq(Nat) /\ a # <<>>
    BY AppendProperties
  <2>2. Len(p) \in Nat
    OBVIOUS
  <2>3. Len(a) = Len(p) + 1
    BY AppendProperties
  <2>4. a[Len(p) + 1] = n
    BY AppendProperties
  <2>5. \A i \in 1..Len(p) : a[i] = p[i]
    BY AppendProperties
  <2>6. p # <<>> <=> Len(p) > 0
    BY EmptySeq
  <2> HIDE DEF a
  <2>7. Len(p) > 0 => Len(a) - 1 = Len(p) /\ Len(p) \in 1..Len(p)
    BY <2>2, <2>3
  <2> QED
    BY <2>1, <2>2, <2>3, <2>4, <2>5, <2>6, <2>7, Zenon
<1> HIDE DEF a
<1>2. CASE keep > 0
  <2>1. AfterRegister(p, n, keep) = Newest(a, keep)
    BY <1>2 DEF AfterRegister, a
  <2> DEFINE k == Newest(a, keep)
  <2>2. /\ k \in Seq(Nat) /\ Len(k) > 0 /\ k[Len(k)] = a[Len(a)]
        /\ Len(k) > 1 => k[Len(k) - 1] = a[Len(a) - 1] /\ Len(a) > 1
        /\ keep > 1 /\ Len(a) > 1 => Len(k) > 1
    BY <1>1, <1>2, NewestKeeps, Zenon
  <2> HIDE DEF k
  <2>3. (Len(a) > 1 <=> Len(p) > 0) /\ (keep # 1 => keep > 1)
    BY <1>1, <1>2
  <2>4. /\ k \in Seq(Nat) /\ Len(k) > 0 /\ k[Len(k)] = n
        /\ Len(k) > 1 => p # <<>> /\ k[Len(k) - 1] = p[Len(p)]
        /\ keep # 1 /\ p # <<>> => Len(k) > 1
    BY <1>1, <2>2, <2>3, Zenon
  <2> QED
    BY <2>1, <2>4, Zenon DEF k
<1>3. CASE ~(keep > 0)
  <2>1. AfterRegister(p, n, keep) = a
    BY <1>3 DEF AfterRegister, a
  <2> QED
    BY <1>1, <2>1
<1> QED
  BY <1>2, <1>3

-----------------------------------------------------------------------------
\* Where the ranks are in a save
LEMMA PlaceStep ==
  ASSUME StageInv, PlaceInv, [Next]_vars
  PROVE  PlaceInv'
<1>1. CASE \E role \in Roles : SaveRole(role)
  <2>1. /\ pc' = pc /\ pc \in {"save_actor", "save_critic"}
        /\ \E r \in Ranks :
              \/ place[r] = "idle" /\ place' = [place EXCEPT ![r] = "ready"]
              \/ /\ place[r] = "ready" /\ place' = [place EXCEPT ![r] = "written"]
                 /\ \A q \in Ranks : place[q] # "idle"
              \/ place[r] = "written" /\ place' = [place EXCEPT ![r] = "saved"]
    BY <1>1 DEF SaveRole, SavePlace, driverVars, SaveStep, Prepare, WriteShard, Register
  <2> QED
    BY <2>1 DEF PlaceInv
<1>2. CASE (\E role \in Roles : RoleSaved(role)) \/ Crash
  <2>1. place' = [r \in Ranks |-> "idle"]
    BY <1>2 DEF RoleSaved, Crash, ForgetPaths
  <2> QED
    BY <2>1 DEF PlaceInv
<1>3. CASE UNCHANGED place /\ (pc \in {"save_actor", "save_critic"} => pc' \in {"save_actor", "save_critic"})
  BY <1>3 DEF PlaceInv
<1>4. \/ pc \in {"save_actor", "save_critic"} => pc' = pc
      \/ (\E role \in Roles : RoleSaved(role)) \/ Crash
  BY DEF Next, Driver, vars, driverVars, Boot, Load, Begin, NextBatch, EndEpoch, OutOfEpochs, Wake,
         Offload, Send, Generate, Sleep, Reward, RewardDone, OldLogProb, Values, Advantage, LoadCritic,
         UpdateCritic, LoadActor, SkipActor, UpdateActor, BeginSave, SaveRole, SaveData, SaveTracker,
         Advance
<1> QED
  BY <1>1, <1>2, <1>3, <1>4, Frames

\* How the save of a role changes the list of its paths
LEMMA PathChange ==
  ASSUME StageInv, PlaceInv, PathInv, NEW role \in Roles, SaveRole(role)
  PROVE  /\ \A other \in Roles : other # role => saved'[other] = saved[other]
         /\ saved' = [r \in Roles |-> saved'[r]]
         /\ \/ /\ saved'[role] = saved[role]
               /\ place'[Lead] = "saved" <=> place[Lead] = "saved"
            \/ /\ saved'[role] = AfterCapacity(saved[role], conf.keep)
               /\ place[Lead] = "idle" /\ place'[Lead] = "ready"
            \/ /\ saved'[role] = AfterRegister(saved[role], step, conf.keep)
               /\ place[Lead] = "written" /\ place'[Lead] = "saved"
<1>0. saved = [r \in Roles |-> saved[r]] /\ place \in [Ranks -> {"idle", "ready", "written", "saved"}]
      /\ Lead \in Ranks
  BY Sizes DEF PathInv, PlaceInv
<1>1. ASSUME NEW x, saved' = [saved EXCEPT ![role] = x]
      PROVE  /\ \A other \in Roles : other # role => saved'[other] = saved[other]
             /\ saved' = [r \in Roles |-> saved'[r]] /\ saved'[role] = x
  BY <1>0, <1>1
<1>2. PICK r \in Ranks : \/ Prepare(r, role, conf.keep)
                         \/ WriteShard(r, role, step, StateOf(role))
                         \/ Register(r, role, step, conf.keep)
  BY DEF SaveRole, SaveStep
<1>3. CASE Prepare(r, role, conf.keep)
  <2>1. /\ place[r] = "idle" /\ place' = [place EXCEPT ![r] = "ready"]
        /\ saved' = [saved EXCEPT ![role] = IF r = Lead THEN AfterCapacity(saved[role], conf.keep)
                                            ELSE saved[role]]
    BY <1>3 DEF Prepare
  <2>2. IF r = Lead THEN place[Lead] = "idle" /\ place'[Lead] = "ready"
                    ELSE place'[Lead] = place[Lead]
    BY <1>0, <2>1
  <2> QED
    BY <1>1, <2>1, <2>2
<1>4. CASE WriteShard(r, role, step, StateOf(role))
  <2>1. /\ place[r] = "ready" /\ place' = [place EXCEPT ![r] = "written"] /\ saved' = saved
    BY <1>4 DEF WriteShard
  <2>2. place'[Lead] = "saved" <=> place[Lead] = "saved"
    BY <1>0, <2>1
  <2> QED
    BY <1>0, <2>1, <2>2
<1>5. CASE Register(r, role, step, conf.keep)
  <2>1. /\ place[r] = "written" /\ place' = [place EXCEPT ![r] = "saved"]
        /\ saved' = [saved EXCEPT ![role] =
                       IF r = Lead THEN AfterRegister(saved[role], step, conf.keep) ELSE saved[role]]
    BY <1>5 DEF Register
  <2>2. IF r = Lead THEN place[Lead] = "written" /\ place'[Lead] = "saved"
                    ELSE place'[Lead] = place[Lead]
    BY <1>0, <2>1
  <2> QED
    BY <1>1, <2>1, <2>2
<1> QED
  BY <1>2, <1>3, <1>4, <1>5

LEMMA PathStep ==
  ASSUME StageInv, PlaceInv, PathInv, [Next]_vars
  PROVE  PathInv'
<1> DEFINE Ok(role, p) ==
      /\ role \notin UsedRoles => p = <<>>
      /\ p # <<>> => IF Registered(role)' THEN p[Len(p)] = step' /\ (Len(p) > 1 => p[Len(p) - 1] = tracker')
                                          ELSE p[Len(p)] = tracker'
           Was(role) ==
      /\ role \notin UsedRoles => saved[role] = <<>>
      /\ saved[role] # <<>> =>
           IF Registered(role)
           THEN saved[role][Len(saved[role])] = step
                /\ (Len(saved[role]) > 1 => saved[role][Len(saved[role]) - 1] = tracker)
           ELSE saved[role][Len(saved[role])] = tracker
<1>0. conf' = conf /\ UsedRoles' = UsedRoles /\ Lead \in Ranks
  BY Frames, Sizes DEF UsedRoles
<1>1. saved \in [Roles -> Seq(Nat)] /\ \A role \in Roles : Was(role)
  BY DEF PathInv
<1>2. ASSUME saved' \in [Roles -> Seq(Nat)], \A role \in Roles : Ok(role, saved'[role])
      PROVE  PathInv'
  BY <1>0, <1>2 DEF PathInv
<1>3. CASE Crash
  BY <1>2, <1>3 DEF Crash, ForgetPaths
<1>4. ASSUME UNCHANGED saved, tracker' = tracker,
             \A role \in Roles : role \in UsedRoles =>
               /\ Registered(role)' <=> Registered(role)
               /\ Registered(role) => step' = step
      PROVE  PathInv'
  <2>1. ASSUME NEW role \in Roles PROVE Ok(role, saved[role])
    <3>1. CASE role \in UsedRoles
      <4>1. /\ Registered(role)' <=> Registered(role)
            /\ Registered(role) => step' = step
        BY <1>4, <3>1  
      <4>2. Was(role)
        BY <1>1, Zenon
      <4>3. tracker' = tracker
        BY <1>4
      <4> QED
        BY <3>1, <4>1, <4>2, <4>3
    <3>2. CASE role \notin UsedRoles
      BY <1>1, <3>2
    <3> QED
      BY <3>1, <3>2
  <2> HIDE DEF Ok
  <2> QED
    BY <1>1, <1>2, <1>4, <2>1, Zenon
<1>5. ASSUME NEW role \in Roles, SaveRole(role) PROVE PathInv'
  <2>1. /\ pc = SavePlace(role) /\ pc' = pc /\ step' = step /\ tracker' = tracker
        /\ role \in UsedRoles /\ conf.keep \in Nat /\ step \in Nat
    BY <1>5, Frames, ConfFacts
       DEF SaveRole, driverVars, SaveTracker, SavePlace, StageInv, UsedRoles, Roles
  <2>2. /\ Registered(role) <=> place[Lead] = "saved"
        /\ Registered(role)' <=> place'[Lead] = "saved"
        /\ \A other \in Roles : other # role => (Registered(other)' <=> Registered(other))
    BY <2>1 DEF Registered, SavePlace, Roles
  <2>3. /\ \A other \in Roles : other # role => saved'[other] = saved[other]
        /\ saved' = [r \in Roles |-> saved'[r]]
    BY <1>5, PathChange
  <2>4. ASSUME NEW other \in Roles, other # role PROVE Ok(other, saved'[other]) /\ saved'[other] \in Seq(Nat)
    BY <1>1, <2>1, <2>2, <2>3, <2>4
  <2> DEFINE old == saved[role]  new == saved'[role]
  <2>5. old \in Seq(Nat) /\ Was(role)
    BY <1>1
  <2>6. Ok(role, new) /\ new \in Seq(Nat)
    <3>1. CASE new = old /\ (Registered(role)' <=> Registered(role))
      BY <2>1, <2>5, <3>1
    <3>2. CASE new = AfterCapacity(old, conf.keep) /\ ~Registered(role) /\ ~Registered(role)'
      BY <2>1, <2>5, <3>2, CapacityKeeps
    <3>3. CASE new = AfterRegister(old, step, conf.keep) /\ ~Registered(role) /\ Registered(role)'
      <4> HIDE DEF old, new
      <4>1. /\ new \in Seq(Nat) /\ Len(new) > 0 /\ new[Len(new)] = step
            /\ Len(new) > 1 => old # <<>> /\ new[Len(new) - 1] = old[Len(old)]
        BY <2>1, <2>5, <3>3, RegisterKeeps
      <4>2. old # <<>> => old[Len(old)] = tracker
        BY <2>5, <3>3 DEF old
      <4> QED
        BY <2>1, <3>3, <4>1, <4>2
    <3> QED
      BY <1>5, <2>2, <3>1, <3>2, <3>3, PathChange
  <2> HIDE DEF Ok
  <2>7. \A r \in Roles : Ok(r, saved'[r]) /\ saved'[r] \in Seq(Nat)
    BY <2>4, <2>6, Zenon
  <2>8. saved' \in [Roles -> Seq(Nat)]
    BY <2>3, <2>7
  <2> QED
    BY <1>2, <2>7, <2>8, Zenon
<1>6. ASSUME NEW role \in Roles, RoleSaved(role) PROVE PathInv'
  <2>1. /\ pc = SavePlace(role) /\ place[Lead] = "saved" /\ place'[Lead] # "saved"
        /\ pc' = IF role = "actor" /\ conf.critic THEN "save_critic" ELSE "save_data"
        /\ step' = step /\ saved' = saved /\ tracker' = tracker
    BY <1>0, <1>6 DEF RoleSaved, Saved
  <2>2. \A other \in Roles : other \in UsedRoles => Registered(other)' <=> Registered(other)
    BY <2>1 DEF Registered, SavePlace, Roles, UsedRoles
  <2> QED
    BY <1>4, <2>1, <2>2
<1>7. CASE SaveTracker
  <2>1. /\ \A role \in Roles : Registered(role) /\ ~Registered(role)'
        /\ saved' = saved /\ tracker' = step
    BY <1>7 DEF SaveTracker, WriteTracker, Registered, SavePlace
  <2> QED
    BY <1>1, <1>2, <2>1
<1>8. CASE \/ UNCHANGED vars
           \/ /\ UNCHANGED saved /\ tracker' = tracker /\ pc \notin Saving /\ pc' \notin Saving
           \/ SaveData
           \/ BeginSave
  <2>1. UNCHANGED saved /\ tracker' = tracker
    BY <1>8 DEF vars, ckptVars, SaveData, WriteData, BeginSave
  <2>2. ASSUME NEW role \in Roles
        PROVE  /\ Registered(role)' <=> Registered(role)
               /\ Registered(role) => step' = step
    <3>1. CASE UNCHANGED vars
      BY <3>1 DEF vars, driverVars, ckptVars, Registered
    <3>2. CASE pc \notin Saving /\ pc' \notin Saving
      BY <3>2 DEF Registered, SavePlace, Saving
    <3>3. CASE SaveData
      BY <3>3 DEF SaveData, Registered
    <3>4. CASE BeginSave
      <4>1. pc = "save" /\ pc' \in {"save_actor", "advance"} /\ place'[Lead] # "saved"
        BY <1>0, <3>4 DEF BeginSave, ckptVars, PlaceInv
      <4> QED
        BY <4>1 DEF Registered, SavePlace, Roles
    <3> QED
      BY <1>8, <3>1, <3>2, <3>3, <3>4
  <2> QED
    BY <1>4, <2>1, <2>2
<1>9. CASE RewardDone
  <2>1. UNCHANGED <<saved, tracker, place, pc, step>>
    BY <1>9 DEF RewardDone, ckptVars
  <2> QED
    BY <1>4, <2>1 DEF Registered
<1>10. CASE \/ Boot \/ Load \/ Begin \/ NextBatch \/ EndEpoch \/ OutOfEpochs
            \/ Wake \/ Offload \/ Send \/ Generate \/ Sleep
            \/ Reward \/ OldLogProb \/ Values \/ Advantage
            \/ LoadCritic \/ UpdateCritic \/ LoadActor \/ SkipActor \/ UpdateActor \/ Advance
  <2>1. UNCHANGED <<saved, tracker>> /\ pc \notin Saving /\ pc' \notin Saving
    BY <1>10 DEF Boot, Load, Begin, NextBatch, EndEpoch, OutOfEpochs, Wake,
         Offload, Send, Generate, Sleep, Reward, OldLogProb, Values, Advantage, LoadCritic,
         UpdateCritic, LoadActor, SkipActor, UpdateActor, AfterUpdates, Advance, Saving, ckptVars,
         StageInv, Booting, Rolling, Training
  <2> QED
    BY <1>8, <2>1
<1> QED
  BY <1>3, <1>5, <1>6, <1>7, <1>8, <1>9, <1>10 DEF Next, Driver

-----------------------------------------------------------------------------
\* Which shards stay
LEMMA ShardKept ==
  ASSUME [Next]_vars, DiskInv, PathInv, NEW name, NEW r, NEW n, In(disk, r, name, n),
         name \in Roles /\ SaveRole(name) => n \notin Removed(saved[name], saved'[name])
  PROVE  In(disk', r, name, n)
<1>1. PICK f \in disk : f.step = n /\ f.role = name /\ f.rank = r
  BY DEF In
<1>2. \A m, role, q, h : LET g == Shard(m, role, q, h)
                         IN  g.step = m /\ g.role = role /\ g.rank = q
  BY DEF Shard
<1>3. CASE UNCHANGED disk
  BY <1>3
<1>4. CASE SaveData
  <2>1. disk' = {g \in disk : <<g.step, g.role>> # <<step, "data">>} \cup {Shard(step, "data", Lead, loader)}
    BY <1>4 DEF SaveData, WriteData
  <2>2. CASE f.step = step /\ f.role = "data"
    <3>1. f.rank = Lead
      BY <1>1, <2>2 DEF DiskInv, UsedRoles, Roles
    <3> QED
      BY <1>1, <1>2, <2>1, <2>2, <3>1 DEF In
  <2>3. CASE ~(f.step = step /\ f.role = "data")
    BY <1>1, <2>1, <2>3 DEF In
  <2> QED
    BY <2>2, <2>3
<1>5. ASSUME NEW role \in Roles, SaveRole(role) PROVE In(disk', r, name, n)
  <2>1. PICK q \in Ranks : \/ Prepare(q, role, conf.keep)
                           \/ WriteShard(q, role, step, StateOf(role))
                           \/ Register(q, role, step, conf.keep)
    BY <1>5 DEF SaveRole, SaveStep
  <2>2. saved \in [Roles -> Seq(Nat)]
    BY DEF PathInv
  <2>3. CASE Prepare(q, role, conf.keep) \/ Register(q, role, step, conf.keep)
    <3>1. disk' = Without(role, Removed(saved[role], saved'[role]))
      BY <2>2, <2>3 DEF Prepare, Register
    <3>2. f \in disk'
      BY <1>1, <1>5, <3>1 DEF Without
    <3> QED
      BY <1>1, <3>2 DEF In
  <2>4. CASE WriteShard(q, role, step, StateOf(role))
    <3>1. disk' = {g \in disk : <<g.step, g.role, g.rank>> # <<step, role, q>>}
                    \cup {Shard(step, role, q, StateOf(role))}
      BY <2>4 DEF WriteShard
    <3>2. CASE f.step = step /\ f.role = role /\ f.rank = q
      BY <1>1, <1>2, <3>1, <3>2 DEF In
    <3>3. CASE ~(f.step = step /\ f.role = role /\ f.rank = q)
      BY <1>1, <3>1, <3>3 DEF In
    <3> QED
      BY <3>2, <3>3
  <2> QED
    BY <2>1, <2>3, <2>4
<1> QED
  BY <1>3, <1>4, <1>5, Frames

LEMMA DataStep ==
  ASSUME StageInv, DiskInv, DataInv, PathInv, [Next]_vars
  PROVE  DataInv'
<1>1. ASSUME NEW n, HasShard(Lead, "data", n) PROVE In(disk', Lead, "data", n)
  BY <1>1, ShardKept DEF HasShard, Roles
<1>2. ASSUME SaveData PROVE In(disk', Lead, "data", step)
  <2> DEFINE f == Shard(step, "data", Lead, loader)
  <2>1. f \in disk'
    BY <1>2 DEF SaveData, WriteData
  <2>2. f.step = step /\ f.role = "data" /\ f.rank = Lead
    BY DEF Shard
  <2> QED
    BY <2>1, <2>2, Zenon DEF In
<1>3. tracker' = tracker \/ (SaveTracker /\ tracker' = step /\ pc = "save_tracker")
  BY Frames DEF SaveTracker, WriteTracker
<1>4. tracker' > 0 => In(disk', Lead, "data", tracker')
  BY <1>1, <1>3 DEF DataInv
<1>5. pc' = "save_tracker" => step' = step /\ (SaveData \/ pc = "save_tracker")
  <2>1. CASE Sleep
    BY <2>1 DEF Sleep, StageInv
  <2>2. CASE \E role \in Roles : SaveRole(role) \/ RoleSaved(role)
    BY <2>2 DEF SaveRole, RoleSaved, driverVars, SavePlace, Roles
  <2>3. CASE SaveData \/ RewardDone \/ UNCHANGED vars
    BY <2>3 DEF SaveData, RewardDone, vars, driverVars
  <2>4. CASE ~Sleep /\ ~SaveData /\ ~RewardDone /\ vars' # vars /\ ~\E role \in Roles : SaveRole(role) \/ RoleSaved(role)
    BY <2>4 DEF Next, Driver, Boot, Load, Begin, NextBatch, EndEpoch, OutOfEpochs, Wake, Offload, Send,
         Generate, Reward, OldLogProb, Values, Advantage, LoadCritic, UpdateCritic, LoadActor, SkipActor,
         UpdateActor, AfterUpdates, BeginSave, SaveTracker, Advance, Crash
  <2> QED
    BY <2>1, <2>2, <2>3, <2>4
<1>6. pc' = "save_tracker" => In(disk', Lead, "data", step')
  BY <1>1, <1>2, <1>5 DEF DataInv
<1> QED
  BY <1>4, <1>6 DEF DataInv, HasShard

\* Removing paths spares the checkpoint of the tracker and the one being made
LEMMA PathsSpared ==
  ASSUME StageInv, PlaceInv, PathInv, KeepsTwo,
         NEW role \in Roles, SaveRole(role)
  PROVE  /\ tracker \notin Removed(saved[role], saved'[role])
         /\ (\E q \in Ranks : place[q] \in {"written", "saved"}) =>
              step \notin Removed(saved[role], saved'[role])
<1> DEFINE old == saved[role]  new == saved'[role]
<1>0. /\ conf.keep \in Nat /\ conf.keep # 1 /\ step \in Nat /\ Lead \in Ranks
      /\ old \in Seq(Nat) /\ pc = SavePlace(role)
  BY Sizes, ConfFacts, KeepsTwo DEF StageInv, PathInv, SaveRole, KeepsTwo
<1>1. old # <<>> /\ place[Lead] # "saved" => old[Len(old)] = tracker
  BY <1>0 DEF PathInv, Registered, SavePlace, Roles
<1> HIDE DEF old, new
<1>2. \A i \in DOMAIN new : new[i] \notin Removed(old, new)
  BY DEF Removed
<1>3. ASSUME new \in Seq(Nat), Len(new) > 0 PROVE new[Len(new)] \notin Removed(old, new)
  <2>1. Len(new) \in DOMAIN new
    BY <1>3, LenProperties
  <2> QED
    BY <1>2, <2>1
<1>4. ASSUME new \in Seq(Nat), Len(new) > 1 PROVE new[Len(new) - 1] \notin Removed(old, new)
  <2>1. Len(new) - 1 \in DOMAIN new
    BY <1>4, LenProperties
  <2> QED
    BY <1>2, <2>1
<1>5. old = <<>> \/ new = old => Removed(old, new) = {}
  BY DEF Removed
<1>6. CASE new = old
  BY <1>5, <1>6 DEF old, new
<1>7. CASE new = AfterCapacity(old, conf.keep) /\ place[Lead] = "idle"
  <2>1. ~\E q \in Ranks : place[q] \in {"written", "saved"}
    BY <1>0, <1>7 DEF PlaceInv
  <2>2. tracker \notin Removed(old, new)
    <3>1. CASE old = <<>>
      BY <1>5, <3>1
    <3>2. CASE old # <<>>
      <4>1. new \in Seq(Nat) /\ Len(new) > 0 /\ new[Len(new)] = old[Len(old)]
        BY <1>0, <1>7, <3>2, CapacityKeeps
      <4>2. old[Len(old)] = tracker
        BY <1>1, <1>7, <3>2
      <4> QED
        BY <1>3, <4>1, <4>2
    <3> QED
      BY <3>1, <3>2
  <2> QED
    BY <2>1, <2>2 DEF old, new
<1>8. CASE new = AfterRegister(old, step, conf.keep) /\ place[Lead] = "written"
  <2>1. /\ new \in Seq(Nat) /\ Len(new) > 0 /\ new[Len(new)] = step
        /\ Len(new) > 1 => old # <<>> /\ new[Len(new) - 1] = old[Len(old)]
        /\ old # <<>> => Len(new) > 1
    BY <1>0, <1>8, RegisterKeeps
  <2>2. step \notin Removed(old, new)
    BY <1>3, <2>1
  <2>3. tracker \notin Removed(old, new)
    BY <1>1, <1>4, <1>5, <1>8, <2>1
  <2> QED
    BY <2>2, <2>3 DEF old, new
<1> QED
  BY <1>6, <1>7, <1>8, PathChange DEF old, new

\* The checkpoint of the tracker stays whole, the one being made becomes whole
LEMMA WholeStep ==
  ASSUME StageInv, PlaceInv, PathInv, DiskInv, WholeInv, KeepsTwo, [Next]_vars
  PROVE  WholeInv'
<1> DEFINE All(files, role, n) == \A r \in Ranks : In(files, r, role, n)
           SavingRole == \E role \in Roles : SaveRole(role)
<1>0. /\ conf' = conf /\ UsedRoles' = UsedRoles /\ UsedRoles \subseteq Roles /\ Roles = {"actor", "critic"}
      /\ (conf.critic => UsedRoles = Roles) /\ (~conf.critic => UsedRoles = {"actor"})
  BY Frames DEF UsedRoles, Roles
<1>1. /\ tracker > 0 => \A role \in UsedRoles : All(disk, role, tracker)
      /\ pc \in {"save_critic", "save_data", "save_tracker"} => All(disk, "actor", step)
      /\ pc \in {"save_data", "save_tracker"} /\ conf.critic => All(disk, "critic", step)
      /\ \A r \in Ranks : \A role \in Roles :
           place[r] \in {"written", "saved"} /\ pc = SavePlace(role) => In(disk, r, role, step)
  BY DEF WholeInv, HasAll, HasShard
<1>2. ASSUME tracker' > 0 => \A role \in UsedRoles : All(disk', role, tracker'),
             pc' \in {"save_critic", "save_data", "save_tracker"} => All(disk', "actor", step'),
             pc' \in {"save_data", "save_tracker"} /\ conf.critic => All(disk', "critic", step'),
             \A r \in Ranks : \A role \in Roles :
               place'[r] \in {"written", "saved"} /\ pc' = SavePlace(role) => In(disk', r, role, step')
      PROVE  WholeInv'
  BY <1>0, <1>2 DEF WholeInv, HasAll, HasShard
<1>3. ASSUME NEW role \in Roles, NEW n, All(disk, role, n),
             SaveRole(role) => n \notin Removed(saved[role], saved'[role])
      PROVE  All(disk', role, n)
  BY <1>3, ShardKept
<1>4. ASSUME NEW role \in Roles, SaveRole(role)
      PROVE  /\ pc = SavePlace(role) /\ pc' = pc /\ step' = step /\ tracker' = tracker
             /\ \A other \in Roles : SaveRole(other) => other = role
  BY <1>4, Frames DEF SaveRole, driverVars, SavePlace, Roles, SaveTracker
<1> HIDE DEF All
<1>5. tracker' > 0 => \A role \in UsedRoles : All(disk', role, tracker')
  <2>1. CASE tracker' = tracker
    <3>1. ASSUME tracker > 0, NEW role \in Roles, role \in UsedRoles PROVE All(disk', role, tracker)
      <4>1. SaveRole(role) => tracker \notin Removed(saved[role], saved'[role])
        BY PathsSpared
      <4> QED
        BY <1>1, <1>3, <3>1, <4>1
    <3> QED
      BY <1>0, <2>1, <3>1
  <2>2. CASE SaveTracker
    <3>1. pc = "save_tracker" /\ tracker' = step /\ disk' = disk
      BY <2>2 DEF SaveTracker, WriteTracker
    <3> QED
      BY <1>0, <1>1, <3>1
  <2> QED
    BY <2>1, <2>2, Frames
<1>6. ASSUME NEW role \in Roles, RoleSaved(role)
      PROVE  /\ All(disk', role, step) /\ disk' = disk /\ step' = step /\ tracker' = tracker
             /\ pc = SavePlace(role) /\ place' = [r \in Ranks |-> "idle"]
             /\ pc' = IF role = "actor" /\ conf.critic THEN "save_critic" ELSE "save_data"
  <2>1. /\ pc = SavePlace(role) /\ \A r \in Ranks : place[r] = "saved"
        /\ disk' = disk /\ step' = step /\ tracker' = tracker /\ place' = [r \in Ranks |-> "idle"]
        /\ pc' = IF role = "actor" /\ conf.critic THEN "save_critic" ELSE "save_data"
    BY <1>6 DEF RoleSaved, Saved
  <2>2. \A r \in Ranks : In(disk, r, role, step)
    BY <1>1, <2>1
  <2> QED
    BY <2>1, <2>2 DEF All
<1>7. CASE \E role \in Roles : RoleSaved(role)
  <2>1. PICK role \in Roles : RoleSaved(role)
    BY <1>7
  <2>2. pc' \in {"save_critic", "save_data"} => All(disk', "actor", step')
    BY <1>0, <1>1, <1>6, <2>1 DEF SavePlace
  <2>3. pc' = "save_data" /\ conf.critic => All(disk', "critic", step')
    BY <1>0, <1>6, <2>1
  <2>4. pc' \in {"save_critic", "save_data"} /\ \A r \in Ranks : place'[r] = "idle"
    BY <1>6, <2>1
  <2> QED
    BY <1>2, <1>5, <2>2, <2>3, <2>4
<1>8. CASE SavingRole
  <2>1. PICK role \in Roles : SaveRole(role)
    BY <1>8
  <2>2. /\ pc = SavePlace(role) /\ pc' = pc /\ step' = step
        /\ \A other \in Roles : SaveRole(other) => other = role
    BY <1>4, <2>1
  <2>3. pc' = "save_critic" => All(disk', "actor", step')
    <3>1. pc = "save_critic" => ~SaveRole("actor")
      BY <2>1, <2>2 DEF SavePlace, Roles
    <3> QED
      BY <1>0, <1>1, <1>3, <2>2, <3>1
  <2>4. ASSUME NEW r \in Ranks, place'[r] \in {"written", "saved"} PROVE In(disk', r, role, step)
    <3>1. CASE place[r] \in {"written", "saved"}
      <4>1. In(disk, r, role, step)
        BY <1>1, <2>2, <3>1
      <4>2. step \notin Removed(saved[role], saved'[role])
        BY <2>1, <3>1, PathsSpared
      <4> QED
        BY <4>1, <4>2, ShardKept
    <3>2. CASE place[r] \notin {"written", "saved"}
      <4>1. WriteShard(r, role, step, StateOf(role))
        BY <2>1, <2>4, <3>2 DEF SaveRole, SaveStep, Prepare, WriteShard, Register, PlaceInv
      <4>2. Shard(step, role, r, StateOf(role)) \in disk'
        BY <4>1 DEF WriteShard
      <4> QED
        BY <4>2 DEF Shard, In
    <3> QED
      BY <3>1, <3>2
  <2>5. \A r \in Ranks : \A other \in Roles :
          place'[r] \in {"written", "saved"} /\ pc' = SavePlace(other) => In(disk', r, other, step')
    BY <2>2, <2>4 DEF SavePlace, Roles
  <2>6. pc' \notin {"save_data", "save_tracker"}
    BY <2>2 DEF SavePlace
  <2> QED
    BY <1>2, <1>5, <2>3, <2>5, <2>6
<1>9. ASSUME UNCHANGED <<disk, place, pc, step, tracker>> PROVE WholeInv'
  BY <1>1, <1>2, <1>9 DEF All
<1>10. CASE UNCHANGED vars \/ RewardDone
  <2>1. UNCHANGED <<disk, place, pc, step, tracker>>
    BY <1>10 DEF vars, driverVars, ckptVars, RewardDone
  <2> QED
    BY <1>9, <2>1
<1>11. CASE SaveData
  <2>1. pc = "save_data" /\ pc' = "save_tracker" /\ step' = step /\ UNCHANGED place
    BY <1>11 DEF SaveData, WriteData
  <2>2. \A role \in Roles : ~SaveRole(role)
    BY <1>4, <2>1 DEF SavePlace
  <2>3. All(disk', "actor", step) /\ (conf.critic => All(disk', "critic", step))
    BY <1>0, <1>1, <1>3, <2>1, <2>2
  <2>4. \A r \in Ranks : place'[r] = "idle"
    BY <2>1 DEF PlaceInv
  <2> QED
    BY <1>2, <1>5, <2>1, <2>3, <2>4
<1>12. ASSUME disk' = disk, pc \notin {"save_actor", "save_critic"}, UNCHANGED place,
              pc' \notin {"save_critic", "save_data", "save_tracker"}
       PROVE  WholeInv'
  <2>1. \A r \in Ranks : place'[r] = "idle"
    BY <1>12 DEF PlaceInv
  <2> QED
    BY <1>2, <1>5, <1>12, <2>1
<1>13. CASE Crash
  <2>1. pc' = "down" /\ \A r \in Ranks : place'[r] = "idle"
    BY <1>13 DEF Crash, ForgetPaths
  <2> QED
    BY <1>2, <1>5, <2>1
<1>14. CASE Sleep
  <2>1. pc = "sleep" /\ pc' \in {"fetch", "reward", "save"} /\ UNCHANGED <<disk, place>>
    BY <1>14 DEF Sleep, StageInv, ckptVars
  <2> QED
    BY <1>12, <2>1
<1>15. CASE \/ Boot \/ Load \/ Begin \/ NextBatch \/ EndEpoch \/ OutOfEpochs
            \/ Wake \/ Offload \/ Send \/ Generate
            \/ Reward \/ OldLogProb \/ Values \/ Advantage
            \/ LoadCritic \/ UpdateCritic \/ LoadActor \/ SkipActor \/ UpdateActor
            \/ BeginSave \/ SaveTracker \/ Advance
  <2>1. /\ UNCHANGED <<disk, place>> /\ pc \notin {"save_actor", "save_critic"}
        /\ pc' \notin {"save_critic", "save_data", "save_tracker"}
    BY <1>15 DEF Boot, Load, Begin, NextBatch, EndEpoch, OutOfEpochs, Wake, Offload, Send, Generate, Reward,
         OldLogProb, Values, Advantage, LoadCritic, UpdateCritic, LoadActor, SkipActor, UpdateActor,
         AfterUpdates, BeginSave, SaveTracker, WriteTracker, Advance, ckptVars
  <2> QED
    BY <1>12, <2>1
<1> QED
  BY <1>7, <1>8, <1>10, <1>11, <1>13, <1>14, <1>15 DEF Next, Driver

-----------------------------------------------------------------------------
\* What the operations of the workers do to the random streams and the engine
RngOf(device, train, gen) == [device |-> device, train |-> train, gen |-> gen]
EngineOf(awake, base, adapter, cached, synced) ==
  [awake |-> awake, base |-> base, adapter |-> adapter, cached |-> cached, baseSynced |-> synced]

LEMMA RngOps ==
  ASSUME NEW g, g = RngOf(g.device, g.train, g.gen), NEW v, NEW w
  PROVE  /\ [g EXCEPT !.device = v] = RngOf(v, g.train, g.gen)
         /\ [g EXCEPT !.train = w, !.device = v] = RngOf(v, w, g.gen)
         /\ RestoredRng(g) = RngOf(g.train, g.train, g.device)
<1> DEFINE d == g.device  t == g.train  n == g.gen
<1>1. g = RngOf(d, t, n)
  OBVIOUS
<1> HIDE DEF d, t, n
<1>2. [g EXCEPT !.device = v] = RngOf(v, t, n)
  BY <1>1 DEF RngOf
<1>3. [g EXCEPT !.train = w, !.device = v] = RngOf(v, w, n)
  <2> DEFINE h == [g EXCEPT !.train = w]
  <2>1. h = RngOf(d, w, n)
    BY <1>1 DEF RngOf
  <2> HIDE DEF h
  <2>2. [h EXCEPT !.device = v] = RngOf(v, w, n)
    BY <2>1 DEF RngOf
  <2> QED
    BY <2>2, Zenon DEF h
<1>4. [g EXCEPT !.gen = d, !.device = t] = RngOf(t, t, d)
  <2> DEFINE h == [g EXCEPT !.gen = d]
  <2>1. h = RngOf(d, t, d)
    BY <1>1 DEF RngOf
  <2> HIDE DEF h
  <2>2. [h EXCEPT !.device = t] = RngOf(t, t, d)
    BY <2>1 DEF RngOf
  <2> QED
    BY <2>2, Zenon DEF h
<1> QED
  BY <1>2, <1>3, <1>4, Zenon DEF RestoredRng, d, t, n

LEMMA EngineFields ==
  \A a, b, d, c, s : LET e == EngineOf(a, b, d, c, s)
                     IN  /\ GpuEngine(e) /\ e.awake = a /\ e.base = b /\ e.adapter = d
                         /\ e.cached = c /\ e.baseSynced = s
BY DEF EngineOf, GpuEngine

LEMMA AwakeOp ==
  ASSUME NEW e, GpuEngine(e), NEW w
  PROVE  [e EXCEPT !.awake = w] = EngineOf(w, e.base, e.adapter, e.cached, e.baseSynced)
<1> DEFINE a == e.awake  b == e.base  d == e.adapter  c == e.cached  s == e.baseSynced
<1>1. e = EngineOf(a, b, d, c, s)
  BY DEF GpuEngine, EngineOf
<1> HIDE DEF a, b, c, d, s
<1>2. [e EXCEPT !.awake = w] = EngineOf(w, b, d, c, s)
  BY <1>1 DEF EngineOf
<1> QED
  BY <1>2, Zenon DEF b, c, d, s

\* Going to sleep
LEMMA ReleasedOp ==
  ASSUME NEW a, NEW b, NEW d, NEW c, NEW s, NEW e, e = EngineOf(a, b, d, c, s)
  PROVE  Released(PrefixReset(e)) =
           IF ~conf.freeCache THEN EngineOf(a, b, d, {}, s)
           ELSE EngineOf({}, IF conf.sleepLevel = 2 THEN Lost ELSE b, d, {}, s)
<1> DEFINE p == PrefixReset(e)  q == [p EXCEPT !.awake = {}]
           x == IF conf.sleepLevel = 2 THEN Lost ELSE p.base
<1>1. p = EngineOf(a, b, d, {}, s)
  BY DEF PrefixReset, EngineOf
<1> HIDE DEF p
<1>2. q = EngineOf({}, b, d, {}, s)
  BY <1>1 DEF EngineOf
<1> HIDE DEF q
<1>3. [q EXCEPT !.base = x] = EngineOf({}, x, d, {}, s)
  BY <1>2 DEF EngineOf
<1>4. p.base = b
  BY <1>1 DEF EngineOf
<1>5. Released(p) = IF ~conf.freeCache THEN p ELSE [q EXCEPT !.base = x]
  BY Zenon DEF Released, q
<1> QED
  BY <1>1, <1>3, <1>4, <1>5, Zenon DEF p

\* The weights a send leaves in the engine
LEMMA UpdatedOp ==
  ASSUME NEW e, GpuEngine(e), NEW v
  PROVE  Updated(e, v) =
           EngineOf(e.awake, IF ~SendsBase THEN e.base ELSE IF conf.lora THEN 0 ELSE v,
                    IF SendsAdapter THEN v ELSE e.adapter, e.cached, TRUE)
<1> DEFINE x == IF ~SendsBase THEN e.base ELSE IF conf.lora THEN 0 ELSE v
           y == IF SendsAdapter THEN v ELSE e.adapter
           p == [e EXCEPT !.base = x]  q == [p EXCEPT !.adapter = y]
           a == e.awake  b == e.base  d == e.adapter  c == e.cached  s == e.baseSynced
<1>1. e = EngineOf(a, b, d, c, s)
  BY DEF GpuEngine, EngineOf
<1> HIDE DEF a, b, c, d, s, x, y
<1>2. p = EngineOf(a, x, d, c, s)
  BY <1>1 DEF EngineOf
<1> HIDE DEF p
<1>3. q = EngineOf(a, x, y, c, s)
  BY <1>2 DEF EngineOf
<1> HIDE DEF q
<1>4. [q EXCEPT !.baseSynced = TRUE] = EngineOf(a, x, y, c, TRUE)
  <2>1. \A w : [q EXCEPT !.baseSynced = w] = EngineOf(a, x, y, c, w)
    BY <1>3 DEF EngineOf
  <2> QED
    BY <2>1, Zenon
<1>5. Updated(e, v) = [q EXCEPT !.baseSynced = TRUE]
  BY Zenon DEF Updated, p, q, x, y
<1> QED
  BY <1>4, <1>5, Zenon DEF x, y, a, c

Awake == {"down", "send", "generate", "sleep"}

LEMMA AwakePlaces ==
  ASSUME StageInv, [Next]_vars
  PROVE  \/ Boot \/ Offload \/ Send \/ Generate \/ Sleep \/ Crash
         \/ UNCHANGED <<hybridVars, pc>>
         \/ UNCHANGED engine /\ pc \notin Awake /\ pc' \notin Awake
<1> USE DEF Awake
<1>1. CASE UNCHANGED vars \/ RewardDone
  BY <1>1 DEF vars, driverVars, RewardDone
<1>2. CASE \E role \in Roles : SaveRole(role) \/ RoleSaved(role)
  BY <1>2 DEF SaveRole, RoleSaved, driverVars, SavePlace, hybridVars
<1>3. CASE Load \/ Begin \/ NextBatch \/ EndEpoch \/ OutOfEpochs \/ Wake
  BY <1>3 DEF Load, Begin, NextBatch, EndEpoch, OutOfEpochs, Wake, GatherWeights, hybridVars
<1>4. CASE \/ Reward \/ OldLogProb \/ Values \/ Advantage
           \/ LoadCritic \/ UpdateCritic \/ LoadActor \/ SkipActor \/ UpdateActor
           \/ BeginSave \/ SaveData \/ SaveTracker \/ Advance
  BY <1>4 DEF Reward, OldLogProb, Values, Advantage, LoadCritic, UpdateCritic, LoadActor, SkipActor,
         UpdateActor, AfterUpdates, BeginSave, SaveData, SaveTracker, Advance, LoadForUpdate,
         ApplyUpdate, hybridVars
<1> QED
  BY <1>1, <1>2, <1>3, <1>4 DEF Next, Driver

\* The engine's memory and weights
LEMMA EngineStep ==
  ASSUME StageInv, VersionInv, EngineInv, [Next]_vars
  PROVE  EngineInv'
<1> DEFINE Room(p) == IF ~conf.freeCache \/ p \in {"down", "generate", "sleep"} THEN Memory
                      ELSE IF p = "send" THEN {"weights"} ELSE {}
           Based(b) == b = 0 \/ (b = Lost /\ conf.sleepLevel = 2)
           Ok(e, p) == /\ GpuEngine(e) /\ e.awake = Room(p) /\ (p # "sleep" => e.cached = {})
                       /\ ~conf.lora => e.adapter = None
                       /\ conf.lora /\ ~conf.dummy => e.baseSynced /\ Based(e.base)
<1> DEFINE a == engine.awake  b == engine.base  d == engine.adapter  c == engine.cached
           s == engine.baseSynced
<1>0. /\ conf' = conf /\ conf.lora \in BOOLEAN /\ conf.dummy \in BOOLEAN /\ conf.freeCache \in BOOLEAN
      /\ engine = EngineOf(a, b, d, c, s)
  BY Frames, ConfFacts DEF EngineInv, GpuEngine, EngineOf
<1>1. Ok(engine, pc)
  BY DEF EngineInv
<1>2. ASSUME Ok(engine', pc'),
             (conf.lora => ~conf.dummy) /\ pc' = "generate" => Policy' = model'["actor"].version
      PROVE  EngineInv'
  BY <1>0, <1>2 DEF EngineInv, GpuEngine
<1>3. \A x, y, z, u, v : LET e == EngineOf(x, y, z, u, v)
                         IN  /\ GpuEngine(e) /\ e.awake = x /\ e.base = y /\ e.adapter = z
                             /\ e.cached = u /\ e.baseSynced = v
  BY EngineFields
<1>4. ASSUME NEW x, NEW y, NEW z, NEW u, NEW v, engine' = EngineOf(x, y, z, u, v),
             x = Room(pc'), pc' # "sleep" => u = {}, ~conf.lora => z = None,
             conf.lora /\ ~conf.dummy => v /\ Based(y), pc' # "generate"
      PROVE  EngineInv'
  <2>1. Ok(engine', pc')
    BY <1>3, <1>4
  <2> QED
    BY <1>2, <1>4, <2>1
<1>5. ASSUME engine' = Released(PrefixReset(engine)), pc \in {"down", "sleep"}, pc' \notin Awake
      PROVE  EngineInv'
  <2>1. CASE ~conf.freeCache
    <3>1. engine' = EngineOf(a, b, d, {}, s)
      BY <1>0, <1>5, <2>1, ReleasedOp
    <3>2. a = Room(pc')
      BY <1>1, <1>5, <2>1 DEF Awake
    <3>3. (~conf.lora => d = None) /\ (conf.lora /\ ~conf.dummy => s /\ Based(b))
      BY <1>1
    <3> QED
      BY <1>4, <1>5, <3>1, <3>2, <3>3 DEF Awake
  <2>2. CASE conf.freeCache
    <3> DEFINE y == IF conf.sleepLevel = 2 THEN Lost ELSE b
    <3>1. engine' = EngineOf({}, y, d, {}, s)
      BY <1>0, <1>5, <2>2, ReleasedOp
    <3>2. {} = Room(pc')
      BY <1>5, <2>2 DEF Awake
    <3>3. (~conf.lora => d = None) /\ (conf.lora /\ ~conf.dummy => s /\ Based(y))
      BY <1>1
    <3> HIDE DEF y
    <3> QED
      BY <1>4, <1>5, <3>1, <3>2, <3>3 DEF Awake
  <2> QED
    BY <2>1, <2>2
<1>6. CASE Sleep
  BY <1>5, <1>6 DEF Sleep, TrainerMode, StageInv, Awake
<1>7. CASE Boot
  <2>1. CASE conf.freeCache
    BY <1>5, <1>7, <2>1 DEF Boot, TrainerMode, Awake
  <2>2. CASE ~conf.freeCache
    <3>1. engine' = engine /\ pc = "down" /\ pc' = "load"
      BY <1>7, <2>2 DEF Boot, hybridVars
    <3> QED
      BY <1>1, <1>2, <2>2, <3>1
  <2> QED
    BY <2>1, <2>2
<1>8. CASE Offload
  <2>1. /\ pc = "offload" /\ pc' = "send"
        /\ engine' = IF conf.freeCache THEN [engine EXCEPT !.awake = a \cup {"weights"}] ELSE engine
    BY <1>8 DEF Offload, ResumeWeights
  <2>2. CASE conf.freeCache
    <3>1. engine' = EngineOf(a \cup {"weights"}, b, d, c, s)
      BY <1>0, <2>1, <2>2 DEF EngineOf
    <3>2. a \cup {"weights"} = Room(pc')
      BY <1>1, <2>1, <2>2
    <3> QED
      BY <1>1, <1>4, <2>1, <3>1, <3>2
  <2>3. CASE ~conf.freeCache
    BY <1>1, <1>2, <2>1, <2>3
  <2> QED
    BY <2>2, <2>3
<1>9. CASE Send
  <2> DEFINE v == model["actor"].version
             y == IF ~SendsBase THEN b ELSE IF conf.lora THEN 0 ELSE v
             z == IF SendsAdapter THEN v ELSE d
             e == Updated(engine, v)
  <2>1. /\ pc = "send" /\ pc' = "generate" /\ model' = model
        /\ engine' = IF conf.freeCache THEN [e EXCEPT !.awake = @ \cup {"kv_cache"}] ELSE e
    BY <1>9 DEF Send, SendWeights
  <2>2. v \in Nat
    BY UpdatesAt DEF VersionInv, StageInv
  <2>3. e = EngineOf(a, y, z, c, TRUE)
    BY <1>1, UpdatedOp, Zenon
  <2>4. /\ a = (IF ~conf.freeCache THEN Memory ELSE {"weights"}) /\ c = {}
        /\ ~conf.lora => d = None
        /\ conf.lora /\ ~conf.dummy => s /\ Based(b)
    BY <1>1, <2>1
  <2>5. ~conf.lora => y = v /\ z = None
    BY <2>4 DEF SendsBase, SendsAdapter
  <2>6. conf.lora /\ ~conf.dummy => y = 0 /\ z = v
    BY <2>4 DEF SendsBase, SendsAdapter, Lost
  <2> HIDE DEF e, y, z
  <2>7. engine' = EngineOf(Memory, y, z, c, TRUE)
    <3>0. /\ GpuEngine(e) /\ e.awake = a /\ e.base = y /\ e.adapter = z /\ e.cached = c
          /\ e.baseSynced = TRUE
      BY <2>3 DEF EngineOf, GpuEngine
    <3>1. CASE conf.freeCache
      <4>1. [e EXCEPT !.awake = @ \cup {"kv_cache"}] = EngineOf(a \cup {"kv_cache"}, y, z, c, TRUE)
        <5> DEFINE w == e.awake \cup {"kv_cache"}
        <5>1. [e EXCEPT !.awake = w] = EngineOf(w, e.base, e.adapter, e.cached, e.baseSynced)
          BY <3>0, AwakeOp, Zenon
        <5>2. EngineOf(w, e.base, e.adapter, e.cached, e.baseSynced) = EngineOf(w, y, z, c, TRUE)
          BY <3>0, Zenon
        <5>3. w = a \cup {"kv_cache"}
          BY <3>0, Zenon
        <5> QED
          BY <5>1, <5>2, <5>3, Zenon
      <4>2. a \cup {"kv_cache"} = Memory
        BY <2>4, <3>1 DEF Memory
      <4> QED
        BY <2>1, <3>1, <4>1, <4>2
    <3>2. CASE ~conf.freeCache
      BY <2>1, <2>3, <2>4, <3>2
    <3> QED
      BY <3>1, <3>2
  <2>8. /\ GpuEngine(engine') /\ engine'.awake = Memory /\ engine'.base = y /\ engine'.adapter = z
        /\ engine'.cached = {} /\ engine'.baseSynced = TRUE
    BY <2>4, <2>7 DEF EngineOf, GpuEngine
  <2>9. Ok(engine', pc')
    BY <2>1, <2>5, <2>6, <2>8
  <2>10. (conf.lora => ~conf.dummy) => Policy' = v
    BY <1>0, <2>2, <2>5, <2>6, <2>8 DEF Policy, None
  <2> QED
    BY <1>2, <2>1, <2>9, <2>10
<1>10. CASE Generate
  <2>1. pc = "generate" /\ pc' = "sleep" /\ engine' = [engine EXCEPT !.cached = c \cup {Policy}]
    BY <1>10 DEF Generate, EngineGenerate
  <2>2. engine' = EngineOf(a, b, d, c \cup {Policy}, s)
    BY <1>0, <2>1 DEF EngineOf
  <2>3. a = Room(pc')
    BY <1>1, <2>1
  <2> QED
    BY <1>1, <1>4, <2>1, <2>2, <2>3
<1>11. CASE Crash
  <2>1. pc' = "down" /\ engine' = FreshEngine
    BY <1>11 DEF Crash
  <2>2. FreshEngine = EngineOf(Memory, IF conf.dummy THEN Dummy ELSE 0, None, {}, ~conf.dummy)
    BY DEF FreshEngine, EngineOf, Memory
  <2> QED
    BY <1>0, <1>4, <2>1, <2>2
<1>12. CASE UNCHANGED <<hybridVars, pc>>
  <2>1. engine' = engine /\ pc' = pc /\ model' = model
    BY <1>12 DEF hybridVars
  <2> QED
    BY <1>0, <1>1, <1>2, <2>1 DEF EngineInv, Policy
<1>13. CASE UNCHANGED engine /\ pc \notin Awake /\ pc' \notin Awake
  BY <1>1, <1>2, <1>13 DEF Awake
<1> QED
  BY <1>6, <1>7, <1>8, <1>9, <1>10, <1>11, <1>12, <1>13, AwakePlaces

\* The random streams
LEMMA RngStep ==
  ASSUME StageInv, VersionInv, DiskInv, MemoryInv, RngInv, [Next]_vars
  PROVE  RngInv'
<1> DEFINE sum == model["actor"].version + model["critic"].version
           d == rng.device  t == rng.train  g == rng.gen
<1>0. /\ conf' = conf /\ TrainTag' = TrainTag /\ GenTag' = GenTag /\ Roles = {"actor", "critic"}
      /\ rng = RngOf(d, t, g) /\ sum \in Nat
  BY Frames, UpdatesAt DEF TrainTag, GenTag, RngInv, RngOf, Roles, VersionInv, StageInv
<1>1. /\ pc = "down" => rng = FreshRng
      /\ pc # "down" /\ pc \in {"generate", "sleep"} =>
           d = <<GenTag, d[2]>> /\ d[2] \in Nat /\ t = <<TrainTag, sum>>
      /\ pc # "down" /\ pc \notin {"generate", "sleep"} =>
           g = <<GenTag, g[2]>> /\ g[2] \in Nat /\ d = <<TrainTag, sum>>
  BY DEF RngInv
<1>2. \A x, y, z : RngOf(x, y, z).device = x /\ RngOf(x, y, z).train = y /\ RngOf(x, y, z).gen = z
  BY DEF RngOf
<1>3. ASSUME NEW x, NEW y, NEW z, rng' = RngOf(x, y, z), pc' # "down",
             IF pc' \in {"generate", "sleep"}
             THEN x = <<GenTag, x[2]>> /\ x[2] \in Nat /\ y = <<TrainTag, sum'>>
             ELSE z = <<GenTag, z[2]>> /\ z[2] \in Nat /\ x = <<TrainTag, sum'>>
      PROVE  RngInv'
  <2>1. /\ rng' = [device |-> rng'.device, train |-> rng'.train, gen |-> rng'.gen]
        /\ rng'.device = x /\ rng'.train = y /\ rng'.gen = z
    BY <1>2, <1>3 DEF RngOf
  <2> QED
    BY <1>0, <1>3, <2>1 DEF RngInv
<1>4. CASE Crash
  <2>1. pc' = "down" /\ rng' = FreshRng
    BY <1>4 DEF Crash
  <2> QED
    BY <2>1 DEF RngInv, FreshRng
<1>5. ASSUME rng' = rng, sum' = sum, pc # "down", pc' # "down",
             pc \in {"generate", "sleep"} <=> pc' \in {"generate", "sleep"}
      PROVE  RngInv'
  BY <1>0, <1>1, <1>3, <1>5
<1>6. CASE Boot
  <2>1. /\ pc = "down" /\ pc' = "load" /\ model' = model
        /\ rng' = IF conf.freeCache THEN RestoredRng(rng) ELSE rng
    BY <1>6 DEF Boot, TrainerMode, hybridVars
  <2>2. sum = 0
    BY <2>1, UpdatesAt DEF StageInv, Booting, Rolling, Training, Saving, VersionInv
  <2>3. /\ d = <<"engine", 0>> /\ t = <<"train", 0>> /\ g = <<"gen", 0>> /\ sum' = 0
    BY <1>1, <2>1, <2>2 DEF FreshRng, TrainStream, GenStream
  <2>4. CASE conf.freeCache
    <3>1. rng' = RngOf(t, t, d)
      BY <1>0, <2>1, <2>4, RngOps
    <3>2. d = <<GenTag, d[2]>> /\ d[2] \in Nat /\ t = <<TrainTag, sum'>>
      BY <2>3, <2>4 DEF GenTag, TrainTag
    <3> QED
      BY <1>3, <2>1, <3>1, <3>2
  <2>5. CASE ~conf.freeCache
    <3>1. g = <<GenTag, g[2]>> /\ g[2] \in Nat /\ d = <<TrainTag, sum'>>
      BY <2>3, <2>5 DEF GenTag, TrainTag
    <3> QED
      BY <1>0, <1>3, <2>1, <2>5, <3>1
  <2> QED
    BY <2>4, <2>5
<1>7. ASSUME Load, Readable, Reloaded PROVE RngInv'
  <2> DEFINE name == IF conf.critic THEN "critic" ELSE "actor"
             v == Loaded(tracker, name).rng
  <2>1. pc = "load" /\ pc' = "begin" /\ rng' = [rng EXCEPT !.device = v]
    BY <1>7 DEF Load, FromScratch, Readable, Absent
  <2>2. v = <<TrainTag, Drawn(tracker)>>
    <3>1. name \in UsedRoles
      BY DEF UsedRoles, Roles
    <3>2. Loaded(tracker, name) = [version |-> Updates(name, tracker), rng |-> <<TrainTag, Drawn(tracker)>>]
      BY <1>7, <3>1, Readables, Chosen
    <3> QED
      BY <3>2
  <2>3. sum' = Drawn(tracker)
    <3>1. /\ model'["actor"].version = ActorUpdates(tracker)
          /\ model'["critic"].version = IF conf.critic THEN tracker ELSE model["critic"].version
      BY <1>0, <1>7 DEF Reloaded, UsedRoles, Updates
    <3>2. ~conf.critic => model["critic"].version = 0
      BY DEF VersionInv
    <3> QED
      BY <3>1, <3>2 DEF Drawn
  <2> HIDE DEF v
  <2>4. rng' = RngOf(v, t, g)
    BY <1>0, <2>1, RngOps
  <2>5. g = <<GenTag, g[2]>> /\ g[2] \in Nat
    BY <1>1, <2>1
  <2> QED
    BY <1>3, <2>1, <2>2, <2>3, <2>4, <2>5
<1>8. CASE Send
  <2>1. /\ pc = "send" /\ pc' = "generate" /\ model' = model
        /\ rng' = [rng EXCEPT !.train = d, !.device = g]
    BY <1>8 DEF Send, SendWeights
  <2>2. rng' = RngOf(g, d, g)
    BY <1>0, <2>1, RngOps
  <2> QED
    BY <1>1, <1>3, <2>1, <2>2
<1>9. CASE Generate
  <2>1. /\ pc = "generate" /\ pc' = "sleep" /\ model' = model
        /\ rng' = [rng EXCEPT !.device = <<d[1], d[2] + 1>>]
    BY <1>9 DEF Generate, EngineGenerate
  <2>2. rng' = RngOf(<<d[1], d[2] + 1>>, t, g)
    BY <1>0, <2>1, RngOps
  <2>3. d[1] = GenTag /\ d[2] \in Nat /\ t = <<TrainTag, sum>>
    BY <1>1, <2>1
  <2> QED
    BY <1>3, <2>1, <2>2, <2>3
<1>10. CASE Sleep
  <2>1. /\ pc = "sleep" /\ pc' \in {"fetch", "reward", "save"} /\ model' = model
        /\ rng' = RestoredRng(rng)
    BY <1>10 DEF Sleep, TrainerMode, StageInv
  <2>2. rng' = RngOf(t, t, d)
    BY <1>0, <2>1, RngOps
  <2> QED
    BY <1>1, <1>3, <2>1, <2>2
<1>11. ASSUME (UpdateActor /\ ActorUpdated) \/ (UpdateCritic /\ CriticUpdated) PROVE RngInv'
  <2>1. /\ pc \in {"update_actor", "update_critic"} /\ pc' \in {"wake", "save", "actor"}
        /\ rng' = [rng EXCEPT !.device = <<d[1], d[2] + 1>>]
    BY <1>11 DEF UpdateActor, UpdateCritic, AfterUpdates, ApplyUpdate
  <2>2. sum' = sum + 1
    BY <1>0, <1>11, UpdatesAt DEF ActorUpdated, CriticUpdated, VersionInv, StageInv
  <2>3. rng' = RngOf(<<d[1], d[2] + 1>>, t, g)
    BY <1>0, <2>1, RngOps
  <2>4. d[1] = TrainTag /\ d[2] = sum /\ g = <<GenTag, g[2]>> /\ g[2] \in Nat
    BY <1>1, <2>1
  <2> QED
    BY <1>3, <2>1, <2>2, <2>3, <2>4
<1>12. CASE UNCHANGED <<hybridVars, pc>>
  BY <1>0, <1>12 DEF RngInv, hybridVars
<1>13. ASSUME Quiet, Offload \/ (pc \notin Awake /\ pc' \notin Awake), UNCHANGED rng
       PROVE  RngInv'
  <2>1. sum' = sum
    BY <1>0, <1>13 DEF Quiet, Same
  <2>2. /\ pc # "down" /\ pc' # "down"
        /\ pc \in {"generate", "sleep"} <=> pc' \in {"generate", "sleep"}
    BY <1>13 DEF Offload, Awake
  <2> QED
    BY <1>5, <1>13, <2>1, <2>2
<1>14. CASE Load /\ ~Readable
  <2>1. UNCHANGED rng /\ pc \notin Awake /\ pc' \notin Awake
    BY <1>14 DEF Load, Awake
  <2>2. Quiet
    BY <1>14, MemoryStep DEF Load, UpdateActor, UpdateCritic, Crash
  <2> QED
    BY <1>13, <2>1, <2>2
<1>15. \/ UpdateActor /\ ActorUpdated
       \/ UpdateCritic /\ CriticUpdated
       \/ Load /\ Readable /\ Reloaded
       \/ Crash
       \/ Quiet
  BY MemoryStep
<1>16. UNCHANGED rng \/ Boot \/ Load \/ Send \/ Generate \/ Sleep \/ UpdateCritic \/ UpdateActor \/ Crash
  BY Frames
<1>17. \/ Boot \/ Offload \/ Send \/ Generate \/ Sleep \/ Crash
       \/ UNCHANGED <<hybridVars, pc>>
       \/ pc \notin Awake /\ pc' \notin Awake
  BY AwakePlaces
<1>18. Quiet => ~UpdateActor /\ ~UpdateCritic /\ ~(Load /\ Readable)
  BY DEF Quiet
<1> HIDE DEF sum, d, t, g
<1> QED
  BY <1>4, <1>6, <1>7, <1>8, <1>9, <1>10, <1>11, <1>12, <1>13, <1>14, <1>15, <1>16, <1>17, <1>18, Zenon

-----------------------------------------------------------------------------
\* The batch in hand
BatchOf(data, by, old, values, reward) ==
  [data |-> data, by |-> by, old |-> old, values |-> values, reward |-> reward]

LEMMA BatchOps ==
  ASSUME NEW g, g = BatchOf(g.data, g.by, g.old, g.values, g.reward)
  PROVE  \A v : /\ [g EXCEPT !.by = v] = BatchOf(g.data, v, g.old, g.values, g.reward)
               /\ [g EXCEPT !.old = v] = BatchOf(g.data, g.by, v, g.values, g.reward)
               /\ [g EXCEPT !.values = v] = BatchOf(g.data, g.by, g.old, v, g.reward)
               /\ [g EXCEPT !.reward = v] = BatchOf(g.data, g.by, g.old, g.values, v)
<1> TAKE v
<1>1. [g EXCEPT !.by = v] = BatchOf(g.data, v, g.old, g.values, g.reward)
  BY DEF BatchOf
<1>2. [g EXCEPT !.old = v] = BatchOf(g.data, g.by, v, g.values, g.reward)
  BY DEF BatchOf
<1>3. [g EXCEPT !.values = v] = BatchOf(g.data, g.by, g.old, v, g.reward)
  BY DEF BatchOf
<1>4. [g EXCEPT !.reward = v] = BatchOf(g.data, g.by, g.old, g.values, v)
  BY DEF BatchOf
<1> QED
  BY <1>1, <1>2, <1>3, <1>4, Zenon

LEMMA BatchStep ==
  ASSUME StageInv, VersionInv, LoaderInv, DiskInv, DataInv, EngineInv, MemoryInv, BatchInv, [Next]_vars
  PROVE  BatchInv'
<1> DEFINE a == batch.data  b == batch.by  c == batch.old  d == batch.values  e == batch.reward
           va == model["actor"].version  vc == model["critic"].version
           n == Position(step)
           Made(y, z, p, m) == (conf.lora => ~conf.dummy) /\ p \in Scored \cup {"sleep"} =>
                                  y = m /\ (p \notin {"sleep", "reward", "old_log_prob"} => z = y)
           Valued(u, p, m) ==
             /\ p \in {"advantage", "load_critic", "update_critic"} /\ conf.critic => u = m
             /\ p \in {"actor", "update_actor"} /\ conf.critic => u = m - 1
           Rewarded(r, p) == p \in {"load_critic", "update_critic", "actor", "update_actor"} => r = "done"
           Training1 == Rolling \cup Training
<1>0. /\ conf' = conf /\ Roles = {"actor", "critic"} /\ batch = BatchOf(a, b, c, d, e)
      /\ va \in Nat /\ vc \in Nat
  BY Frames, UpdatesAt DEF BatchInv, BatchOf, Roles, VersionInv, StageInv
<1>1. stage = "train" /\ pc \in Training1 => a = n /\ Made(b, c, pc, va) /\ Valued(d, pc, vc) /\ Rewarded(e, pc)
  BY DEF BatchInv, InHand
<1>2. ASSUME NEW x, NEW y, NEW z, NEW u, NEW r, batch' = BatchOf(x, y, z, u, r),
             stage' = "train" /\ pc' \in Training1 =>
               x = n /\ step' = step /\ Made(y, z, pc', va') /\ Valued(u, pc', vc') /\ Rewarded(r, pc')
      PROVE  BatchInv'
  <2>1. /\ batch' = [data |-> batch'.data, by |-> batch'.by, old |-> batch'.old, values |-> batch'.values,
                     reward |-> batch'.reward]
        /\ batch'.data = x /\ batch'.by = y /\ batch'.old = z /\ batch'.values = u /\ batch'.reward = r
    BY <1>2 DEF BatchOf
  <2>2. step' = step => Position(step') = n
    OBVIOUS
  <2> QED
    BY <1>0, <1>2, <2>1, <2>2 DEF BatchInv, InHand
<1>3. pc \notin {"update_actor", "update_critic", "load"} /\ ~Crash => va' = va /\ vc' = vc
  BY MemoryStep DEF UpdateActor, UpdateCritic, Load, Quiet, Same, Roles
<1>4. \A v : /\ [batch EXCEPT !.by = v] = BatchOf(a, v, c, d, e)
             /\ [batch EXCEPT !.old = v] = BatchOf(a, b, v, d, e)
             /\ [batch EXCEPT !.values = v] = BatchOf(a, b, c, v, e)
             /\ [batch EXCEPT !.reward = v] = BatchOf(a, b, c, d, v)
  BY <1>0, BatchOps, Zenon
<1>5. Nothing = BatchOf(0, None, None, None, "none") /\ Training1 = Rolling \cup Training
  BY DEF Nothing, BatchOf
<1> HIDE DEF a, b, c, d, e, va, vc, n, Training1
<1>6. ASSUME ~(stage' = "train" /\ pc' \in Training1), batch' = batch \/ batch' = Nothing
      PROVE  BatchInv'
  <2>1. CASE batch' = batch
    BY <1>0, <1>2, <1>6, <2>1
  <2>2. CASE batch' = Nothing
    BY <1>2, <1>5, <1>6, <2>2
  <2> QED
    BY <1>6, <2>1, <2>2
<1>7. ASSUME batch' = batch, step' = step, stage' = "train" => stage = "train" /\ pc \in Training1,
             stage' = "train" =>
               Made(b, c, pc', va') /\ Valued(d, pc', vc') /\ Rewarded(e, pc')
      PROVE  BatchInv'
  BY <1>0, <1>1, <1>2, <1>7
<1> USE DEF Scored, Rolling, Training
<1>8. CASE Boot \/ Load \/ Begin \/ EndEpoch \/ OutOfEpochs
  <2>1. batch' = batch
    BY <1>8 DEF Boot, Load, Begin, EndEpoch, OutOfEpochs
  <2>2. ~(stage' = "train" /\ pc' \in Training1)
    BY <1>5, <1>8 DEF Boot, Load, Begin, EndEpoch, OutOfEpochs, StageInv, Booting
  <2> QED
    BY <1>6, <2>1, <2>2
<1>9. CASE NextBatch
  <2>1. stage' = "train" /\ pc' = "wake" /\ loader' = loader + 1 /\ step' = step
    BY <1>9 DEF NextBatch, StageInv, Booting, Saving
  <2>2. batch' = BatchOf(loader + 1, None, None, None, "none")
    BY <1>9 DEF NextBatch, Nothing, BatchOf
  <2>3. LoaderInv'
    BY LoaderStep
  <2>4. loader' = Position(step')
    BY <2>1, <2>3 DEF LoaderInv, InHand
  <2>5. loader + 1 = n
    BY <2>1, <2>4 DEF n
  <2> QED
    BY <1>2, <2>1, <2>2, <2>5
<1>10. CASE Wake \/ Offload \/ Send
  <2>1. /\ batch' = batch /\ step' = step /\ stage' = stage /\ pc \in Rolling \ {"sleep"}
        /\ pc' \in Rolling \ {"sleep"}
    BY <1>10 DEF Wake, Offload, Send
  <2> QED
    BY <1>5, <1>7, <2>1
<1>11. CASE Generate
  <2>1. step' = step /\ stage' = stage /\ pc = "generate" /\ pc' = "sleep"
    BY <1>11 DEF Generate
  <2>2. va' = va
    BY <1>3, <2>1 DEF Crash
  <2>3. CASE stage = "train"
    <3>1. batch' = BatchOf(a, Policy, c, d, e)
      BY <1>4, <1>11, <2>3 DEF Generate
    <3>2. (conf.lora => ~conf.dummy) => Policy = va
      BY <2>1 DEF EngineInv, va
    <3> HIDE DEF Policy
    <3> QED
      BY <1>1, <1>2, <1>5, <2>1, <2>2, <2>3, <3>1, <3>2
  <2>4. CASE stage # "train"
    BY <1>6, <1>11, <2>1, <2>4 DEF Generate
  <2> QED
    BY <2>3, <2>4
<1>12. CASE Sleep
  <2>1. batch' = batch /\ pc = "sleep"
    BY <1>12 DEF Sleep
  <2>2. va' = va /\ vc' = vc
    BY <1>3, <1>12, <2>1 DEF Crash, Sleep
  <2>3. CASE stage = "train"
    <3>1. stage' = stage /\ step' = step /\ pc' = "reward"
      BY <1>12, <2>3 DEF Sleep
    <3> QED
      BY <1>1, <1>5, <1>7, <2>1, <2>2, <2>3, <3>1
  <2>4. CASE stage # "train"
    <3>1. pc' \in {"fetch", "save"}
      BY <1>12, <2>4 DEF Sleep, StageInv
    <3> QED
      BY <1>5, <1>6, <2>1, <3>1
  <2> QED
    BY <2>3, <2>4
<1>13. CASE Reward
  <2>1. /\ pc = "reward" /\ pc' = "old_log_prob" /\ stage' = stage /\ step' = step
        /\ \E r : batch' = [batch EXCEPT !.reward = r]
    BY <1>13 DEF Reward
  <2>2. va' = va /\ vc' = vc
    BY <1>3, <2>1 DEF Crash
  <2>3. PICK r : batch' = BatchOf(a, b, c, d, r)
    BY <1>4, <2>1
  <2> QED
    BY <1>1, <1>2, <1>5, <2>1, <2>2, <2>3
<1>14. CASE RewardDone
  <2>1. /\ pc' = pc /\ stage' = stage /\ step' = step /\ model' = model
        /\ batch' = [batch EXCEPT !.reward = "done"]
    BY <1>14 DEF RewardDone, hybridVars
  <2>2. va' = va /\ vc' = vc
    BY <2>1 DEF va, vc
  <2>3. batch' = BatchOf(a, b, c, d, "done")
    BY <1>4, <2>1
  <2> QED
    BY <1>1, <1>2, <1>5, <2>1, <2>2, <2>3
<1>15. CASE OldLogProb
  <2>1. /\ pc = "old_log_prob" /\ pc' \in {"values", "advantage"} /\ stage' = stage /\ step' = step
        /\ pc' = "advantage" => ~conf.critic
        /\ batch' = [batch EXCEPT !.old = IF conf.bypass THEN b ELSE va]
    BY <1>15 DEF OldLogProb, b, va
  <2>2. va' = va /\ vc' = vc
    BY <1>3, <2>1 DEF Crash
  <2>3. batch' = BatchOf(a, b, IF conf.bypass THEN b ELSE va, d, e)
    BY <1>4, <2>1
  <2> QED
    BY <1>1, <1>2, <1>5, <2>1, <2>2, <2>3
<1>16. CASE Values
  <2>1. /\ pc = "values" /\ pc' = "advantage" /\ stage' = stage /\ step' = step
        /\ batch' = [batch EXCEPT !.values = vc]
    BY <1>16 DEF Values, vc
  <2>2. va' = va /\ vc' = vc
    BY <1>3, <2>1 DEF Crash
  <2>3. batch' = BatchOf(a, b, c, vc, e)
    BY <1>4, <2>1
  <2> QED
    BY <1>1, <1>2, <1>5, <2>1, <2>2, <2>3
<1>17. CASE Advantage
  <2>1. /\ pc = "advantage" /\ stage' = stage /\ step' = step /\ batch' = batch /\ e = "done"
        /\ pc' \in {"load_critic", "actor"} /\ (pc' = "actor" => ~conf.critic)
    BY <1>17 DEF Advantage, e
  <2>2. va' = va /\ vc' = vc
    BY <1>3, <2>1 DEF Crash
  <2> QED
    BY <1>1, <1>5, <1>7, <2>1, <2>2
<1>18. CASE LoadCritic \/ LoadActor
  <2>1. /\ stage' = stage /\ step' = step /\ batch' = batch
        /\ (pc = "load_critic" /\ pc' = "update_critic") \/ (pc = "actor" /\ pc' = "update_actor")
    BY <1>18 DEF LoadCritic, LoadActor
  <2>2. va' = va /\ vc' = vc
    BY <1>3, <2>1 DEF Crash
  <2> QED
    BY <1>1, <1>5, <1>7, <2>1, <2>2
<1>19. CASE UpdateCritic
  <2>1. stage' = stage /\ step' = step /\ batch' = batch /\ pc = "update_critic" /\ pc' = "actor"
    BY <1>19 DEF UpdateCritic
  <2>2. va' = va /\ vc' = vc + 1
    BY <1>19, <2>1, MemoryStep DEF UpdateActor, Load, Crash, Quiet, CriticUpdated, va, vc
  <2>3. Valued(d, pc, vc) => Valued(d, pc', vc')
    BY <1>0, <2>1, <2>2
  <2> QED
    BY <1>1, <1>5, <1>7, <2>1, <2>2, <2>3
<1>20. CASE SkipActor \/ UpdateActor
  <2>1. stage' = "after" /\ batch' = batch
    BY <1>20 DEF SkipActor, UpdateActor, AfterUpdates
  <2> QED
    BY <1>6, <2>1
<1>21. CASE BeginSave \/ SaveData \/ SaveTracker
  <2>1. stage = "after" /\ stage' = stage /\ batch' = batch
    BY <1>21 DEF BeginSave, SaveData, SaveTracker, StageInv, Booting, Saving
  <2> QED
    BY <1>6, <2>1
<1>22. CASE \E role \in Roles : SaveRole(role) \/ RoleSaved(role)
  <2>1. stage = "after" /\ stage' = stage /\ batch' = batch
    BY <1>22 DEF SaveRole, RoleSaved, SavePlace, driverVars, StageInv, Booting, Saving
  <2> QED
    BY <1>6, <2>1
<1>23. CASE Advance \/ Crash
  <2>1. batch' = Nothing /\ pc' \in {"finished", "fetch", "down"}
    BY <1>23 DEF Advance, Crash
  <2> QED
    BY <1>5, <1>6, <2>1
<1>24. CASE UNCHANGED vars
  <2>1. pc' = pc /\ stage' = stage /\ step' = step /\ model' = model /\ batch' = batch
    BY <1>24 DEF vars, driverVars, hybridVars
  <2>2. va' = va /\ vc' = vc
    BY <2>1 DEF va, vc
  <2> QED
    BY <1>1, <1>6, <1>7, <2>1, <2>2
<1> QED
  BY <1>8, <1>9, <1>10, <1>11, <1>12, <1>13, <1>14, <1>15, <1>16, <1>17, <1>18, <1>19, <1>20,
     <1>21, <1>22, <1>23, <1>24 DEF Next, Driver

-----------------------------------------------------------------------------
\* Together
LEMMA Start == Init => SyncInv /\ WholeInv
<1> SUFFICES ASSUME Init PROVE SyncInv /\ WholeInv
  OBVIOUS
<1> USE DEF Init, CkptInit, WorkerStart, Absent
<1>1. StageInv
  BY DEF StageInv, Booting
<1>2. VersionInv
  <2>1. ActorUpdates(0) = 0
    BY <1>1, UpdatesAt
  <2> QED
    BY <2>1 DEF VersionInv, FreshModel
<1>3. LoaderInv /\ EpochInv
  BY Sizes DEF LoaderInv, EpochInv, InHand, Rolling
<1>4. LagInv /\ DiskInv /\ DataInv
  BY DEF LagInv, DiskInv, DataInv, Booting
<1>5. PlaceInv
  BY DEF PlaceInv
<1>6. PathInv
  BY DEF PathInv, Registered, SavePlace, Roles
<1>7. WholeInv
  BY DEF WholeInv, SavePlace
<1>8. EngineInv
  BY ConfFacts, <1>1 DEF EngineInv, GpuEngine, FreshEngine, Memory, Dummy, None
<1>9. MemoryInv
  BY DEF MemoryInv, GpuModel, FreshModel, Roles, Updating, Gathered
<1>10. RngInv
  BY DEF RngInv, FreshRng
<1>11. BatchInv
  BY DEF BatchInv, Nothing
<1> QED
  BY <1>1, <1>2, <1>3, <1>4, <1>5, <1>6, <1>7, <1>8, <1>9, <1>10, <1>11 DEF SyncInv

LEMMA Step == SyncInv /\ [Next]_vars => SyncInv'
<1> SUFFICES ASSUME SyncInv, [Next]_vars PROVE SyncInv'
  OBVIOUS
<1>1. /\ StageInv /\ VersionInv /\ LoaderInv /\ EpochInv /\ LagInv /\ DiskInv /\ DataInv
      /\ PlaceInv /\ PathInv /\ EngineInv /\ MemoryInv /\ RngInv /\ BatchInv
  BY DEF SyncInv
<1>2. StageInv' /\ VersionInv' /\ LoaderInv' /\ EpochInv' /\ LagInv'
  BY <1>1, StageStep, VersionStep, LoaderStep, EpochStep, LagStep, Zenon
<1>3. DiskInv' /\ DataInv' /\ PlaceInv' /\ PathInv'
  BY <1>1, DiskStep, DataStep, PlaceStep, PathStep, Zenon
<1>4. EngineInv' /\ MemoryInv' /\ RngInv' /\ BatchInv'
  BY <1>1, EngineStep, MemoryStep, RngStep, BatchStep, Zenon
<1> QED
  BY <1>2, <1>3, <1>4, Zenon DEF SyncInv

(* For every configuration, however often the job dies: the invariant.       *)
THEOREM SyncInvariant == Spec => []SyncInv
<1>1. Init => SyncInv
  BY Start
<1>2. SyncInv /\ [Next]_vars => SyncInv'
  BY Step
<1> QED
  BY <1>1, <1>2, PTL DEF Spec

LEMMA Whole ==
  ASSUME KeepsTwo
  PROVE  Spec => [](SyncInv /\ WholeInv)
<1>1. Init => SyncInv /\ WholeInv
  BY Start
<1>2. SyncInv /\ WholeInv /\ [Next]_vars => SyncInv' /\ WholeInv'
  <2>1. SyncInv /\ WholeInv /\ [Next]_vars => WholeInv'
    BY KeepsTwo, WholeStep DEF SyncInv
  <2> QED
    BY <2>1, Step
<1> QED
  BY <1>1, <1>2, PTL DEF Spec

(* The step counter, the weights, the batch and the train stream of the       *)
(* generator go together in the first process and in every resumed one, with   *)
(* every configuration (fit, _load_checkpoint).                               *)
THEOREM StepMatched == Spec => []StateMatchesStep
<1>1. SyncInv => StateMatchesStep
  <2> SUFFICES ASSUME SyncInv PROVE StateMatchesStep
    OBVIOUS
  <2>1. pc = "fetch" => \A role \in UsedRoles : model[role].version = Updates(role, step - 1)
    BY DEF SyncInv, StageInv, VersionInv, UsedRoles, Roles, Updates, Booting, Rolling, Training, Saving
  <2>2. pc \in {"wake", "actor"} /\ stage = "train" => batch.data = Position(step)
    BY DEF SyncInv, BatchInv, InHand, Rolling, Training
  <2>3. pc = "reward" => rng.device[2] = model["actor"].version + model["critic"].version
    BY DEF SyncInv, RngInv
  <2> QED
    BY <2>1, <2>2, <2>3 DEF StateMatchesStep
<1> QED
  BY <1>1, SyncInvariant, PTL

(* The engine's weights and cache are never in GPU memory with the             *)
(* parameters or an optimizer, weights are sent only to an engine that has      *)
(* room for them, and generation draws from a stream of its own, with every    *)
(* configuration (rollout_mode, trainer_mode, update_actor).                  *)
THEOREM MemoryApart == Spec => []ModesApart
<1>1. SyncInv => ModesApart
  <2> SUFFICES ASSUME SyncInv PROVE ModesApart
    OBVIOUS
  <2>1. ASSUME conf.offload, conf.freeCache, engine.awake # {}, NEW role \in Roles
        PROVE  model[role].params # "gpu" /\ model[role].optim # "gpu"
    <3>1. pc \in {"down", "generate", "sleep", "send"}
      BY <2>1 DEF SyncInv, EngineInv
    <3>2. ~Updating(role) /\ ~Gathered(role)
      BY <3>1 DEF Updating, Gathered
    <3> QED
      BY <2>1, <3>2 DEF SyncInv, MemoryInv, Place
  <2>2. pc = "send" => "weights" \in engine.awake
    BY DEF SyncInv, EngineInv, Memory
  <2>3. pc \in {"generate", "sleep"} => rng.device[1] # rng.train[1]
    BY DEF SyncInv, RngInv, TrainTag, GenTag
  <2> QED
    BY <2>1, <2>2, <2>3 DEF ModesApart
<1> QED
  BY <1>1, SyncInvariant, PTL

(* Every batch is generated and scored by the weights it then updates, and     *)
(* no prefix cached under older weights is used, whatever is reloaded or        *)
(* resent: rollout_mode and vLLMHttpServer.sleep.                             *)
THEOREM Policies ==
  ASSUME LoadsBase
  PROVE  Spec => []OnPolicy
<1>1. SyncInv => OnPolicy
  <2> SUFFICES ASSUME SyncInv PROVE OnPolicy
    OBVIOUS
  <2>1. conf.lora => ~conf.dummy
    BY LoadsBase DEF LoadsBase, SyncInv, StageInv
  <2>2. pc = "generate" => /\ Policy = model["actor"].version
                           /\ engine.cached \subseteq {Policy}
    BY <2>1 DEF SyncInv, EngineInv
  <2>3. pc = "update_actor" =>
          /\ batch.by = model["actor"].version /\ batch.old = batch.by
          /\ conf.critic => batch.values = model["critic"].version - 1
          /\ batch.reward = "done"
    BY <2>1 DEF SyncInv, StageInv, BatchInv, InHand, Scored, Booting, Rolling, Training, Saving
  <2> QED
    BY <2>2, <2>3 DEF OnPolicy
<1> QED
  BY <1>1, SyncInvariant, PTL

LEMMA Restorable ==
  ASSUME SyncInv, WholeInv, tracker > 0
  PROVE  Readable /\ DataSaved(tracker) /\ Loaded(tracker, "data") = Position(tracker)
<1>0. StageInv /\ DiskInv /\ DataInv
  BY DEF SyncInv
<1>1. ASSUME NEW role \in UsedRoles
      PROVE  {f.rank : f \in ShardsOf(tracker, role)} = Ranks
  <2>1. HasAll(role, tracker)
    BY DEF WholeInv
  <2>2. \A r \in Ranks : \E f \in ShardsOf(tracker, role) : f.rank = r
    BY <2>1 DEF HasAll, HasShard, In, ShardsOf
  <2>3. role # "data"
    BY DEF UsedRoles, Roles
  <2>4. \A f \in ShardsOf(tracker, role) : f.rank \in Ranks
    BY <1>0, <2>3, Zenon DEF DiskInv, ShardsOf
  <2> QED
    BY <2>2, <2>4
<1>2. Readable
  BY <1>1 DEF Readable, Complete
<1>3. HasShard(Lead, "data", tracker)
  BY <1>0 DEF DataInv
<1>4. DataSaved(tracker)
  BY <1>3 DEF HasShard, In, DataSaved, ShardsOf
<1> QED
  BY <1>0, <1>2, <1>3, <1>4, Chosen

(* The checkpoint the tracker names is whole and of one moment whenever the    *)
(* job dies, for every number of ranks and every limit but one on the           *)
(* checkpoints kept (_save_checkpoint, remove_previous_save_local_path).       *)
THEOREM AlwaysRecoverable ==
  ASSUME KeepsTwo
  PROVE  Spec => []Recoverable
<1>1. SyncInv /\ WholeInv => Recoverable
  <2> SUFFICES ASSUME SyncInv, WholeInv, tracker > 0
               PROVE  /\ Complete(tracker, UsedRoles)
                      /\ \A role \in UsedRoles : \A f \in ShardsOf(tracker, role) :
                           f.holds.version = Updates(role, tracker)
                      /\ DataSaved(tracker) /\ Loaded(tracker, "data") = Position(tracker)
    BY DEF Recoverable
  <2>1. Complete(tracker, UsedRoles) /\ DataSaved(tracker) /\ Loaded(tracker, "data") = Position(tracker)
    BY Restorable DEF Readable
  <2>2. ASSUME NEW role \in UsedRoles, NEW f \in ShardsOf(tracker, role)
        PROVE  f.holds.version = Updates(role, tracker)
    <3>1. f \in disk /\ f.role = role /\ f.step = tracker /\ role # "data"
      BY DEF ShardsOf, UsedRoles, Roles
    <3>2. f.holds = [version |-> Updates(role, tracker), rng |-> <<TrainTag, Drawn(tracker)>>]
      BY <3>1, Zenon DEF SyncInv, DiskInv
    <3> QED
      BY <3>2
  <2> QED
    BY <2>1, <2>2
<1> QED
  BY <1>1, Whole, PTL

(* A job started again after any death finds a checkpoint it can load, or      *)
(* none, when more than one checkpoint is kept.                                *)
THEOREM AlwaysResumable ==
  ASSUME KeepsTwo
  PROVE  Spec => []Resumable
<1>1. Init => Resumable
  BY DEF Init, Resumable
<1>2. SyncInv /\ WholeInv /\ Resumable /\ [Next]_vars => Resumable'
  <2> SUFFICES ASSUME SyncInv, WholeInv, Resumable, [Next]_vars PROVE Resumable'
    OBVIOUS
  <2> USE DEF Resumable
  <2>1. CASE Load
    <3>1. tracker = 0 \/ Readable
      BY Restorable DEF SyncInv, StageInv
    <3> QED
      BY <2>1, <3>1 DEF Load, FromScratch, Absent
  <2>2. CASE Boot \/ Begin \/ NextBatch \/ EndEpoch \/ OutOfEpochs \/ Wake \/ Offload \/ Send \/ Generate
    BY <2>2 DEF Boot, Begin, NextBatch, EndEpoch, OutOfEpochs, Wake, Offload, Send, Generate
  <2>3. CASE Sleep
    BY <2>3 DEF Sleep, SyncInv, StageInv
  <2>4. CASE Reward \/ RewardDone \/ OldLogProb \/ Values \/ Advantage \/ LoadCritic \/ UpdateCritic \/ LoadActor
    BY <2>4 DEF Reward, RewardDone, OldLogProb, Values, Advantage, LoadCritic, UpdateCritic, LoadActor
  <2>5. CASE SkipActor \/ UpdateActor \/ BeginSave \/ SaveData \/ SaveTracker \/ Advance \/ Crash
    BY <2>5 DEF SkipActor, UpdateActor, AfterUpdates, BeginSave, SaveData, SaveTracker, Advance, Crash
  <2>6. CASE \E role \in Roles : SaveRole(role) \/ RoleSaved(role)
    BY <2>6 DEF SaveRole, RoleSaved, driverVars
  <2>7. CASE UNCHANGED vars
    BY <2>7 DEF vars, driverVars
  <2> QED
    BY <2>1, <2>2, <2>3, <2>4, <2>5, <2>6, <2>7 DEF Next, Driver
<1> QED
  BY <1>1, <1>2, Whole, PTL DEF Spec

-----------------------------------------------------------------------------
\* The refinement: what each step does to the progress and what is durable
LEMMA Reached ==
  ASSUME SyncInv, WholeInv
  PROVE  /\ Durable = tracker
         /\ Progress = IF pc \in Booting THEN tracker ELSE ActorStep
<1>1. Durable = tracker
  <2>1. tracker \in Nat
    BY DEF SyncInv, StageInv
  <2>2. tracker > 0 => Readable /\ DataSaved(tracker)
    BY Restorable
  <2>3. tracker = 0 => ~Readable
    BY DEF Readable
  <2> QED
    BY <2>1, <2>2, <2>3 DEF Durable
<1> QED
  BY <1>1 DEF Progress, TrainedSteps, ActorStep, Booting

LEMMA RunStep ==
  ASSUME SyncInv, WholeInv, SyncInv', WholeInv', [Next]_vars
  PROVE  [Abstract!Next]_(Abstract!runVars)
<1> DEFINE p == Progress  d == Durable
<1>1. d = tracker /\ p = IF pc \in Booting THEN tracker ELSE ActorStep
  BY Reached
<1>2. d' = tracker' /\ p' = IF pc' \in Booting THEN tracker' ELSE ActorStep'
  <2>1. (SyncInv /\ WholeInv => d = tracker /\ p = IF pc \in Booting THEN tracker ELSE ActorStep)'
    BY Reached, PTL
  <2> QED
    BY <2>1 DEF Booting
<1> HIDE DEF p, d
<1>3. StageInv /\ EpochInv /\ LagInv /\ StageInv'
  BY DEF SyncInv
<1>4. ASSUME SkipActor \/ UpdateActor PROVE Abstract!Step
  <2>1. /\ stage = "train" /\ pc \in Training /\ stage' = "after" /\ step' = step /\ tracker' = tracker
        /\ pc' \in {"wake", "save"}
    BY <1>3, <1>4 DEF SkipActor, UpdateActor, AfterUpdates, ckptVars, StageInv, Booting, Saving, Training, Rolling
  <2>2. p = step - 1 /\ p' = step /\ d = tracker /\ d' = tracker
    BY <1>1, <1>2, <2>1 DEF ActorStep, Booting, Training
  <2>3. step <= EpochLen * Epochs /\ (step - 1) - tracker <= (step - 1) % SaveFreq
    BY <1>3, <2>1 DEF EpochInv, LagInv, InHand
  <2>4. step \in Nat /\ step > 0 /\ tracker \in Nat /\ EpochLen * Epochs \in Nat
    BY <1>3, <2>1, Sizes DEF StageInv
  <2>5. (step - 1) % SaveFreq \in 0..(SaveFreq - 1)
    BY <2>4, Sizes, DivMod
  <2>6. p < EpochLen * Epochs /\ p - d < SaveFreq /\ p' = p + 1 /\ d' = d
    BY <2>2, <2>3, <2>4, <2>5, Sizes
  <2> QED
    BY <2>6 DEF Abstract!Step, p, d
<1>5. ASSUME SaveTracker PROVE Abstract!Save
  <2>1. pc = "save_tracker" /\ pc' = "advance" /\ stage = "after" /\ stage' = stage /\ step' = step /\ tracker' = step
    BY <1>3, <1>5 DEF SaveTracker, WriteTracker, StageInv, Booting, Training, Rolling
  <2>2. p' = p /\ d' = p
    BY <1>1, <1>2, <2>1 DEF ActorStep, Booting
  <2> QED
    BY <2>2 DEF Abstract!Save, p, d
<1>6. ASSUME Crash PROVE Abstract!FallBack
  <2>1. pc' = "down" /\ tracker' = tracker
    BY <1>6 DEF Crash, ForgetPaths
  <2>2. p' = d /\ d' = d
    BY <1>1, <1>2, <2>1 DEF Booting
  <2> QED
    BY <2>2 DEF Abstract!FallBack, p, d
<1>7. ASSUME Load PROVE p' = p /\ d' = d
  <2>1. /\ pc = "load" /\ stage = "first" /\ stage' = stage /\ tracker' = tracker /\ step = 0
        /\ \/ tracker = 0 /\ step' = step
           \/ pc' = "failed"
           \/ step' = tracker
    BY <1>3, <1>7 DEF Load, FromScratch, Absent, ckptVars, StageInv, Training, Saving
  <2> QED
    BY <1>1, <1>2, <2>1 DEF ActorStep, Booting
<1>8. ASSUME Boot PROVE p' = p /\ d' = d
  BY <1>1, <1>2, <1>8 DEF Boot, ckptVars, Booting
<1>9. ASSUME ~(Load \/ Boot \/ Crash \/ SaveTracker \/ SkipActor \/ UpdateActor)
      PROVE  p' = p /\ d' = d
  <2>1. tracker' = tracker
    BY <1>9, Frames
  <2>2. (pc \in Booting <=> pc' \in Booting)
    BY <1>3, <1>9 DEF Next, Driver, Begin, NextBatch, EndEpoch, OutOfEpochs, Wake, Offload, Send, Generate,
       Sleep, Reward, RewardDone, OldLogProb, Values, Advantage, LoadCritic, UpdateCritic, LoadActor,
       BeginSave, SaveRole, RoleSaved, SaveData, Advance, driverVars, vars, Booting, StageInv, SavePlace
  <2>3. ActorStep' = ActorStep
    <3>1. CASE UpdateCritic
      BY <3>1 DEF UpdateCritic, ActorStep
    <3> QED
      BY <1>3, <1>9, <3>1, QuietSteps
  <2> QED
    BY <1>1, <1>2, <2>1, <2>2, <2>3
<1> QED
  BY <1>4, <1>5, <1>6, <1>7, <1>8, <1>9 DEF Abstract!Next, Abstract!runVars, p, d

(* The trainer implements TrainingRun for every number of ranks, epochs and    *)
(* save interval: whenever the job dies it comes back to the step whose         *)
(* tracker was written last, never more than a save interval back.            *)
THEOREM TrainerRefinesRun ==
  ASSUME KeepsTwo
  PROVE  Spec => ImplementsTrainingRun
<1>1. Init => Abstract!Init
  BY DEF Init, CkptInit, Absent, Abstract!Init, Progress, Durable, Readable
<1>2. SyncInv /\ WholeInv /\ SyncInv' /\ WholeInv' /\ [Next]_vars => [Abstract!Next]_(Abstract!runVars)
  BY RunStep
<1> QED
  BY <1>1, <1>2, Whole, PTL DEF Spec, Abstract!Spec, ImplementsTrainingRun
=============================================================================
