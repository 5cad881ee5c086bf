# Verification of faithful-cot's training system

faithful-cot trains and evaluates models whose answers depend on their chain of thought.
Its training code (`src/train/verl`) is a fork of VERL: generation and training on shared or
separate GPUs, synchronous, one step apart, or fully asynchronous; rewards computed by programs
in containers; and, this project's own part, a structural masking and a perturbation of
prompts during updates. This directory holds TLA+ models of the parts in which steps
of several actors interleave, fail or follow each other in an order that matters, the runs that
check them with TLC, and theorems checked with TLAPS.

Unless they start with `src/`, paths are relative to `src/train/verl`; `FA` stands for
`experimental/fully_async_policy`. `PROJECT.json` maps each definition to the lines it models.

## 1. The system

| Component | State | Operations | Hard behaviour | Correct when |
|---|---|---|---|---|
| MessageQueue, a Ray actor (`FA/message_queue.py`) | a bounded deque, the validation queue, `running`, counters, an asyncio condition | put, get, clear, shutdown, put and get of reports | consumers asleep, a full deque, shutdown | samples come in order, once, and only the oldest are lost; nobody sleeps over a sample |
| FullyAsyncRollouter, a Ray actor (`FA/fully_async_rollouter.py`) | `pending_queue`, `cancel_queue`, `active_tasks`, `paused`, `staleness_samples`, a lock and its condition | feeder, processor, a task per sample, monitor; `pause`, `update_param_version`, `resume` from outside | six kinds of coroutines on one lock; checks made before a wait and used after it | limits hold, nothing is generated during a synchronization, every sample ends somewhere, nobody sleeps for good |
| FullyAsyncTrainer (`FA/fully_async_trainer.py`, `FA/ray_trainer.py`) | batch, step counter, versions, snapshots of weights | `fit`, synchronization, validation, old log probabilities by older weights | an event loop blocked by `ray.get`; weights exchanged and put back | samples trained on soon enough, reports logged in order, no update lost, `fit` returns |
| ParameterSynchronizer (`FA/param_sync.py`) | `current_version`, two pending futures | `sync_weights`, `wait_last_valid` | submits two calls without waiting | synchronizations do not overlap |
| Weight transfer workers (`FA/checkpoint_engine.py`, `FA/fsdp_workers.py`) | buckets in CPU memory, two halves of a buffer, a loader thread | register, broadcast in turns, load | ranks that count the turns for themselves; loading while receiving | every tensor arrives whole and of one version |
| Streaming checkpoint engines (`checkpoint_engine/`) | two buffers per process, messages, notifications | `send_weights`, `receive_weights` | a buffer filled, read by another process and handed out at the same time | tensors are handed out in order, whole |
| Partial agent loops and servers (`FA/agent_loop/`, `FA/vllm_rollout/`) | text, mask and state of a trajectory; output and cancel event of a request | generate, interrupt, resume, call tools | an interruption at any token, by two calls in either order | the text reads as if uninterrupted, and what is recorded of it is right |
| CoT masking and the actor (`utils/cot_masking.py`, `workers/actor/dp_actor.py`) | one attribute that overrides the masking, forward hooks | find regions, mask, perturb, update | delimiters of several tokens; exceptions between override and restoration | masks agree with the regions, every update is masked, only its prompt is perturbed |
| Synchronous trainer and hybrid workers (`trainer/ppo/ray_trainer.py`, `workers/fsdp_workers.py`, vLLM server) | step, epoch, dataloader; parameters, optimizer, engine, cache, two random streams | `fit`, rollout and trainer mode, sleep and wake-up | memory shared by two modes, crashes and restarts | generation and update use the weights they should, no step is lost or repeated |
| One-step-off trainer (`experimental/one_step_off_policy`) | the batch generated ahead, an iterator ahead of training | await, transfer, clear the cache, generate ahead | two activities on one set of engine weights; restarts | no token mixes versions, batches are one step behind and in order |
| Checkpoint managers (`utils/checkpoint`) | folders, shards, tracker, list of saved paths | save, register, remove, load | a crash between any two steps, ranks between barriers | there is always something whole to resume from |
| Reward loop (`experimental/reward_loop`) | token buckets, a semaphore, an executor | `run_single` with limits and timeout | requests larger than a bucket; a timeout whose thread goes on | rates hold, every request is answered |
| Persistent containers (`src/train/custom_code_reward_udocker_persistent.py`) | names known, a lock and a counter per process; containers of the node | choose, create, run | processes that share names but not locks; slow and failing `udocker` | programs run only in containers that exist |
| Single controller, DataProto, balancing (`single_controller`, `protocol.py`, `utils/seqlen_balancing.py`) | none that lasts | dispatch, split, balance, pad, restore, collect | orders undone elsewhere; collectives that all must join | each row comes back in its place, nobody waits alone |
| Advantages (`trainer/ppo/core_algos.py`) | none | GAE, GRPO, pass@k | observations and rejected tokens between tokens | only outcomes of the prompt and unmasked tokens count |

The Rollouter puts samples into the queue and the trainer takes them out. Every
`trigger_parameter_sync_step` batches the synchronizer calls `pause()` on the Rollouter,
which waits for its tasks (or, with `partial_rollout`, interrupts them); has the workers transfer the
weights; submits `update_param_version()` and `resume()` without waiting, and returns.
Interrupted samples are continued under the new weights. The Rollouter also pauses itself, and
its monitor resumes it. In the synchronous trainers one driver calls worker groups through the
single controller; hybrid workers switch between training and generation. Sample assembly and
metrics, reward functions, tools, the vision-language-action experiment and the evaluation scripts
are components too; section 6 says why they are not modelled.

## 2. Modules

| Module | Models |
|---|---|
| `MessageQueue`, `MessageQueueClients` | the queue actor, one operator per method; with a producer, any consumers, `clear_queue` and `shutdown` at any time |
| `Rollouter`, `FullyAsync` | the Rollouter's event loop, which uses `MessageQueue`; trainer and synchronizer, and the pipeline as a whole |
| `Validation` | reports, the trainer's own validation, and which actor's event loop is blocked while |
| `WeightTransfer` | the buckets of a transfer, all ranks and loader threads |
| `ActorWeights` | the trainer's weights and their snapshots, with the storages they share |
| `Synchronization` | `Validation` with what a synchronization consists of: `ActorWeights` and `WeightTransfer` |
| `TokenStream`, `PartialRollout` | abstract: what the text of a trajectory may do; detailed: one sample token by token through pause, synchronization and resume |
| `CotMasking`, `DpActor` | regions, attention and gradient masks; the actor's calls with the override, hooks and exceptions |
| `HybridWorker`, `Checkpoint`, `SyncTrainer` | a hybrid worker; files and managers; the synchronous trainer that uses both, with crashes |
| `TrainingRun` | abstract: what a run of steps, saves and crashes promises |
| `OneStepOff` | the one-step-off trainer with its engine and restarts |
| `WeightStream`, `StreamingEngine`, `RingEngine`, `BroadcastEngine` | abstract: what a checkpoint engine promises; what both engines share; the NIXL chain; the NCCL broadcast |
| `RateLimiter`, `ContainerPool`, `RewardLoop` | a token bucket; the containers; scoring, which uses both |
| `SeqlenBalancing`, `Advantages`, `DataDispatch` | partitions and micro batches; estimators; a call to a worker group and back |
| `...Proofs` | theorems (section 5) |
| `MC...` | instances for TLC |

`MCMessageQueue`, `MCOneStepOff` and `MCResponses` are sums: a behaviour is one of the independent systems
they extend, chosen at the start, while the others stay in their initial states. Their
properties speak of the part they are about.

### How state and actions correspond to the code

`MessageQueue`. `queue`, `open`, `produced`, `consumed`, `dropped` are `self.queue`,
`self.running` and the counters. `caller[c]` says where consumer `c` is in `get_sample`:
outside, asleep, or woken. `put_sample` has no await inside its lock, so it is one
action; `get_sample` is `WaitForSample`, `TakeSample` and `ReturnNone`. A woken consumer looks
again, as the `while` does.

`Rollouter`. A coroutine gives up the event loop only where it suspends: `loop` names the one
between two suspensions, and no step of another one comes in between. `lock` is the asyncio
lock, holder first. `ppc` is the place in `_processor_worker`; its three drain loops are
one set of actions with `why` for the loop. `gen` and `putting` are the tasks of
`active_tasks` that generate or whose put is under way. `update_param_version` has a remote call between the
terms of its sum, so it is several actions with `counted` as the partial sum. A
sample is a number; 0 is `None`, `Total + 1` the string `"DONE"`.

`FullyAsync`, `Validation`, `Synchronization`. `tpc` and `fit` are the place in the trainer's `fit`. A
PPO step is one action in the first; in the last it is `TrainWeights`, with the exchange of weights
around old log probabilities. A transfer is `BeginTransfer`, the steps of `WeightTransfer`, and
`EndTransfer`. A call to an actor whose event loop is in `ray.get` stays submitted.

`WeightTransfer`. `pc[r]`, `turn[r]`, `gidx[r]` are a rank's place and counters in
`update_checkpoint`; `sent` is what was broadcast, `buffer[r]` the two halves, `loader[r]` the
thread with the tensors it still has to load, `replied[r]` its answer on the socket.

`PartialRollout`. A token is its kind and the version that made it. `response` is `prompt_ids`
after the initial prompt; `reqOutput`, `cancelSet`, `ended` are the server's output, cancel
events, and handles that are done. The two `cancel` calls of a pause arrive in either order.

`CotMasking`, `DpActor`. The code treats the sequences of a batch independently, so that a
batch is one. Masks are sets of positions, attention is a set of pairs, as the code
computes them; the reference in the properties is written with occurrences of the delimiter.
`forward` is the last call of the model, with its attention and the positions perturbed; every
call may raise, after which the `finally` clauses run.

`SyncTrainer`. `pc` is the driver's place in `fit`; `batch` holds which weights made which part
of the batch. `model`, `engine`, `rng` are what a worker has where; `disk` and `tracker` survive a
crash, `saved` (the manager's list) does not. A save is a step per rank and role, between the
two barriers of `save_checkpoint`; `Crash` may come between any two steps.

`OneStepOff`. `future` is `batch_data_future`, a generation that goes on a token at a time while
the driver trains; `weights` is the version of each tensor of the engine, `cached` the versions
behind the prefix cache.

`StreamingEngine`. `half` is which buffer is `send_buf`, `buffers` the tensor at each place of
both. In `RingEngine` a transfer copies tensor after tensor while both processes go on;
`announced` and `notified` are the operations and their notifications. In `BroadcastEngine` `op` is
the thread of a rank's `BroadcastOperation`; what a receiver's buffer holds from its call until the
data is there is garbage.

`RewardLoop`. Time is counted in ticks in which a limiter gains one; `sleep` is what is
left of a request's `asyncio.sleep`. `at` is a thread's place in `execute_code_with_udocker`; a
request whose `wait_for` gave up is answered while its thread goes on.

`DataDispatch`. A row is its position in the batch the driver began with, so that its
result tells which row it is of. A forward pass is a collective that all workers of the
mesh must begin. Partitions are computed by the Karmarkar-Karp method itself.

## 3. Runs

Sizes are small, chosen so that what a run is about happens. `Total`, `MaxSamples`,
`Steps`, `MaxFailures`, `MaxErrors`, `MaxCrashes`, `MaxTokens`, `Syncs`, `MaxTrigger`, `MaxMissed`
and the lengths are bounds of the instances; the theorems of section 5 have no value of them fixed.

| Run | States | Bounds, and what they let happen | Shows |
|---|---|---|---|
| `message_queue` | 101,826 | two consumers, a queue of two, five samples; or five training steps in three settings of validation, two actors and a rollout worker, four tensors of sizes 1, 2, 1, 2 in buckets of two, with and without overlap | `NewestInOrder`, `NoLostWakeup`, `ShutdownReleases`; `WeightsWhole`, `OldPolicy`, `Reported`, `FitReturns` |
| `pipeline_partial` | 1,888,318 | partial rollout, two tasks at a time, five samples: the least for which the processor's extra sample exceeds the budget | one place per sample, versions in order and not too old, limits, condition discipline (`OnePlace`, `VersionsInOrder`, `VersionLag`, `InFlightBounded`, `SleepsOnlyWhilePaused`) |
| `pipeline_waiting` | 29,853 | without partial rollout; a batch of two, staleness 1, one task raises | nothing generated during a transfer but what the monitor has let in behind `pause()`, finished samples trained on, the trainer returns (`NoGenerationDuringSync`, `AllDelivered`, `Terminates`) |
| `partial_tool` | 247,003 | a tool agent through two synchronizations; five tokens of response and one more of context: a tool call with its answer and a turn after it, a response cut, a full context, a call that an interruption divides | `ImplementsStream`, `Recorded`, `SampleCompletes` |
| `partial_mixed` | 149,914 | a tool and a single-turn agent in one sample | `NoTokenDuringSync`, `PauseHarmless` |
| `sync_trainer` | 652,232 | five configurations (LoRA, sleep level, offloading, critic, checkpoints kept, warm-up), six steps in three epochs, two ranks, two crashes: one of them while resuming from the other | `Recoverable`, `OnPolicy`, `StateMatchesStep`, `ModesApart`, `ImplementsTrainingRun`, `Finishes` |
| `one_step_off` | 236,622 | six steps in two epochs, two crashes, tensors of two versions in the engine; or a transfer to three receivers of four tensors in three buckets, so that both buffers of every process are used again, with receiver 2 in time or a message late; or an actor's calls: both ways of finding the delimiter, all padded sequences of two prompt and three response tokens over three, a delimiter of two tokens, perturbation off, random, by PGD steps, with an auxiliary loss | `OneStepBehind`, `TrainedInOrder`; `HandedInOrder`; `Finishes`; `MasksAgree`, `UpdateMasked`, `PerturbationConfined` |
| `responses` | 777,688 | three requests in two processes, request and token limits with a request larger than its bucket, two containers, the name of one within the other's, one failing call, time-outs at any moment; or a call with up to eight rows of two lengths, two ranks of two workers, mini batches of three rows, two prompts with two responses each, any tokens of which are rejected | `RateBound`, `ExistsWhenUsed`, `Answered`; `RowsReturned`, `NobodyLeftBehind`, `OutcomeCredit`, `ObservationsSkipped` |

`FitReturns` also says that no rank stays behind in a transfer, since `fit` waits for all.
`StateMatchesStep` and `TrainedInOrder` hold through restarts; what a restart may cost is
`TrainingRun`'s to say. `ImplementsTrainingRun`, `ImplementsStream` and `HandedInOrder` are refinements
(section 4).

Four runs end in a counterexample, a disagreement of code and documentation that `PROJECT.json` quotes:

| Run | What happens |
|---|---|
| `fact_unpadded` | `_forward_micro_batch` perturbs in its branch for padded input only. With `use_remove_padding`, as the scripts of the FACT method set it, no pass of an update is perturbed (`UpdatePerturbed`). |
| `keep_one` | With one checkpoint to keep, the actor's previous one is removed when the new actor folder is complete, but critic, data and tracker are still to be written. Dying in between, the job finds the tracker naming a folder that is gone (`Resumable`). |
| `stale_share` | The trainer does not wait for `update_param_version` (`FA/param_sync.py:131`) and takes the stale samples before they are counted (`FA/fully_async_rollouter.py:238`). The Rollouter makes a full budget again, and more samples of a later interval are stale than `staleness_threshold` allows (`StaleShare`). It takes a third batch: with `Total = 4`, as in `pipeline_waiting`, it does not happen. What does hold is `VersionLag`, a bound on how stale a sample is. |
| `monitor_race` | The monitor decides to resume, waits for the lock behind `pause()`, and clears `paused` without deciding again (`FA/fully_async_rollouter.py:711`). The processor is let in during the transfer and adds a task, which `FA/README.md:237` excludes (`NoNewTasks`). What does hold is `NoGenerationDuringSync`: the tasks of before have all been waited for. |

### Fairness

Liveness is checked with the fairness the code's scheduling gives, each part in its own branch where
a module is a sum.

- `message_queue`: asyncio resumes a notified waiter; the trainer's `fit`, the remote calls it
  submits and the loader threads go on while they can (weak fairness).
- `pipeline_waiting`: asyncio serves its ready queue in order, so a coroutine that can run again and
  again does run, although others hold the loop in between: strong fairness of each coroutine;
  a Ray call submitted is executed; a generation ends. No fairness makes a task fail.
- `partial_tool`, `partial_mixed`: remote calls are served, coroutines go on, the engine
  generates (weak fairness); nothing obliges the trainer to ask for a synchronization.
- `sync_trainer`, `one_step_off`: the driver, the workers it waits for and whoever starts a dead job again
  go on; nothing obliges a job to die. The engines: each process, and each
  transfer of the chain.
- `responses`: time passes, and each request's coroutine and thread goes on. A `udocker` call ends, for the code
  gives it a timeout.

`CHECK_DEADLOCK FALSE` stands where a behaviour comes to its end: the trainer has returned, the sample
is delivered, all requests are answered, the call is over. The pipeline runs check
for deadlock; their last states are stuttering steps of their own.

### Behaviours no run is kept for

The models show more. A reader gets each of them by checking the property named, or by changing one constant;
a property above that would fail names the exception, unless the text says that it is checked without it.

The asynchronous pipeline:

- `pause()` empties `active_tasks` while the processor waits for the lock in a drain loop it enters
  for the first time: the `for` over `done_tasks` raises `UnboundLocalError`
  (`FA/fully_async_rollouter.py:548`), and the rollout ends early. The comment (line 505) says that it may be empty.
- The monitor's race (`monitor_race`) has two consequences. A sample let in behind `pause()` may be generated by
  weights that change meanwhile and be put after samples of the next version: without partial rollout `VersionsInOrder`
  fails. It and `VersionLag` are checked with partial rollout, and proved where `Undisturbed` holds; of `VersionLag` TLC
  finds no counterexample at the sizes of `monitor_race` either. With partial rollout the servers refuse it, but it was
  handed the version of before: `Recorded` allows the recorded span to end one version early for a sample let in that
  way (`raced`), and only for it.
- With partial rollout everything may stop: a pause interrupts `max_required_samples` samples, all are
  counted as stale, the processor waits on the count (line 497) before it looks into
  `cancel_queue`, and the trainer waits for a sample (`NoStall`).
- A sample interrupted while the processor waits for `active_tasks` at `"DONE"` stays in `cancel_queue`
  (`AllDelivered` with partial rollout).
- The staleness count misses the one sample the processor holds (line 238), so that the budget of
  `FA/README.md:139` is exceeded by one (`RolloutBudget`); `InFlightBounded` is the bound that holds.
- A tool call that straddles an interruption, or is complete before it, is not made: only the tokens after the
  resumption are searched (`FA/agent_loop/partial_tool_agent_loop.py:206`), and the trajectory ends where one that
  nobody interrupts goes on. `CallsAnswered`, which says that an agent never stops on an unanswered call, holds with
  `Syncs = 0` and fails with one synchronization. `TokenStream` states the difference (section 4).
- With `parallel_validate_and_rollout` and `use_trainer_do_validate` the Rollouter raises
  `AttributeError` (line 285); a final synchronization with `use_trainer_do_validate` waits for a call to
  the trainer's own blocked event loop; metrics of two versions may be merged (`FA/fully_async_trainer.py:578`).
- Validated beside the rollout at a frequency above one, a version that is not validated is reported at once, before
  an earlier one that still is (`FA/fully_async_rollouter.py:270`, 281), and `Reported` fails.
- With `param_offload` (`Offload = TRUE`) `OldPolicy` fails: weights already in CPU memory are
  "copied" into the same storage (`FA/fsdp2_utils.py:57`), so that putting the old ones into the model
  overwrites the saved new ones.

Synchronous and one-step-off training:

- A checkpoint saved after an epoch's last batch is resumed in that epoch, which yields nothing more;
  the restart's first epoch is lost to it. With `total_training_steps` below the epochs' batches, a
  restart after the last step makes one step more.
- A checkpoint manager knows the checkpoints of its own process only: those of dead ones are never removed.
  A tracker cut off between its open and its write cannot be read.
- The first sleep stores the engine's own random stream over the one seeded for generation.
- After a restart the one-step-off iterator counts its epochs anew and may be exhausted; the `None`
  it returns cannot be unpacked, and the job is started again (`pc = "failed"`).
- A `SUB` socket that subscribes late misses the first names of an NCCL transfer, and its receiver takes all
  later ones for the bucket before. `HandedInOrder` promises nothing to the receivers that may be late (`Late`) and
  says that the others do not suffer; a late one does not join the last collective, in which the group may
  then wait for good: `Finishes` leaves this case out.

Masks and losses:

- In special token mode the whole sequence is searched (`utils/cot_masking.py:148`). If the prompt has the token
  and the response has not, the prompt's tokens behind it are answer tokens too and may attend to nothing, not even
  themselves: a softmax over nothing. `MasksAgree` names them (`Strays`) and says that no other row is empty.
  Substring mode searches the response only.
- A response without a delimiter is all answer and cut off from the prompt, as
  `utils/cot_masking.py:102` says; its header (line 7) and its test (line 622) say the opposite.
- The path without padding applies no attention mask, whatever `use_cot_masking` says
  (`RemovePadding = TRUE`); the scripts that mask do not use it.
- `pep_attack_answer_only` looks for the special token in substring mode too (`workers/actor/dp_actor.py:532`),
  and its loss is then zero; of several PGD steps only the last direction counts (line 557); the
  auxiliary pass lies outside the gradient mask. These are numerical and not in the model.
- An outcome that sits on a masked last token is lost to GAE; REINFORCE++ resets its return at
  observations (`trainer/ppo/core_algos.py:626`).

Rewards:

- A thread whose request timed out goes on and no longer counts for `max_concurrent`. Limits are per
  process, although `limited.py` speaks of all workers.
- A container's name is searched as text in the output of `udocker ps` (line 126), and `name-1` is found in
  `name-10`, as in the default pool of 64: a program may be run in a container that is not there. `ExistsWhenUsed` is
  checked with such a pair (`NamePrefixes`) and allows it only when the other container is there. A container is also
  used before another process has finished setting it up.

## 4. Abstract specifications

`TokenStream` says what partial rollout promises: a trajectory's text, with what the server has
generated and not yet returned, grows a token at a time at its end; no part is lost, repeated or
changed; a turn that is over is not generated further; the agent answers a turn with a call in it, if there is room,
and stops only when the response is full or a turn is over that it does not answer; text is cut only when it stops. It
has no pauses, servers, versions or saved states, and is what `ToolAgentLoop` does, but for one variable: `cut` is where
the tokens begin in which calls are looked for. Without an interruption that is where the turn begins. An interruption
(`Interrupt`) sets it to the end of the text and changes nothing else. `PartialRollout` implements it
(`ImplementsStream`) under `text = response \o` the server's output, `over = completed` and `cut = RequestStart`; of all the
steps of an interruption only the one that returns the request is not a stutter (proved).

`TrainingRun` says what training promises across deaths: one step after another, a death takes the run back to the
step made durable last and no further, and it is never more than a save interval ahead of it. `SyncTrainer`
implements it (`ImplementsTrainingRun`), with `durable` the step a restart would load at
this moment, read off the files. It is proved for every configuration that keeps more than one checkpoint.

`WeightStream` says what a checkpoint engine promises: the generator's tensors are taken one by one, and
each receiver is handed the same ones in the same order. `RingEngine` and `BroadcastEngine` implement
it (`HandedInOrder`), both proved, the second for the receivers that subscribe in time. Buckets, buffers and messages
are not in it.

## 5. Proofs

The theorems hold for every value of the constants that satisfies the named assumptions of the
modules: sizes are positive, `MaxQueueSize = MaxRequired` (as `fully_async_main.py` sets it), the
pipeline's queue has one consumer, a tensor fits into a bucket, and so on. Further
hypotheses are named in the theorem. A module of proofs may cover several modules of the model.

`FullyAsyncProofs`, in every mode unless a condition is named: partial rollout or not, failing tasks, the monitor's race

| Theorem | Argument |
|---|---|
| `TypeCorrect` | the type of `active_tasks` needs that the processor really holds a sample where it submits one (`HeldInv`), that of the batch needs `BatchInv`, that of the lock needs that `pause` and `update_param_version` own it while they wait (`LockInv`); `TypeInv` is the conjunction |
| `NoLostResume` | the processor sleeps only while `paused`: whoever clears it also notifies |
| `BoundedTasks` | `SlotInv`: at every place between the check of the limit and the addition of the task there is room for it, because only the processor adds tasks |
| `BoundedStaleness`, `BoundedInFlight` | `BudgetInv`: the samples in tasks, `cancel_queue` and the queue never exceed `staleness_samples` but for the held one, also in the middle of the recount |
| `SamplesInOnePlace` | `PlaceInv`: no two of the nine places share a sample, and the three sequences repeat none. The finish signal, which goes through the queue too, is sent once. |
| `WeightsAtRest` | without a condition. With partial rollout the servers refuse requests from `pause()` to `resume()` (`ServersInv`). Without, `PauseInv` says that `paused` stays set and, once `gather` has returned, no task is left, until the monitor clears it behind `pause()` (`behind`), which the property names: a task generates meanwhile only after that. |
| `OldBeforeNew` | for `[]Undisturbed`: with partial rollout, or in a behaviour in which the monitor never clears `paused` behind `pause()`; otherwise it is false (section 3). `StampInv`: the queue is ordered, no version in it is newer than the Rollouter's, and a sample on its way to the queue has just that version, as the transfer finds no task (`WeightsAtRest`) and the versions passed on grow (`VersionInv`). |
| `NotTooLate` | `LagInv` counts the delay of a sample in samples: the whole intervals since its version, what the present interval has used, and the samples before it. A batch, a synchronization and a take from the queue leave the sum as it is, an eviction only lowers it (`StepInv` gives the trainer's place in the interval). A sample is put with less than the budget, because all that was generated at a version is in the queue before the next one (`StampInv`). Same condition. |
| `EverySampleDelivered` | without partial rollout; with it a sample interrupted at the end stays in `cancel_queue` (section 3). No sample leaves all nine places unless one is evicted (`Somewhere`, the converse of `PlaceInv`); a processor that ends has nothing in hand and no task (`ProcEndInv`); the signal comes after every sample and stays the last in the queue until the trainer has it (`SignalInv`). |

`Frames` lists for each variable the actions that change it, proved once from `Next`.

`SynchronizationProofs`: the queue, the transfer and the trainer's `fit()` around it

| Theorem | Argument |
|---|---|
| `TypeCorrect` | inductive as it stands; `KeptHasRoom` says that what `put_sample` keeps leaves room for one |
| `NewestKept`, `Delivery`, `LossyFifo` | one invariant `OrderInv`: the deque holds the last numbers produced, in order; whatever a consumer has is older than what is queued; hence the next one taken is new and larger. None is inductive without the others. |
| `Accounted`, `WakeupsKept` | inductive with `TypeOK` |
| `AlwaysWeightsWhole` | `TransferInv`: broadcasts follow the turns and leave none out (`SentInv`), a rank has received just those of the turns behind it (`ArrivalInv`), what it has is in the half its turn is for (`PlaceInv`), and the thread is busy with the other one (`ThreadInv`). `CoverInv`: the bucket of every turn behind a rank is in the model or among what its thread has still to load, and nobody leaves before the last turn. That each tensor has a turn (`EveryTensorHasTurn`) is about the recursive function that packs: its equation is unfolded at the least tensor for which it would fail. |
| `FitDelivers` | the same of each transfer of `fit()`: between two transfers all ranks are out, and only then the actor's weights change (`ActorInv`) |
| `OldFromRollouter` | for `SnapshotApart`: no offloading, or a synchronization after every step (section 3). `PolicyInv`: the model has every update; the weights synchronized are the model's at the first step after a synchronization, and later in a snapshot, with a storage of its own. |
| `AllReported` | for `InTurn`: validation beside the rollout is of every version (section 3). `ReportInv`: the versions logged, queued, being validated and being reported are all so far, in this order (`SequenceInv`), and a serial validation leaves at most one to wait for when a step begins (`BehindInv`). |

`SyncTrainerProofs`

| Theorem | Argument |
|---|---|
| `SyncInvariant` | one invariant for every configuration, each part named after what is kept: the driver's place, the updates behind the weights, the position in the data and the epoch, the steps since the last save, the files and the paths registered, the engine, GPU memory, random streams and the batch in hand |
| `StepMatched` | `VersionInv`, `LoaderInv`, `RngInv`: weights, position and random stream are functions of the step and the driver's place, and a restart finds all three of one step, as `DiskInv` says of every file |
| `MemoryApart` | `EngineInv` and `MemoryInv` give, place by place, what is awake and where parameters and optimizers are |
| `Policies` | for `LoadsBase`: a LoRA run loads its base from the files, as `docs/advance/ppo_lora.rst:37` requires. `EngineInv`: when generation begins the engine has the actor's version and nothing cached; `BatchInv` keeps it with the batch. |
| `AlwaysRecoverable`, `AlwaysResumable` | for `KeepsTwo`: not just one checkpoint is kept (`keep_one` shows why). `WholeInv`: the tracker's checkpoint is whole, and behind each barrier of a save the shards before it are there; `PathInv`: the last path of a manager is the tracker's, or the one before the path it has just registered, so that the removed ones are neither. |
| `TrainerRefinesRun` | for `KeepsTwo`. The actor's update (or, during warm-up, what stands for it) is a step of `TrainingRun`, the tracker's write a save, a crash a fall back to `Durable`; all else is a stutter. It needs that `Durable` is the tracker and stays it (`WholeInv`) and that the epoch allows one more step (`EpochInv`). |

`OneStepOffProofs`

| Theorem | Argument |
|---|---|
| `AlwaysOneBehind` | `EngineInv`: whenever something is generated all tensors of the engine, and what is behind its cache, are of one step; `FutureInv`: so is the batch generated ahead, or the one in hand |
| `AlwaysInOrder` | `DataInv` relates the history, the iterator and the batches ahead and in hand at each place; `CheckpointInv` the same for what a restart finds |

`PartialRolloutProofs`

| Theorem | Argument |
|---|---|
| `PartialInvariant`, `AlwaysTyped` | `PhaseInv`: the calls of `pause()` and `resume()` and where they leave the agent loops. For each trajectory: the mask says what the model wrote (`MaskInv`), the saved state says what the text ends with (`TurnInv`), a generation is over when its text is (`OutputInv`). |
| `SyncUndisturbed` | from `PhaseInv`, in every mode |
| `AlwaysRecorded` | without a condition. `SpanInv` adds that an active sample was given the version of the servers' weights, or the one before if it is `raced` (`RunInv`), and that the recorded span encloses the tokens but for that one (`SpanOf`). |
| `StreamImplemented` | each action is matched with a step of `TokenStream` or a stutter; the text grows by the server's output, which moves into the response when a request returns. Whether an agent goes on after an interruption is decided from the saved state and must agree with the text and with where the request began (`TurnInv`): it stops or answers exactly as `Answers` says. |

`WorkerProofs`: the streaming engines

| Theorem | Argument |
|---|---|
| `RingHandsInOrder` | `RingInv`: the buffer handed out holds its bucket (`HoldInv`), what has been copied of the next one is right (`CopyInv`), and the link between two neighbours is quiet, or has a message, or a transfer under way, of a bucket that its owner keeps until the notification (`LinkInv`). Each step touches a rank and its two links; frame lemmas cover the others. Hence every step is a step of `WeightStream` or a stutter. |
| `BroadcastHandsInOrder` | without a condition, for the receivers outside `Late`. `BroadcastInv` says that there is a sequence of buckets, those sent so far, which follow each other (`BucketsInv`), which were broadcast in this order (`SourceInv`), whose names are with each receiver in time or in its socket (`SocketInv`), and of which the one at a receiver's turn goes into the buffer not handed out (`ArrivalInv`). Names and contents come by different ways, and nothing in a message says which bucket it is; a late receiver takes part in the collectives, and what it does with its names reaches no other. |

`ResponsesProofs`: the reward loop

| Theorem | Argument |
|---|---|
| `RateKept` | `LimiterInv`: what a limiter has let through and time has not covered (`level`) is matched by what its bucket lacks (`BucketInv`), and those who sleep off a payment are spaced so that none comes back before its share has fallen again (`DebtInv`) |
| `ContainerThere` | `PoolInv` relates where a thread is, the lock, and what each process takes for created: a container that exists, or whose name was found within one that does |

`WorkerProofs`: the actor's calls

| Theorem | Argument |
|---|---|
| `MasksAlwaysAgree` | without a condition on prompt or response. The delimiter found is the last occurrence; minima and maxima of sets of positions come from well-foundedness; an answer token that is not in the response is a stray |
| `UpdatesMasked`, `PerturbationsConfined` | `CallInv` (override and mode belong to the call under way), `HookInv` (a hook is there only during its pass) and `PassInv` (what the last pass was given); for `RemovePadding = FALSE` |

`PartitionProofs`, about the operators of `SeqlenBalancing`, for any positive work of the rows

| Theorem | Argument |
|---|---|
| `PartitionsWhole` | a state in the heap has no row twice, and either as many rows in each part or, when parts may differ, at most one in each while some are empty, the empty ones last (`Heaped`). Merging the largest part of one state with the smallest of another keeps this, as the empty parts of one meet rows of the other (`SharesPaired`). Two states in the heap have no row in common (`Heap`), so that no two compare equal, there is always a first one to pop (`FirstPoppedIn`) and a merge takes exactly one state away (`MergeTwoHeap`). Hence the last state has all rows (`DifferencedComplete`). `Sorting` says of `SortedBy` that it permutes, by counting what is up to each element. |
| `FairParts` | an empty part would leave at most one row in each of the others: fewer rows than parts |
| `MicroBatchesWhole` | the sort by work and the two slices put together are permutations (`InsideOut`) |
| `RestoredIs` | the reverse index is the inverse of a permutation, and what the partitions are one after another is one (`WholeFlat`) |

`ResponsesProofs`: the dispatch

| Theorem | Argument |
|---|---|
| `DispatchInvariant` | `BatchInv`: at each place of the driver the batch is a permutation of the rows, or in place and padded to a multiple of the ranks. `ProgressInv`: what a worker has computed is alike what it has got, up to its mini batch: the same rows, in the same order unless the call is an update (`Alike`). `LockStep`: there are a mini batch m, a number P of passes before it and M in it, so that every worker is within it, having begun P and some of the M passes, or just past it, with P + M passes behind it and at most its count for the next all_reduce given (`Within`, `Past`). |
| `RowsAreReturned` | one worker of each rank returns its output (`RankFacts`), the chunks make up the batch (`ChunkFacts`), so that what is collected is alike the batch (`FlatAlike`); restoring each mini batch is `RestoredIs` |
| `NobodyIsLeftBehind` | from `LockStep`: if nobody is within the mini batch, all are past it, and then all arrive at the next all_reduce or all have returned. That the split into the agreed number of micro batches passes the assertions of the partitioning is `FairParts`, since the agreed number is at most the rows of any mini batch; that `_balance_batch` does needs that the ranks divide the batch (`CallInv`). |

`ResponsesProofs`: the advantages, for any prompts with two responses or more, any masks, outcomes and discounts

| Theorem | Argument |
|---|---|
| `OutcomeIsCredited` | `CreditInv`: response masks stay masks of their rows' lengths, whatever rollout correction takes out. A row's rewards add up to its outcome less its divergences (`ScoreIsOutcome`, by induction over the tokens of the running sum). A group's size times a score less the group's scores is the sum of its leads over the others (`GrpoIs`), and the best one's lead over the next is its smallest one (`PassKIs`). The positions with a row's uid and the rows of its prompt match one to one, because the batch is a permutation (`BatchInv`), and matching values have the same sum and the same extremes (`SumMatched`, `RowDue`). That a prompt has two responses rules out the group of one, whose score the code leaves as it is. |
| `ObservationsAreSkipped` | the entry of a token in the backward recursion is the next value and the discounted sum from it on: a token not left changes neither (`SumSkips`), one that is left puts its error before the rest and is one more token for all after it to be discounted by (`SumTakes`), and behind the last both are zero (`SumEnds`). The function that these entries make up satisfies the recursion, so one exists, and any that does has these entries (`GaeIs`). |

`SumFunctionOnSet` of the community modules adds the values of a set by a choice of one element after another. Its
facts are proved by induction over the subsets of a finite set (`EachSubset`): sums over subsets exist and do not depend
on the family (`AddsExist`, `AddsAlike`), so any element may be added first (`SumAny`).

Every condition above is one under which the code is meant to run or without which the property is false; section 3
has the counterexamples.

Every safety invariant and every safety action property that a run checks and expects to hold is stated by a theorem.
Checked by TLC only is liveness (`ShutdownReleases`, `FitReturns`, `Terminates`, `SampleCompletes`, the second half of
`PauseHarmless`, `Finishes`, `Answered`), since liveness under fairness and `ENABLED` are out of the provers' reach.

No module uses `RECURSIVE` operators; recursions are recursive functions. The library's induction theorems that
take a predicate as a parameter are not used: where something holds of all arguments of such a function
(`EveryTensorHasTurn`), a least counterexample takes their place, and where the existence of one is needed (the merges
of the heap, running sums, concatenations, powers) the set of the arguments for which it exists (`EachNatural`).

## 6. Not modelled

The map covers about seven thousand of some hundred thousand lines. What is left is mostly code in
which no order of steps could go wrong in a way a model checker would see: tensor arithmetic and kernels
(`utils/kernel`, most of `core_algos.py`), model definitions and weight converters, configuration, metrics
and logging, vendored interfaces, and second copies of the same protocol for another backend.

- Sample assembly and metrics, reward functions (text and regular expressions), tools (HTTP calls; their rate
  limit is a semaphore), evaluation and data scripts: sequential, without lasting state.
- Other backends: Megatron workers and checkpoints, sglang, the engine workers. Their calls are in the
  order of the FSDP and vLLM ones where both exist; with `param_offload` Megatron's snapshot of
  weights saves nothing.
- The trainer with a transfer queue (`experimental/transfer_queue`), a copy of the
  synchronous one over another store of data; the vision-language-action experiment.
- Of modelled components: statistics; the PPO update, one step; checkpoints of the asynchronous pipeline, which
  loses what is in flight, as a comment says (`FA/fully_async_rollouter.py:322`); interactions
  with a simulated user; several servers or workers (`PartialRollout` has one of each); the transfer of
  tensors without the checkpoint engine; prefix grouping, automatic padding, the greedy partition;
  placement of processes; building and tearing down process groups; extraction of a program and the
  verdict on its output. `DataDispatch` takes `ppo_epochs` to be 1.

Code outside the repository is modelled as it is relied on: asyncio runs one coroutine at a time; Ray executes an
actor's calls in order; collective calls of a group are matched in order and return when the
caller's buffer may be used; a NIXL notification follows the end of its read; vLLM ends a generation that is aborted; a
directory entry is there or not.

## 7. Plan

Done, in this order: queue, rollouter, pipeline and their first theorems; partial rollout; masking; the
synchronous trainer with checkpoints; one-step-off training; containers and the reward loop; dispatch and
advantages; the actor's calls; validation, transfer and weights of a synchronization; the
streaming engines; the theorems, those about the dispatch and the advantages last.

Next:

1. An abstract bounded-staleness channel that `FullyAsync` implements.
2. `PartialRollout` with several servers and the router's choice among them.
3. Checkpoints of the asynchronous pipeline, once they cover the samples in flight.

## 8. Running

In this directory, for each run of `PROJECT.json` its configuration and module:

    tlc -workers 2 -config PipelineWaiting.cfg MCFullyAsync.tla
    tlapm FullyAsyncProofs.tla

The longest runs take a few minutes, as do the longest proofs.
