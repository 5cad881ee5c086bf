----------------------------- MODULE Rollouter -----------------------------
(***************************************************************************)
(* The Ray async actor FullyAsyncRollouter                                 *)
(* (fully_async_policy/fully_async_rollouter.py): one event loop shared by *)
(* the feeder, the processor, one task per sample, the monitor loop, the   *)
(* streaming main, and the pause / update_param_version / resume calls the *)
(* ParameterSynchronizer makes on it.                                      *)
(*                                                                         *)
(* A coroutine gives the event loop up only where it really suspends: on   *)
(* a lock that is taken, on the condition, in asyncio.wait, on an empty    *)
(* pending queue, or on a remote call.  `loop' names the coroutine that is *)
(* between two suspensions, so a step of another coroutine cannot slip in  *)
(* where the code has no suspension point.                                 *)
(***************************************************************************)
EXTENDS Integers, Sequences, FiniteSets, MessageQueue

CONSTANTS RequiredSamples,  \* ppo_mini_batch_size * require_batches
          TriggerStep,      \* trigger_parameter_sync_step
          StaleSamples,     \* int(required_samples * staleness_threshold * trigger_step)
          ServerSlots,      \* 16 * len(server_handles)
          PendingSize,      \* pending_queue's maxsize
          Total,            \* total_rollout_steps (samples still to roll out)
          PartialRollout,   \* async_training.partial_rollout
          MaxFailures       \* bound on the sample tasks that raise

\* set_max_required_samples
MaxRequired == RequiredSamples * TriggerStep + StaleSamples
MaxConcurrent == IF ServerSlots < MaxRequired THEN ServerSlots ELSE MaxRequired

ASSUME RolloutAssumption ==
  /\ RequiredSamples \in Nat \ {0} /\ TriggerStep \in Nat \ {0}
  /\ StaleSamples \in Nat /\ ServerSlots \in Nat \ {0}
  /\ PendingSize \in Nat \ {0} /\ Total \in Nat \ {0}
  /\ MaxFailures \in Nat
  /\ PartialRollout \in BOOLEAN
  /\ MaxQueueSize = MaxRequired

Sample == 1..Total
Done == Total + 1     \* the feeder's end signal "DONE"
Nothing == 0          \* Python's None: no sample held; the finish signal in the queue
Coroutine == {"processor", "sync", "monitor", "main"}

VARIABLES
  loop,          \* the coroutine running between two suspensions, or "idle"
  lock,          \* self.lock: its holder, then its waiters in order
  ppc,           \* where the processor is
  why,           \* which of its three drain loops it is in
  held,          \* rollout_sample, taken but not yet submitted
  doneBound,     \* the processor's local done_tasks has been assigned
  fed, taken,    \* samples put in / got from pending_queue (Done included)
  paused, monitorTrigger, running,
  behind,        \* history: the monitor has cleared `paused' behind the pause() in force
  staleness,     \* staleness_samples
  version,       \* current_param_version
  gen, putting,  \* samples whose task generates / has its put_sample under way
  finished,      \* tasks in active_tasks that are done and not yet removed
  failed,        \* those of them that raised
  cancelQ,       \* cancel_queue
  serversPaused, \* the rollout servers refuse and interrupt requests
  lost,          \* samples whose task raised
  ver,           \* ver[s]: param_version stamped on s when its generation ended
  mon,           \* where the monitor loop is
  mainpc,        \* where _streaming_generation_main is
  rpc,           \* the synchronizer's call being served
  counted        \* partial sum of update_param_version's staleness count

procVars == <<ppc, why, held, doneBound>>
feedVars == <<fed, taken>>
flagVars == <<paused, monitorTrigger, running, behind>>
taskVars == <<gen, putting, finished, failed, cancelQ, lost, ver>>
syncVars == <<rpc, counted, version, serversPaused>>
rollVars == <<loop, lock, procVars, feedVars, flagVars, staleness, taskVars,
              syncVars, mon, mainpc>>

ProcState == {"top", "getWait", "setPaused", "drain", "reap", "reapWait",
              "resumeWait", "condResume", "wokenResume",
              "submit", "condSubmit", "wokenSubmit", "end", "crashed"}
RpcState == {"idle", "pauseCall", "pause", "gather", "kvcache", "paused",
             "updateCall", "update", "queueSize", "store", "putValidate",
             "resumeCall", "resume"}

LoopTypeOK == loop \in Coroutine \cup {"idle"} /\ lock \in Seq(Coroutine)

ProcTypeOK ==
  /\ ppc \in ProcState /\ why \in {"pause", "limit", "done"}
  /\ held \in 0..Done /\ doneBound \in BOOLEAN

FeedTypeOK == fed \in 0..Done /\ taken \in 0..Done /\ taken <= fed

FlagTypeOK ==
  /\ paused \in BOOLEAN /\ monitorTrigger \in BOOLEAN /\ running \in BOOLEAN
  /\ behind \in BOOLEAN

TaskTypeOK ==
  /\ gen \subseteq Sample /\ putting \subseteq Sample /\ lost \subseteq Sample
  /\ finished \in Nat /\ failed \in 0..finished
  /\ cancelQ \in Seq(Sample)
  /\ ver \in [Sample -> Nat]

SyncTypeOK ==
  /\ rpc \in RpcState /\ counted \in Nat /\ version \in Nat
  /\ serversPaused \in BOOLEAN

LoopsTypeOK ==
  /\ mon \in {"check", "checking", "sleep", "unpause", "ended"}
  /\ mainpc \in {"run", "finish", "stop", "ended"}

RollTypeOK ==
  /\ LoopTypeOK /\ ProcTypeOK /\ FeedTypeOK /\ FlagTypeOK /\ TaskTypeOK
  /\ SyncTypeOK /\ LoopsTypeOK
  /\ staleness \in Nat

\* The state in which fit() starts: the initial weight synchronization is over.
RollInit ==
  /\ loop = "idle" /\ lock = <<>>
  /\ ppc = "top" /\ why = "pause" /\ held = Nothing /\ doneBound = FALSE
  /\ fed = 0 /\ taken = 0
  /\ paused = FALSE /\ monitorTrigger = TRUE /\ running = TRUE /\ behind = FALSE
  /\ staleness = 0 /\ version = 0 /\ counted = 0
  /\ gen = {} /\ putting = {} /\ lost = {} /\ finished = 0 /\ failed = 0
  /\ cancelQ = <<>> /\ serversPaused = FALSE /\ ver = [s \in Sample |-> 0]
  /\ mon = "check" /\ mainpc = "run" /\ rpc = "idle"

-----------------------------------------------------------------------------
\* The event loop and self.lock (an asyncio.Lock serves its waiters in order).

CanRun(c) == loop \in {"idle", c}
Owns(c) == CanRun(c) /\ lock # <<>> /\ Head(lock) = c
Acquire(c) == lock' = Append(lock, c) /\ loop' = IF lock = <<>> THEN c ELSE "idle"
Release(c) == lock' = Tail(lock) /\ loop' = c
ReleaseAndYield == lock' = Tail(lock) /\ loop' = "idle"

\* Mutant of Notified: `paused' cleared without notify_all()
NotifiedNobody == ppc

\* condition.notify_all(): only the processor waits on the condition
Notified == CASE ppc = "condResume" -> "wokenResume"
              [] ppc = "condSubmit" -> "wokenSubmit"
              [] OTHER -> ppc

Active == Cardinality(gen) + Cardinality(putting) + finished    \* len(active_tasks)

\* Mutant of AtLimit: off by one
AtLimitLate == Active > MaxConcurrent

AtLimit == Active >= MaxConcurrent

\* Mutant of ShouldPause: the staleness count ignored
ShouldPauseWhenFull == Len(queue) >= MaxQueueSize

\* _should_pause_generation
ShouldPause == Len(queue) >= MaxQueueSize \/ staleness >= MaxRequired

-----------------------------------------------------------------------------
\* _feed_samples: fills pending_queue without suspending until it is full
Feed ==
  /\ loop = "idle"
  /\ fed < Done /\ fed - taken < PendingSize
  /\ fed' = IF taken + PendingSize < Done THEN taken + PendingSize ELSE Done
  /\ UNCHANGED <<loop, lock, procVars, taken, flagVars, staleness, taskVars,
                 syncVars, mon, mainpc, mqVars>>

-----------------------------------------------------------------------------
\* _processor_worker

ProcSeesPause ==
  /\ ppc = "top" /\ CanRun("processor")
  /\ paused \/ ShouldPause
  /\ Acquire("processor")
  /\ ppc' = "setPaused"
  /\ UNCHANGED <<why, held, doneBound, feedVars, flagVars, staleness, taskVars,
                 syncVars, mon, mainpc, mqVars>>

ProcSetPaused ==
  /\ ppc = "setPaused" /\ Owns("processor")
  /\ paused' = TRUE
  /\ Release("processor")
  /\ ppc' = "drain" /\ why' = "pause"
  /\ UNCHANGED <<held, doneBound, feedVars, monitorTrigger, running, behind, staleness,
                 taskVars, syncVars, mon, mainpc, mqVars>>

\* What the processor does with a sample x it has just taken
Dispatch(x) ==
  /\ held' = x
  /\ IF x = Done \/ AtLimit
     THEN /\ ppc' = "drain" /\ why' = IF x = Done THEN "done" ELSE "limit"
          /\ loop' = "processor" /\ UNCHANGED lock
     ELSE /\ ppc' = "submit" /\ UNCHANGED why
          /\ Acquire("processor")

ProcTakeCancelled ==
  /\ ppc = "top" /\ CanRun("processor")
  /\ ~paused /\ ~ShouldPause
  /\ cancelQ # <<>>
  /\ Dispatch(Head(cancelQ))
  /\ cancelQ' = Tail(cancelQ)
  /\ UNCHANGED <<doneBound, feedVars, flagVars, staleness, gen, putting, finished,
                 failed, lost, ver, syncVars, mon, mainpc, mqVars>>

TakePending ==
  /\ taken < fed
  /\ Dispatch(taken + 1)
  /\ taken' = taken + 1
  /\ staleness' = staleness + 1
  /\ UNCHANGED <<doneBound, fed, flagVars, taskVars, syncVars, mon, mainpc, mqVars>>

ProcTakePending ==
  /\ ppc = "top" /\ CanRun("processor")
  /\ ~paused /\ ~ShouldPause /\ cancelQ = <<>>
  /\ TakePending

\* pending_queue.get() on an empty queue suspends; the getter is woken by a put
ProcWaitPending ==
  /\ ppc = "top" /\ CanRun("processor")
  /\ ~paused /\ ~ShouldPause /\ cancelQ = <<>> /\ taken = fed
  /\ ppc' = "getWait" /\ loop' = "idle"
  /\ UNCHANGED <<lock, why, held, doneBound, feedVars, flagVars, staleness, taskVars,
                 syncVars, mon, mainpc, mqVars>>

ProcGetWoken ==
  /\ ppc = "getWait" /\ CanRun("processor")
  /\ TakePending

\* Mutant of Draining: "DONE" ends the processor without waiting for its tasks
DrainingNotAtEnd == CASE why = "limit" -> AtLimit
                      [] why = "pause" -> Active > 0
                      [] why = "done" -> FALSE

\* The three drain loops: before a pause, at the concurrency limit, at the end
Draining == IF why = "limit" THEN AtLimit ELSE Active > 0

ProcDrain ==
  /\ ppc = "drain" /\ CanRun("processor")
  /\ Draining
  /\ Acquire("processor")
  /\ ppc' = "reap"
  /\ UNCHANGED <<why, held, doneBound, feedVars, flagVars, staleness, taskVars,
                 syncVars, mon, mainpc, mqVars>>

ProcDrained ==
  /\ ppc = "drain" /\ CanRun("processor")
  /\ ~Draining
  /\ IF why = "done"
     THEN ppc' = "end" /\ loop' = "idle" /\ UNCHANGED lock
     ELSE ppc' = (IF why = "pause" THEN "resumeWait" ELSE "submit") /\ Acquire("processor")
  /\ UNCHANGED <<why, held, doneBound, feedVars, flagVars, staleness, taskVars,
                 syncVars, mon, mainpc, mqVars>>

\* asyncio.wait(active_tasks, FIRST_COMPLETED), the lock held
ProcAwaitTasks ==
  /\ ppc = "reap" /\ Owns("processor")
  /\ Active > 0
  /\ ppc' = "reapWait" /\ loop' = "idle"
  /\ UNCHANGED <<lock, why, held, doneBound, feedVars, flagVars, staleness, taskVars,
                 syncVars, mon, mainpc, mqVars>>

\* ... returns: the done tasks leave active_tasks; awaiting one that raised raises
ProcReap ==
  /\ ppc = "reapWait" /\ Owns("processor")
  /\ finished > 0
  /\ finished' = 0 /\ failed' = 0
  /\ doneBound' = TRUE
  /\ IF failed > 0 THEN ppc' = "crashed" /\ ReleaseAndYield
                   ELSE ppc' = "drain" /\ Release("processor")
  /\ UNCHANGED <<why, held, feedVars, flagVars, staleness, gen, putting, cancelQ,
                 lost, ver, syncVars, mon, mainpc, mqVars>>

\* pause() emptied active_tasks first: the inner if is skipped and the loop over
\* done_tasks runs on whatever an earlier wait left there, if there was one
ProcNothingToReap ==
  /\ ppc = "reap" /\ Owns("processor")
  /\ Active = 0
  /\ IF doneBound THEN ppc' = "drain" /\ Release("processor")
                  ELSE ppc' = "crashed" /\ ReleaseAndYield
  /\ UNCHANGED <<why, held, doneBound, feedVars, flagVars, staleness, taskVars,
                 syncVars, mon, mainpc, mqVars>>

ProcResumeWait ==
  /\ ppc = "resumeWait" /\ Owns("processor")
  /\ IF paused THEN ppc' = "condResume" /\ ReleaseAndYield
               ELSE ppc' = "top" /\ Release("processor")
  /\ UNCHANGED <<why, held, doneBound, feedVars, flagVars, staleness, taskVars,
                 syncVars, mon, mainpc, mqVars>>

ProcWoken ==
  /\ ppc \in {"wokenResume", "wokenSubmit"} /\ CanRun("processor")
  /\ Acquire("processor")
  /\ ppc' = IF ppc = "wokenResume" THEN "resumeWait" ELSE "submit"
  /\ UNCHANGED <<why, held, doneBound, feedVars, flagVars, staleness, taskVars,
                 syncVars, mon, mainpc, mqVars>>

ProcSubmit ==
  /\ ppc = "submit" /\ Owns("processor")
  /\ IF paused
     THEN ppc' = "condSubmit" /\ ReleaseAndYield /\ UNCHANGED <<held, gen>>
     ELSE /\ gen' = gen \cup {held} /\ held' = Nothing
          /\ ppc' = "top" /\ Release("processor")
  /\ UNCHANGED <<why, doneBound, feedVars, flagVars, staleness, putting, finished,
                 failed, cancelQ, lost, ver, syncVars, mon, mainpc, mqVars>>

Processor ==
  \/ ProcSeesPause \/ ProcSetPaused \/ ProcTakeCancelled \/ ProcTakePending
  \/ ProcWaitPending \/ ProcGetWoken \/ ProcDrain \/ ProcDrained \/ ProcAwaitTasks
  \/ ProcReap \/ ProcNothingToReap \/ ProcResumeWait \/ ProcWoken \/ ProcSubmit
-----------------------------------------------------------------------------
\* _process_single_sample_streaming, one task per submitted sample

\* Servers paused before the request arrived return it unfinished at once
Refused == serversPaused /\ rpc # "gather"

TaskFinish(s) ==
  /\ s \in gen /\ loop = "idle" /\ ~Refused
  /\ gen' = gen \ {s} /\ putting' = putting \cup {s}
  /\ ver' = [ver EXCEPT ![s] = version]
  /\ UNCHANGED <<loop, lock, procVars, feedVars, flagVars, staleness, finished,
                 failed, cancelQ, lost, syncVars, mon, mainpc, mqVars>>

\* The put_sample call of s reaches the queue and returns
TaskPut(s) ==
  /\ s \in putting
  /\ PutSample(s)
  /\ putting' = putting \ {s} /\ finished' = finished + 1
  /\ UNCHANGED <<loop, lock, procVars, feedVars, flagVars, staleness, gen, failed,
                 cancelQ, lost, ver, syncVars, mon, mainpc>>

\* Interrupted by a partial-rollout pause: back to cancel_queue
TaskCancel(s) ==
  /\ s \in gen /\ loop = "idle" /\ serversPaused
  /\ gen' = gen \ {s} /\ finished' = finished + 1
  /\ cancelQ' = Append(cancelQ, s)
  /\ UNCHANGED <<loop, lock, procVars, feedVars, flagVars, staleness, putting,
                 failed, lost, ver, syncVars, mon, mainpc, mqVars>>

\* The agent loop raises: the exception stays in the task until someone awaits it
TaskFail(s) ==
  /\ s \in gen /\ loop = "idle"
  /\ Cardinality(lost) < MaxFailures
  /\ gen' = gen \ {s} /\ finished' = finished + 1
  /\ failed' = failed + 1 /\ lost' = lost \cup {s}
  /\ UNCHANGED <<loop, lock, procVars, feedVars, flagVars, staleness, putting,
                 cancelQ, ver, syncVars, mon, mainpc, mqVars>>

Task(s) == TaskFinish(s) \/ TaskPut(s) \/ TaskCancel(s) \/ TaskFail(s)

-----------------------------------------------------------------------------
\* _async_monitor_loop

MonCheck ==
  /\ mon = "check" /\ CanRun("monitor")
  /\ Acquire("monitor")
  /\ mon' = "checking"
  /\ UNCHANGED <<procVars, feedVars, flagVars, staleness, taskVars, syncVars,
                 mainpc, mqVars>>

MonChecking ==
  /\ mon = "checking" /\ Owns("monitor")
  /\ ReleaseAndYield
  /\ mon' = IF running THEN "sleep" ELSE "ended"
  /\ UNCHANGED <<procVars, feedVars, flagVars, staleness, taskVars, syncVars,
                 mainpc, mqVars>>

\* The timer expires: decide, without the lock, whether to resume generation
MonWake ==
  /\ mon = "sleep" /\ loop = "idle"
  /\ IF monitorTrigger /\ ~ShouldPause
     THEN mon' = "unpause" /\ Acquire("monitor")
     ELSE mon' = "check" /\ loop' = "monitor" /\ UNCHANGED lock
  /\ UNCHANGED <<procVars, feedVars, flagVars, staleness, taskVars, syncVars,
                 mainpc, mqVars>>

MonUnpause ==
  /\ mon = "unpause" /\ Owns("monitor")
  /\ paused' = FALSE /\ behind' = (rpc \notin {"idle", "pauseCall", "pause"})
  /\ ppc' = Notified
  /\ Release("monitor")
  /\ mon' = "check"
  /\ UNCHANGED <<why, held, doneBound, feedVars, monitorTrigger, running, staleness,
                 taskVars, syncVars, mainpc, mqVars>>

Monitor == MonCheck \/ MonChecking \/ MonWake \/ MonUnpause

-----------------------------------------------------------------------------
\* pause(), update_param_version() and resume(), called one after the other

\* Each of the three calls begins by asking for self.lock
CallStart ==
  /\ rpc \in {"pauseCall", "updateCall", "resumeCall"} /\ CanRun("sync")
  /\ Acquire("sync")
  /\ rpc' = CASE rpc = "pauseCall" -> "pause"
              [] rpc = "updateCall" -> "update"
              [] rpc = "resumeCall" -> "resume"
  /\ UNCHANGED <<procVars, feedVars, flagVars, staleness, taskVars, counted, version,
                 serversPaused, mon, mainpc, mqVars>>

PauseBegin ==
  /\ rpc = "pause" /\ Owns("sync")
  /\ paused' = TRUE /\ behind' = FALSE
  /\ serversPaused' = PartialRollout
  /\ rpc' = "gather" /\ loop' = "idle"
  /\ UNCHANGED <<lock, procVars, feedVars, monitorTrigger, running, staleness, taskVars,
                 counted, version, mon, mainpc, mqVars>>

\* Mutants of Gathered: pause() waits for nothing; or not for the put_sample calls
GatheredNothing == TRUE
GatheredGeneration == gen = {}

\* gather(active_tasks) returns when every task has ended
Gathered == gen = {} /\ putting = {}

\* ... and, with return_exceptions=True, swallows what the tasks raised
PauseGathered ==
  /\ rpc = "gather" /\ loop = "idle"
  /\ Gathered
  /\ finished' = 0 /\ failed' = 0
  /\ rpc' = "kvcache"
  /\ UNCHANGED <<loop, lock, procVars, feedVars, flagVars, staleness, gen, putting,
                 cancelQ, lost, ver, counted, version, serversPaused, mon, mainpc, mqVars>>

PauseEnd ==
  /\ rpc = "kvcache" /\ loop = "idle"
  /\ monitorTrigger' = FALSE
  /\ ReleaseAndYield
  /\ rpc' = "paused"
  /\ UNCHANGED <<procVars, feedVars, paused, running, behind, staleness, taskVars,
                 counted, version, serversPaused, mon, mainpc, mqVars>>

\* len(active_tasks) + cancel_queue.qsize()
Started == Active + Len(cancelQ)

\* update_param_version(v): the count is added up left to right, with a remote
\* call for its last term
UpdateBegin(v) ==
  /\ rpc = "update" /\ Owns("sync")
  /\ version' = v
  /\ counted' = Started
  /\ rpc' = "queueSize" /\ loop' = "idle"
  /\ UNCHANGED <<lock, procVars, feedVars, flagVars, staleness, taskVars,
                 serversPaused, mon, mainpc, mqVars>>

UpdateQueueSize ==
  /\ rpc = "queueSize"
  /\ counted' = counted + Len(queue)
  /\ rpc' = "store"
  /\ UNCHANGED <<loop, lock, procVars, feedVars, flagVars, staleness, taskVars,
                 version, serversPaused, mon, mainpc, mqVars>>

\* Mutant of NewStaleness: added to the old count
NewStalenessAdded == staleness + counted

NewStaleness == counted

\* ... and the lock is kept for one more remote call, put_validate
UpdateStore ==
  /\ rpc = "store" /\ loop = "idle"
  /\ staleness' = NewStaleness
  /\ rpc' = "putValidate" /\ counted' = 0
  /\ UNCHANGED <<loop, lock, procVars, feedVars, flagVars, taskVars, version,
                 serversPaused, mon, mainpc, mqVars>>

UpdateEnd ==
  /\ rpc = "putValidate" /\ loop = "idle"
  /\ ReleaseAndYield
  /\ rpc' = "resumeCall"
  /\ UNCHANGED <<procVars, feedVars, flagVars, staleness, taskVars, counted, version,
                 serversPaused, mon, mainpc, mqVars>>

Resume ==
  /\ rpc = "resume" /\ Owns("sync")
  /\ serversPaused' = FALSE
  /\ paused' = FALSE /\ monitorTrigger' = TRUE /\ behind' = FALSE
  /\ ppc' = Notified
  /\ ReleaseAndYield
  /\ rpc' = "idle"
  /\ UNCHANGED <<why, held, doneBound, feedVars, running, staleness, taskVars, counted,
                 version, mon, mainpc, mqVars>>

-----------------------------------------------------------------------------
\* _streaming_generation_main after the processor ended, normally or not

MainFinish ==
  /\ mainpc = "run" /\ ppc \in {"end", "crashed"}
  /\ PutSample(Nothing)
  /\ mainpc' = "finish"
  /\ UNCHANGED <<loop, lock, procVars, feedVars, flagVars, staleness, taskVars,
                 syncVars, mon>>

MainStop ==
  /\ mainpc = "finish" /\ CanRun("main")
  /\ Acquire("main")
  /\ mainpc' = "stop"
  /\ UNCHANGED <<procVars, feedVars, flagVars, staleness, taskVars, syncVars, mon, mqVars>>

MainStopped ==
  /\ mainpc = "stop" /\ Owns("main")
  /\ running' = FALSE
  /\ ReleaseAndYield
  /\ mainpc' = "ended"
  /\ UNCHANGED <<procVars, feedVars, paused, monitorTrigger, behind, staleness, taskVars,
                 syncVars, mon, mqVars>>

Main == MainFinish \/ MainStop \/ MainStopped
=============================================================================
