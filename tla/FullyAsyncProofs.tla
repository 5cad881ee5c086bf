-------------------------- MODULE FullyAsyncProofs --------------------------
(***************************************************************************)
(* What FullyAsync guarantees for every number of samples, batch size,     *)
(* staleness, concurrency and queue size, with or without partial rollout, *)
(* monitor race and failing tasks.                                         *)
(*                                                                         *)
(* TypeOK is not inductive: it needs what each coroutine knows at its      *)
(* suspension points.  HeldInv says what the processor holds, BatchInv     *)
(* where the trainer is in its batch, LockInv that the synchronizer's      *)
(* calls keep the lock across their awaits.  SlotInv (the processor's free *)
(* task slot stays free while it waits) and BudgetInv (the staleness count *)
(* covers what has been started) carry the two bounds.                     *)
(*                                                                         *)
(* No sample is ever in two places, in every mode.  OnePlace counts        *)
(* places; Exclusive says the same of pairs of places.  It is inductive    *)
(* together with what keeps the three sequences free of repetitions; the   *)
(* finish signal needs that it is sent once.                               *)
(*                                                                         *)
(* Then a weight synchronization: no generation while the weights are      *)
(* transferred, versions in order in the queue, and no sample trained on   *)
(* too late.  PauseInv says what holds from pause() to resume() until the  *)
(* monitor clears `paused' behind the synchronizer (`behind').  The last   *)
(* two are proved of the behaviours in which it does not, or in which the  *)
(* servers refuse what it lets in (partial rollout): []Undisturbed.        *)
(*                                                                         *)
(* At last the end: without partial rollout no sample is left behind.      *)
(***************************************************************************)
EXTENDS FullyAsync, FiniteSetTheorems, SequenceTheorems, TLAPS

Submitting == {"submit", "condSubmit", "wokenSubmit"}
Reaping == {"drain", "reap", "reapWait"}

\* A processor on its way to submit holds a sample
HeldInv == ppc \in Submitting \/ (ppc \in Reaping /\ why = "limit") => held \in Sample

BatchInv ==
  /\ tpc = "collect" => Len(batch) < RequiredSamples
  /\ tpc \in {"trigger", "sync"} => batch = <<>>

\* pause() and update_param_version() keep the lock while they wait
SyncHolds == {"gather", "kvcache", "queueSize", "store", "putValidate"}
LockInv == rpc \in SyncHolds => lock # <<>> /\ Head(lock) = "sync"

TypeInv == TypeOK /\ HeldInv /\ BatchInv /\ LockInv

USE DEF Sample, Done, Nothing, Coroutine, CallState, ProcState, RpcState

-----------------------------------------------------------------------------
\* The batch is sized by required_samples, the deque by max_required_samples
LEMMA Sizes == /\ RequiredSamples \in Nat \ {0} /\ TriggerStep \in Nat \ {0}
               /\ MaxQueueSize \in Nat \ {0} /\ Total \in Nat \ {0}
               /\ MaxRequired \in Nat /\ MaxConcurrent \in Nat /\ MaxQueueSize = MaxRequired
               /\ PendingSize \in Nat \ {0} /\ PartialRollout \in BOOLEAN
BY RolloutAssumption, MaxQueueSizeAssumption DEF MaxRequired, MaxConcurrent

\* What the sequence operators do to the lock, the queues and the batch
LEMMA LockOps ==
  ASSUME lock \in Seq(Coroutine)
  PROVE  /\ \A c \in Coroutine : Append(lock, c) \in Seq(Coroutine) /\ Append(lock, c) # <<>>
         /\ \A c \in Coroutine : lock # <<>> => Head(Append(lock, c)) = Head(lock)
         /\ lock # <<>> => Tail(lock) \in Seq(Coroutine)
<1>1. ASSUME NEW c \in Coroutine
      PROVE  /\ Append(lock, c) \in Seq(Coroutine) /\ Append(lock, c) # <<>>
             /\ lock # <<>> => Head(Append(lock, c)) = Head(lock)
  BY AppendProperties, EmptySeq, HeadTailAppend
<1> QED
  BY <1>1, HeadTailProperties

LEMMA QueueOps ==
  ASSUME queue \in Seq(0..Total), Len(queue) <= MaxQueueSize
  PROVE  /\ Len(queue) \in Nat
         /\ queue # <<>> => /\ Head(queue) \in 0..Total /\ Tail(queue) \in Seq(0..Total)
                            /\ Len(Tail(queue)) = Len(queue) - 1
         /\ \A x \in 0..Total : /\ Append(Kept, x) \in Seq(0..Total)
                                /\ Len(Append(Kept, x)) <= MaxQueueSize
                                /\ Len(Append(Kept, x)) <= Len(queue) + 1
<1>1. /\ Len(queue) \in Nat
      /\ queue # <<>> => /\ Head(queue) \in 0..Total /\ Tail(queue) \in Seq(0..Total)
                         /\ Len(Tail(queue)) = Len(queue) - 1
  BY LenProperties, HeadTailProperties
<1>2. Full => queue # <<>>
  BY MaxQueueSizeAssumption DEF Full
<1>3. Kept \in Seq(0..Total) /\ Len(Kept) < MaxQueueSize /\ Len(Kept) <= Len(queue)
  <2>1. CASE Full
    <3>1. Kept = Tail(queue)
      BY <2>1, Zenon DEF Kept
    <3> QED
      BY <1>1, <1>2, <2>1, <3>1, MaxQueueSizeAssumption
  <2>2. CASE ~Full
    BY <1>1, <2>2, MaxQueueSizeAssumption DEF Kept, Full
  <2> QED
    BY <2>1, <2>2
<1>4. ASSUME NEW x \in 0..Total
      PROVE  Append(Kept, x) \in Seq(0..Total) /\ Len(Append(Kept, x)) = Len(Kept) + 1
  BY <1>3, AppendProperties
<1>5. Len(Kept) \in Nat /\ MaxQueueSize \in Nat
  BY <1>3, LenProperties, MaxQueueSizeAssumption
<1> QED
  BY <1>1, <1>3, <1>4, <1>5

LEMMA CancelOps ==
  ASSUME cancelQ \in Seq(Sample)
  PROVE  /\ Len(cancelQ) \in Nat
         /\ cancelQ # <<>> => /\ Head(cancelQ) \in Sample /\ Tail(cancelQ) \in Seq(Sample)
                              /\ Len(Tail(cancelQ)) = Len(cancelQ) - 1
         /\ \A s \in Sample : /\ Append(cancelQ, s) \in Seq(Sample)
                              /\ Len(Append(cancelQ, s)) = Len(cancelQ) + 1
<1>1. ASSUME NEW s \in Sample
      PROVE  Append(cancelQ, s) \in Seq(Sample) /\ Len(Append(cancelQ, s)) = Len(cancelQ) + 1
  BY AppendProperties
<1>2. cancelQ # <<>> => /\ Head(cancelQ) \in Sample /\ Tail(cancelQ) \in Seq(Sample)
                        /\ Len(Tail(cancelQ)) = Len(cancelQ) - 1
  BY HeadTailProperties
<1> QED
  BY <1>1, <1>2, LenProperties

LEMMA BatchOps ==
  ASSUME batch \in Seq(Sample)
  PROVE  /\ Len(batch) \in Nat
         /\ \A s \in Sample : /\ Append(batch, s) \in Seq(Sample)
                              /\ Len(Append(batch, s)) = Len(batch) + 1
BY LenProperties, AppendProperties

\* The sets of samples are finite, so their sizes are numbers
LEMMA SampleSets ==
  ASSUME NEW S, S \subseteq Sample
  PROVE  /\ IsFiniteSet(S) /\ Cardinality(S) \in Nat
         /\ \A s \in Sample : Cardinality(S \cup {s}) <= Cardinality(S) + 1
         /\ \A s \in S : Cardinality(S \ {s}) = Cardinality(S) - 1
<1>1. IsFiniteSet(Sample)
  BY Sizes, FS_Interval
<1>2. IsFiniteSet(S)
  BY <1>1, FS_Subset
<1>3. Cardinality(S) \in Nat
  BY <1>2, FS_CardinalityType
<1>4. ASSUME NEW s \in Sample PROVE Cardinality(S \cup {s}) <= Cardinality(S) + 1
  <2>1. CASE s \in S
    <3>1. S \cup {s} = S
      BY <2>1
    <3> QED
      BY <1>3, <3>1
  <2>2. CASE s \notin S
    <3>1. Cardinality(S \cup {s}) = Cardinality(S) + 1
      BY <1>2, <2>2, FS_AddElement
    <3> QED
      BY <1>3, <3>1
  <2> QED
    BY <2>1, <2>2
<1>5. ASSUME NEW s \in S PROVE Cardinality(S \ {s}) = Cardinality(S) - 1
  BY <1>2, FS_RemoveElement
<1> QED
  BY <1>2, <1>3, <1>4, <1>5

\* Which actions change what
LEMMA Frames ==
  ASSUME [Next]_vars
  PROVE  /\ UNCHANGED feedVars \/ Feed \/ ProcTakePending \/ ProcGetWoken
         /\ UNCHANGED procVars \/ Processor \/ MonUnpause \/ Resume
         /\ UNCHANGED held \/ ProcTakeCancelled \/ ProcTakePending \/ ProcGetWoken \/ ProcSubmit
         /\ UNCHANGED flagVars \/ ProcSetPaused \/ MonUnpause \/ PauseBegin \/ PauseEnd \/ Resume \/ MainStopped
         /\ UNCHANGED staleness \/ ProcTakePending \/ ProcGetWoken \/ UpdateStore
         /\ UNCHANGED <<gen, putting, lost, finished, failed, ver>> \/ ProcReap \/ ProcSubmit \/ PauseGathered \/ (\E s \in Sample : Task(s))
         /\ UNCHANGED <<gen, putting>> \/ ProcSubmit \/ (\E s \in Sample : Task(s))
         /\ UNCHANGED cancelQ \/ ProcTakeCancelled \/ (\E s \in Sample : TaskCancel(s))
         /\ UNCHANGED <<counted, version>> \/ Update \/ UpdateQueueSize \/ UpdateStore
         /\ UNCHANGED serversPaused \/ PauseBegin \/ Resume
         /\ UNCHANGED rpc \/ SyncStep \/ SyncBegin \/ TrainerFinal
         /\ UNCHANGED mon \/ Monitor
         /\ UNCHANGED mainpc \/ Main
         /\ UNCHANGED mqVars \/ MainFinish \/ (\E s \in Sample : TaskPut(s)) \/ TrainerWait \/ TrainerTake
         /\ UNCHANGED trainVars \/ WeightsSynced \/ TrainerStep
<1> USE DEF vars, mqVars, procVars, feedVars, flagVars, taskVars, syncVars, rollVars, trainVars,
       Next, Terminated, RollStep, TaskStep, Processor, Monitor, Main, SyncStep, TrainerStep, Task,
       Acquire, Active, CallStart, CanRun, Dispatch, Evicted, Feed, FinalSyncNeeded,
       MainFinish, MainStop, MainStopped, MonCheck, MonChecking, MonUnpause, MonWake,
       NewStaleness, Notified, NotifyAll, Owns, PassedOn, PauseBegin, PauseEnd, PauseGathered,
       ProcAwaitTasks, ProcDrain, ProcDrained, ProcGetWoken, ProcNothingToReap,
       ProcReap, ProcResumeWait, ProcSeesPause, ProcSetPaused, ProcSubmit,
       ProcTakeCancelled, ProcTakePending, ProcWaitPending, ProcWoken, PutSample,
       Release, ReleaseAndYield, Rest, Resume, StaleInBatch, Started, SyncBegin,
       SyncDue, TakePending, TakeSample, TaskCancel, TaskFail, TaskFinish, TaskPut,
       TrainStep, TrainerEnd, TrainerFinal, TrainerTake, TrainerWait, Update,
       UpdateBegin, UpdateEnd, UpdateQueueSize, UpdateStore, WaitForSample,
       WeightsSynced
<1>1. UNCHANGED feedVars \/ Feed \/ ProcTakePending \/ ProcGetWoken
  OBVIOUS
<1>2. UNCHANGED procVars \/ Processor \/ MonUnpause \/ Resume
  OBVIOUS
<1>3. UNCHANGED held \/ ProcTakeCancelled \/ ProcTakePending \/ ProcGetWoken \/ ProcSubmit
  OBVIOUS
<1>4. UNCHANGED flagVars \/ ProcSetPaused \/ MonUnpause \/ PauseBegin \/ PauseEnd \/ Resume \/ MainStopped
  OBVIOUS
<1>5. UNCHANGED staleness \/ ProcTakePending \/ ProcGetWoken \/ UpdateStore
  OBVIOUS
<1>6. UNCHANGED <<gen, putting, lost, finished, failed, ver>> \/ ProcReap \/ ProcSubmit \/ PauseGathered \/ (\E s \in Sample : Task(s))
  OBVIOUS
<1>7. UNCHANGED <<gen, putting>> \/ ProcSubmit \/ (\E s \in Sample : Task(s))
  OBVIOUS
<1>8. UNCHANGED cancelQ \/ ProcTakeCancelled \/ (\E s \in Sample : TaskCancel(s))
  OBVIOUS
<1>9. UNCHANGED <<counted, version>> \/ Update \/ UpdateQueueSize \/ UpdateStore
  OBVIOUS
<1>10. UNCHANGED serversPaused \/ PauseBegin \/ Resume
  OBVIOUS
<1>11. UNCHANGED rpc \/ SyncStep \/ SyncBegin \/ TrainerFinal
  OBVIOUS
<1>12. UNCHANGED mon \/ Monitor
  OBVIOUS
<1>13. UNCHANGED mainpc \/ Main
  OBVIOUS
<1>14. UNCHANGED mqVars \/ MainFinish \/ (\E s \in Sample : TaskPut(s)) \/ TrainerWait \/ TrainerTake
  OBVIOUS
<1>15. UNCHANGED trainVars \/ WeightsSynced \/ TrainerStep
  OBVIOUS
<1> QED
  BY <1>1, <1>2, <1>3, <1>4, <1>5, <1>6, <1>7, <1>8, <1>9, <1>10, <1>11, <1>12, <1>13, <1>14, <1>15

-----------------------------------------------------------------------------
\* What every step needs of TypeInv about sequences and sizes
LEMMA Shapes ==
  ASSUME TypeInv
  PROVE  /\ queue \in Seq(0..Total) /\ Len(queue) \in Nat /\ Len(queue) <= MaxQueueSize
         /\ batch \in Seq(Sample) /\ Len(batch) \in Nat
         /\ cancelQ \in Seq(Sample) /\ Len(cancelQ) \in Nat
         /\ lock \in Seq(Coroutine)
         /\ gen \subseteq Sample /\ putting \subseteq Sample /\ finished \in Nat
         /\ Cardinality(gen) \in Nat /\ Cardinality(putting) \in Nat /\ Active \in Nat
<1>1. /\ queue \in Seq(0..Total) /\ Len(queue) <= MaxQueueSize
      /\ batch \in Seq(Sample) /\ cancelQ \in Seq(Sample) /\ lock \in Seq(Coroutine)
      /\ gen \subseteq Sample /\ putting \subseteq Sample /\ finished \in Nat
  BY DEF TypeInv, TypeOK, MQTypeOK, RollTypeOK, LoopTypeOK, TaskTypeOK, TrainTypeOK
<1>2. Cardinality(gen) \in Nat /\ Cardinality(putting) \in Nat
  BY <1>1, SampleSets
<1> QED
  BY <1>1, <1>2, LenProperties DEF Active

LEMMA FeedTypeStep == TypeInv /\ [Next]_vars => FeedTypeOK'
<1> SUFFICES ASSUME TypeInv, [Next]_vars PROVE FeedTypeOK'
  OBVIOUS
<1> USE Sizes DEF TypeInv, TypeOK, RollTypeOK, FeedTypeOK
<1>1. CASE Feed
  BY <1>1 DEF Feed
<1>2. CASE ProcTakePending \/ ProcGetWoken
  BY <1>2 DEF ProcTakePending, ProcGetWoken, TakePending
<1>3. CASE UNCHANGED feedVars
  BY <1>3 DEF feedVars
<1> QED
  BY <1>1, <1>2, <1>3, Frames

LEMMA ProcTypeStep == TypeInv /\ [Next]_vars => (ProcTypeOK /\ HeldInv)'
<1> SUFFICES ASSUME TypeInv, [Next]_vars PROVE ProcTypeOK' /\ HeldInv'
  OBVIOUS
<1>0. ProcTypeOK /\ HeldInv /\ taken \in Nat /\ fed \in Nat /\ fed <= Done
  BY Sizes DEF TypeInv, TypeOK, RollTypeOK, FeedTypeOK
<1> USE <1>0, Sizes DEF ProcTypeOK, HeldInv, Submitting, Reaping
<1>1. CASE ProcTakeCancelled
  <2>1. Head(cancelQ) \in 1..Total
    BY <1>1, Shapes, CancelOps DEF ProcTakeCancelled
  <2> QED
    BY <1>1, <2>1 DEF ProcTakeCancelled, Dispatch
<1>2. CASE ProcTakePending \/ ProcGetWoken
  <2>1. taken + 1 \in 1..Done
    <3>1. taken < fed
      BY <1>2 DEF ProcTakePending, ProcGetWoken, TakePending
    <3> QED
      BY <3>1
  <2>2. held' = taken + 1 /\ ppc' \in {"drain", "submit"} /\ doneBound' = doneBound
        /\ (ppc' = "drain" => why' = IF taken + 1 = Done THEN "done" ELSE "limit")
        /\ (ppc' = "submit" => why' = why /\ taken + 1 # Done)
    BY <1>2 DEF ProcTakePending, ProcGetWoken, TakePending, Dispatch
  <2> QED
    BY <2>1, <2>2
<1>3. CASE ProcSubmit
  BY <1>3 DEF ProcSubmit
<1>4. CASE \/ ProcSeesPause \/ ProcSetPaused \/ ProcWaitPending \/ ProcDrain \/ ProcDrained
           \/ ProcAwaitTasks \/ ProcReap \/ ProcNothingToReap \/ ProcResumeWait \/ ProcWoken
  BY <1>4 DEF ProcSeesPause, ProcSetPaused, ProcWaitPending, ProcDrain, ProcDrained,
     ProcAwaitTasks, ProcReap, ProcNothingToReap, ProcResumeWait, ProcWoken
<1>5. CASE MonUnpause \/ Resume
  BY <1>5 DEF MonUnpause, Resume, Notified
<1>6. CASE UNCHANGED procVars
  BY <1>6 DEF procVars
<1> QED
  BY <1>1, <1>2, <1>3, <1>4, <1>5, <1>6, Frames DEF Processor

LEMMA FlagTypeStep == TypeInv /\ [Next]_vars => FlagTypeOK'
<1> SUFFICES ASSUME TypeInv, [Next]_vars PROVE FlagTypeOK'
  OBVIOUS
<1> USE DEF TypeInv, TypeOK, RollTypeOK, FlagTypeOK, flagVars
<1>1. CASE ProcSetPaused \/ MonUnpause \/ MainStopped
  BY <1>1 DEF ProcSetPaused, MonUnpause, MainStopped
<1>2. CASE PauseBegin \/ PauseEnd \/ Resume
  BY <1>2 DEF PauseBegin, PauseEnd, Resume
<1> QED
  BY <1>1, <1>2, Frames

LEMMA StalenessStep == TypeInv /\ [Next]_vars => staleness' \in Nat
<1> SUFFICES ASSUME TypeInv, [Next]_vars PROVE staleness' \in Nat
  OBVIOUS
<1> USE DEF TypeInv, TypeOK, RollTypeOK, SyncTypeOK
<1>1. CASE ProcTakePending \/ ProcGetWoken
  BY <1>1 DEF ProcTakePending, ProcGetWoken, TakePending
<1>2. CASE UpdateStore
  BY <1>2 DEF UpdateStore, NewStaleness
<1> QED
  BY <1>1, <1>2, Frames

LEMMA TaskTypeStep == TypeInv /\ [Next]_vars => TaskTypeOK'
<1> SUFFICES ASSUME TypeInv, [Next]_vars PROVE TaskTypeOK'
  OBVIOUS
<1>0. TaskTypeOK /\ version \in Nat
  BY DEF TypeInv, TypeOK, RollTypeOK, SyncTypeOK
<1>1. (cancelQ \in Seq(Sample))'
  <2>1. CASE ProcTakeCancelled
    BY <2>1, Shapes, CancelOps DEF ProcTakeCancelled
  <2>2. ASSUME NEW s \in Sample, TaskCancel(s) PROVE cancelQ' \in Seq(Sample)
    BY <2>2, Shapes, CancelOps DEF TaskCancel
  <2> QED
    BY <2>1, <2>2, Frames, Shapes
<1>2. (TaskTypeOK /\ TRUE)' \/ UNCHANGED <<gen, putting, lost, finished, failed, ver>>
  <2> SUFFICES ASSUME ~UNCHANGED <<gen, putting, lost, finished, failed, ver>>
               PROVE  TaskTypeOK'
    OBVIOUS
  <2> USE <1>0, <1>1 DEF TaskTypeOK
  <2>1. CASE ProcReap \/ PauseGathered
    <3>1. /\ finished' = 0 /\ failed' = 0
          /\ gen' = gen /\ putting' = putting /\ lost' = lost /\ ver' = ver
      BY <2>1 DEF ProcReap, PauseGathered
    <3> QED
      BY <3>1
  <2>2. CASE ProcSubmit
    <3>1. paused \/ held \in Sample
      BY <2>2 DEF ProcSubmit, TypeInv, HeldInv, Submitting
    <3> QED
      BY <2>2, <3>1 DEF ProcSubmit
  <2>3. ASSUME NEW s \in Sample, Task(s) PROVE TaskTypeOK'
    <3>1. CASE TaskFinish(s)
      BY <3>1 DEF TaskFinish
    <3>2. CASE TaskPut(s)
      BY <3>2 DEF TaskPut
    <3>3. CASE TaskCancel(s)
      BY <3>3 DEF TaskCancel
    <3>4. CASE TaskFail(s)
      BY <3>4 DEF TaskFail
    <3> QED
      BY <2>3, <3>1, <3>2, <3>3, <3>4 DEF Task
  <2> QED
    BY <2>1, <2>2, <2>3, Frames
<1> QED
  BY <1>0, <1>1, <1>2 DEF TaskTypeOK

LEMMA SyncTypeStep == TypeInv /\ [Next]_vars => SyncTypeOK'
<1> SUFFICES ASSUME TypeInv, [Next]_vars PROVE SyncTypeOK'
  OBVIOUS
<1>0. SyncTypeOK /\ syncVersion \in Nat
  BY DEF TypeInv, TypeOK, RollTypeOK, TrainTypeOK
<1> USE <1>0, Sizes, Shapes DEF SyncTypeOK
<1>1. (counted \in Nat /\ version \in Nat)'
  <2>1. CASE Update
    BY <2>1 DEF Update, UpdateBegin, Started
  <2>2. CASE UpdateQueueSize \/ UpdateStore
    BY <2>2 DEF UpdateQueueSize, UpdateStore
  <2> QED
    BY <2>1, <2>2, Frames
<1>2. (serversPaused \in BOOLEAN)'
  <2>1. CASE PauseBegin \/ Resume
    BY <2>1 DEF PauseBegin, Resume
  <2> QED
    BY <2>1, Frames
<1>3. (rpc \in RpcState)'
  <2>1. CASE SyncStep
    BY <2>1 DEF SyncStep, CallStart, PauseBegin, PauseGathered, PauseEnd, UpdateQueueSize,
       UpdateStore, UpdateEnd, Resume, WeightsSynced, Update, UpdateBegin
  <2>2. CASE SyncBegin \/ TrainerFinal
    BY <2>2 DEF SyncBegin, TrainerFinal
  <2> QED
    BY <2>1, <2>2, Frames
<1> QED
  BY <1>1, <1>2, <1>3

LEMMA LoopsTypeStep == TypeInv /\ [Next]_vars => LoopsTypeOK'
<1> SUFFICES ASSUME TypeInv, [Next]_vars PROVE LoopsTypeOK'
  OBVIOUS
<1> USE DEF TypeInv, TypeOK, RollTypeOK, LoopsTypeOK
<1>1. CASE Monitor
  BY <1>1 DEF Monitor, MonCheck, MonChecking, MonWake, MonUnpause
<1>2. CASE Main
  BY <1>2 DEF Main, MainFinish, MainStop, MainStopped
<1> QED
  BY <1>1, <1>2, Frames

LEMMA QueueTypeStep == TypeInv /\ [Next]_vars => MQTypeOK(0..Total)'
<1> SUFFICES ASSUME TypeInv, [Next]_vars PROVE MQTypeOK(0..Total)'
  OBVIOUS
<1>0. MQTypeOK(0..Total)
  BY DEF TypeInv, TypeOK
<1> USE <1>0, Sizes, Shapes DEF MQTypeOK
<1>1. ASSUME NEW x \in 0..Total, PutSample(x) PROVE MQTypeOK(0..Total)'
  <2>1. queue' = Append(Kept, x)
    BY <1>1 DEF PutSample
  <2>2. queue' \in Seq(0..Total) /\ Len(queue') <= MaxQueueSize
    BY <2>1, QueueOps
  <2>3. Evicted \in Nat
    BY DEF Evicted
  <2> QED
    BY <1>1, <2>2, <2>3 DEF PutSample, NotifyAll
<1>2. CASE MainFinish
  <2>1. PutSample(0)
    BY <1>2 DEF MainFinish
  <2> QED
    BY <1>1, <2>1
<1>3. ASSUME NEW s \in Sample, TaskPut(s) PROVE MQTypeOK(0..Total)'
  <2>1. PutSample(s) /\ s \in 0..Total
    BY <1>3 DEF TaskPut
  <2> QED
    BY <1>1, <2>1
<1>4. CASE TrainerWait
  BY <1>4 DEF TrainerWait, WaitForSample
<1>5. CASE TrainerTake
  <2>1. /\ queue # <<>> /\ queue' = Tail(queue)
        /\ consumed' = consumed + 1 /\ caller' = [caller EXCEPT ![Trainer] = "idle"]
        /\ UNCHANGED <<open, produced, dropped>>
    BY <1>5 DEF TrainerTake, TakeSample, Rest
  <2>2. queue' \in Seq(0..Total) /\ Len(queue') <= MaxQueueSize
    BY <2>1, QueueOps
  <2>3. caller' \in [Consumers -> CallState]
    <3> HIDE DEF CallState
    <3>1. "idle" \in CallState
      BY DEF CallState
    <3> QED
      BY <2>1, <3>1
  <2>4. open' \in BOOLEAN /\ produced' \in Nat /\ consumed' \in Nat /\ dropped' \in Nat
    BY <2>1
  <2> QED
    BY <2>2, <2>3, <2>4
<1>6. CASE UNCHANGED mqVars
  BY <1>6 DEF mqVars
<1> QED
  BY <1>2, <1>3, <1>4, <1>5, <1>6, Frames

LEMMA TrainTypeStep == TypeInv /\ [Next]_vars => (TrainTypeOK /\ BatchInv)'
<1> SUFFICES ASSUME TypeInv, [Next]_vars PROVE TrainTypeOK' /\ BatchInv'
  OBVIOUS
<1>0. TrainTypeOK /\ BatchInv
  BY DEF TypeInv, TypeOK
<1> USE <1>0, Sizes, Shapes DEF TrainTypeOK, BatchInv
<1>1. CASE TrainerTake
  <2>1. queue # <<>> /\ Head(queue) \in 0..Total /\ tpc = "collect"
    BY <1>1, QueueOps DEF TrainerTake, TakeSample
  <2>2. CASE Head(queue) = Nothing
    <3>1. /\ tpc' = "final"
          /\ UNCHANGED <<batch, localStep, tversion, syncVersion, trained, staleUsed>>
      BY <1>1, <2>2 DEF TrainerTake
    <3>2. TrainTypeOK
      OBVIOUS
    <3> QED
      BY ONLY <3>1, <3>2 DEF TrainTypeOK, BatchInv
  <2>3. CASE Head(queue) # Nothing
    <3>1. batch' = Append(batch, Head(queue)) /\ Head(queue) \in Sample
      BY <1>1, <2>1, <2>3, SMTT(20) DEF TrainerTake
    <3>2. batch' \in Seq(Sample) /\ Len(batch') = Len(batch) + 1
      BY <3>1, BatchOps
    <3>3. /\ tpc' = IF Len(batch) + 1 = RequiredSamples THEN "train" ELSE "collect"
          /\ UNCHANGED <<localStep, tversion, syncVersion, trained, staleUsed>>
      BY <1>1, <2>3 DEF TrainerTake
    <3>4. Len(batch) < RequiredSamples /\ Len(batch) \in Nat /\ TrainTypeOK
      BY <2>1
    <3>5. RequiredSamples \in Nat
      OBVIOUS
    <3>6. tpc' \in {"collect", "train"} /\ (tpc' = "collect" => Len(batch') < RequiredSamples)
      BY ONLY <3>2, <3>3, <3>4, <3>5
    <3> QED
      BY ONLY <3>2, <3>3, <3>4, <3>5, <3>6, SMTT(20) DEF TrainTypeOK, BatchInv
  <2> QED
    BY <2>2, <2>3
<1>2. CASE TrainStep
  <2>1. Range(batch) \subseteq Sample
    BY DEF Range
  <2>2. StaleInBatch \in Nat
    BY <2>1, SampleSets DEF StaleInBatch
  <2>3. Len(<<>>) = 0 /\ <<>> \in Seq(Sample)
    BY EmptySeq
  <2>4. batch' = <<>> /\ trained' \subseteq Sample /\ syncVersion' = syncVersion
    BY <1>2, <2>1 DEF TrainStep
  <2>5. staleUsed' \in Nat
    BY <1>2, <2>2 DEF TrainStep
  <2>6. localStep' \in 1..TriggerStep /\ tversion' \in Nat /\ tpc' \in {"collect", "trigger"}
    <3>1. localStep \in 1..TriggerStep /\ tversion \in Nat
      OBVIOUS
    <3>2. CASE SyncDue
      BY <1>2, <3>1, <3>2 DEF TrainStep
    <3>3. CASE ~SyncDue
      <4>1. localStep < TriggerStep
        BY <3>1, <3>3 DEF SyncDue
      <4> QED
        BY <1>2, <3>1, <3>3, <4>1 DEF TrainStep
    <3> QED
      BY <3>2, <3>3
  <2> QED
    BY <2>3, <2>4, <2>5, <2>6, SMTT(20)
<1>3. CASE WeightsSynced \/ SyncBegin \/ TrainerFinal
  <2>1. Len(<<>>) = 0
    BY EmptySeq
  <2>2. CASE WeightsSynced
    BY <2>1, <2>2 DEF WeightsSynced
  <2>3. CASE SyncBegin
    BY <2>3 DEF SyncBegin, PassedOn
  <2>4. CASE TrainerFinal
    <3>1. /\ UNCHANGED <<batch, trained, staleUsed>> /\ tpc' \in {"finalSync", "ended"}
          /\ tversion' \in {tversion, tversion + 1} /\ localStep' \in {localStep, 1}
          /\ syncVersion' \in {syncVersion, tversion + 1}
      BY <2>4 DEF TrainerFinal
    <3>2. TrainTypeOK /\ 1 \in 1..TriggerStep
      OBVIOUS
    <3> QED
      BY ONLY <3>1, <3>2 DEF TrainTypeOK, BatchInv
  <2> QED
    BY <1>3, <2>2, <2>3, <2>4
<1>4. CASE TrainerWait \/ TrainerEnd \/ UNCHANGED trainVars
  BY <1>4 DEF TrainerWait, TrainerEnd, trainVars
<1> QED
  BY <1>1, <1>2, <1>3, <1>4, Frames DEF TrainerStep

\* Only the holder of the lock gives it up, and the others queue behind it
LEMMA LockStep == TypeInv /\ [Next]_vars => (LoopTypeOK /\ LockInv)'
<1> SUFFICES ASSUME TypeInv, [Next]_vars PROVE LoopTypeOK' /\ LockInv'
  OBVIOUS
<1>0. LoopTypeOK /\ LockInv
  BY DEF TypeInv, TypeOK, RollTypeOK
<1>1. CASE SyncStep
  <2> USE <1>0, LockOps DEF LoopTypeOK, LockInv, SyncHolds
  <2>1. CASE CallStart
    BY <2>1 DEF CallStart, Acquire
  <2>2. CASE PauseBegin \/ Update
    BY <2>2 DEF PauseBegin, Update, UpdateBegin, Owns, CanRun
  <2>3. CASE PauseGathered \/ UpdateQueueSize \/ UpdateStore
    BY <2>3 DEF PauseGathered, UpdateQueueSize, UpdateStore
  <2>4. CASE PauseEnd \/ UpdateEnd
    BY <2>4 DEF PauseEnd, UpdateEnd, ReleaseAndYield
  <2>5. CASE Resume
    BY <2>5 DEF Resume, Owns, CanRun, ReleaseAndYield
  <2>6. CASE WeightsSynced
    BY <2>6 DEF WeightsSynced
  <2> QED
    BY <1>1, <2>1, <2>2, <2>3, <2>4, <2>5, <2>6 DEF SyncStep
<1>2. CASE SyncBegin \/ TrainerFinal
  BY <1>0, <1>2 DEF SyncBegin, TrainerFinal, LoopTypeOK, LockInv, SyncHolds
<1>3. CASE RollStep
  <2>1. rpc' = rpc
    BY <1>3 DEF RollStep, Processor, Monitor, Main, Feed, ProcSeesPause, ProcSetPaused,
       ProcTakeCancelled, ProcTakePending, ProcWaitPending, ProcGetWoken, TakePending, ProcDrain,
       ProcDrained, ProcAwaitTasks, ProcReap, ProcNothingToReap, ProcResumeWait, ProcWoken,
       ProcSubmit, MonCheck, MonChecking, MonWake, MonUnpause, MainFinish, MainStop, MainStopped,
       syncVars
  <2>2. \/ UNCHANGED <<loop, lock>>
        \/ loop' \in Coroutine \cup {"idle"} /\ UNCHANGED lock
        \/ \E c \in {"processor", "monitor", "main"} : Acquire(c)
        \/ \E c \in {"processor", "monitor", "main"} :
              Owns(c) /\ lock' = Tail(lock) /\ loop' \in {c, "idle"}
    <3>1. CASE Feed \/ MainFinish
      BY <3>1 DEF Feed, MainFinish
    <3>2. CASE Processor
      BY <3>2 DEF Processor, ProcSeesPause, ProcSetPaused, ProcTakeCancelled, ProcTakePending,
         ProcWaitPending, ProcGetWoken, TakePending, Dispatch, ProcDrain, ProcDrained,
         ProcAwaitTasks, ProcReap, ProcNothingToReap, ProcResumeWait, ProcWoken, ProcSubmit,
         Release, ReleaseAndYield
    <3>3. CASE Monitor
      BY <3>3 DEF Monitor, MonCheck, MonChecking, MonWake, MonUnpause, Release, ReleaseAndYield
    <3>4. CASE MainStop \/ MainStopped
      BY <3>4 DEF MainStop, MainStopped, ReleaseAndYield
    <3> QED
      BY <1>3, <3>1, <3>2, <3>3, <3>4 DEF RollStep, Main
  <2>3. ASSUME NEW c \in {"processor", "monitor", "main"}, Acquire(c)
        PROVE  LoopTypeOK' /\ LockInv'
    BY <1>0, <2>1, <2>3, LockOps DEF Acquire, LoopTypeOK, LockInv
  <2>4. ASSUME NEW c \in {"processor", "monitor", "main"},
               Owns(c), lock' = Tail(lock), loop' \in {c, "idle"}
        PROVE  LoopTypeOK' /\ LockInv'
    BY <1>0, <2>1, <2>4, LockOps DEF Owns, LoopTypeOK, LockInv
  <2>5. CASE loop' \in Coroutine \cup {"idle"} /\ UNCHANGED lock
    BY <1>0, <2>1, <2>5 DEF LoopTypeOK, LockInv
  <2> QED
    BY <1>0, <2>2, <2>3, <2>4, <2>5 DEF LoopTypeOK
<1>4. CASE UNCHANGED <<loop, lock, rpc>>
  BY <1>0, <1>4 DEF LoopTypeOK, LockInv
<1> QED
  <2>1. ASSUME \/ TrainerWait \/ TrainerTake \/ TrainStep \/ TrainerEnd
               \/ (\E s \in Sample : TaskStep(s)) \/ Terminated \/ UNCHANGED vars
        PROVE  UNCHANGED <<loop, lock, rpc>>
    BY <2>1 DEF TrainerWait, TrainerTake, TrainStep, TrainerEnd, TaskStep, Task, TaskFinish,
       TaskPut, TaskCancel, TaskFail, Terminated, vars, rollVars, syncVars
  <2> QED
    BY <1>1, <1>2, <1>3, <1>4, <2>1 DEF Next, TrainerStep

LEMMA TypeStep == TypeInv /\ [Next]_vars => TypeInv'
BY FeedTypeStep, ProcTypeStep, FlagTypeStep, StalenessStep, TaskTypeStep, SyncTypeStep,
   LoopsTypeStep, QueueTypeStep, TrainTypeStep, LockStep
   DEF TypeInv, TypeOK, RollTypeOK

LEMMA TypeInit == Init => TypeInv
<1> SUFFICES ASSUME Init PROVE TypeInv
  OBVIOUS
<1> USE Sizes, TrainerAssumption DEF Init, RollInit, MQInit
<1>1. MQTypeOK(0..Total)
  BY DEF MQTypeOK
<1>2. LoopTypeOK /\ ProcTypeOK /\ FeedTypeOK /\ FlagTypeOK
  <2>1. LoopTypeOK /\ FlagTypeOK
    BY EmptySeq DEF LoopTypeOK, FlagTypeOK
  <2>2. held \in 0..Done /\ fed \in 0..Done /\ taken \in 0..Done /\ taken <= fed
    OBVIOUS
  <2>3. ppc \in ProcState /\ why \in {"pause", "limit", "done"} /\ doneBound \in BOOLEAN
    OBVIOUS
  <2> QED
    BY <2>1, <2>2, <2>3 DEF ProcTypeOK, FeedTypeOK
<1>3. TaskTypeOK /\ SyncTypeOK /\ LoopsTypeOK /\ staleness \in Nat
  <2>1. ver \in [Sample -> Nat]
    OBVIOUS
  <2>2. cancelQ \in Seq(Sample)
    BY EmptySeq
  <2>3. gen \subseteq Sample /\ putting \subseteq Sample /\ lost \subseteq Sample
    OBVIOUS
  <2>4. finished \in Nat /\ failed \in 0..finished
    OBVIOUS
  <2> QED
    BY <2>1, <2>2, <2>3, <2>4 DEF TaskTypeOK, SyncTypeOK, LoopsTypeOK
<1>4. TrainTypeOK /\ BatchInv
  BY EmptySeq DEF TrainTypeOK, BatchInv
<1>5. HeldInv /\ LockInv
  BY DEF HeldInv, LockInv, SyncHolds, Submitting, Reaping
<1> QED
  BY <1>1, <1>2, <1>3, <1>4, <1>5 DEF TypeInv, TypeOK, RollTypeOK

LEMMA TypeInvariant == Spec => []TypeInv
BY TypeInit, TypeStep, PTL DEF Spec

(* Every variable keeps its type: in particular the deque never outgrows   *)
(* max_queue_size, and the trainer's batch and step counter their limits.  *)
THEOREM TypeCorrect == Spec => []TypeOK
<1>1. TypeInv => TypeOK
  BY DEF TypeInv
<1> QED
  BY <1>1, TypeInvariant, PTL

-----------------------------------------------------------------------------
\* The processor falls asleep under the lock with `paused' set, and clearing
\* `paused' wakes it in the same step
LEMMA SleepStep == TypeInv /\ SleepsOnlyWhilePaused /\ [Next]_vars => SleepsOnlyWhilePaused'
<1> SUFFICES ASSUME TypeInv, SleepsOnlyWhilePaused, [Next]_vars PROVE SleepsOnlyWhilePaused'
  OBVIOUS
<1> USE DEF SleepsOnlyWhilePaused
<1>1. CASE Processor
  BY <1>1 DEF Processor, ProcSeesPause, ProcSetPaused, ProcTakeCancelled, ProcTakePending,
     ProcWaitPending, ProcGetWoken, TakePending, Dispatch, ProcDrain, ProcDrained,
     ProcAwaitTasks, ProcReap, ProcNothingToReap, ProcResumeWait, ProcWoken, ProcSubmit, flagVars
<1>2. CASE MonUnpause \/ Resume
  BY <1>2 DEF MonUnpause, Resume, Notified
<1>3. CASE PauseBegin \/ PauseEnd \/ MainStopped
  BY <1>3 DEF PauseBegin, PauseEnd, MainStopped, procVars
<1>4. CASE UNCHANGED <<procVars, flagVars>>
  BY <1>4 DEF procVars, flagVars
<1> QED
  BY <1>1, <1>2, <1>3, <1>4, Frames DEF Processor, procVars

(* A processor asleep on the condition is asleep because generation is     *)
(* paused: nobody clears `paused' without waking it.                       *)
THEOREM NoLostResume == Spec => []SleepsOnlyWhilePaused
<1>1. Init => SleepsOnlyWhilePaused
  BY DEF Init, RollInit, SleepsOnlyWhilePaused
<1> QED
  BY <1>1, SleepStep, TypeInvariant, PTL DEF Spec

-----------------------------------------------------------------------------
\* Samples in a task or in cancel_queue: what update_param_version counts first
Load == Cardinality(gen) + Cardinality(putting) + Len(cancelQ)

\* A task's own steps move its sample on and never add to any of the counts
LEMMA TaskSizes ==
  ASSUME TypeInv, NEW s \in Sample, Task(s)
  PROVE  /\ Active' \in Nat /\ Active' <= Active
         /\ Load' \in Nat /\ Load' <= Load
         /\ Len(queue') \in Nat /\ Load' + Len(queue') <= Load + Len(queue)
<1>0. /\ Cardinality(gen) \in Nat /\ Cardinality(putting) \in Nat /\ finished \in Nat
      /\ Len(cancelQ) \in Nat /\ Len(queue) \in Nat
  BY Shapes
<1>1. /\ gen \subseteq Sample /\ putting \subseteq Sample
      /\ cancelQ \in Seq(Sample) /\ queue \in Seq(0..Total) /\ Len(queue) <= MaxQueueSize
  BY Shapes
<1> DEFINE Goal == /\ Active' \in Nat /\ Active' <= Active
                   /\ Load' \in Nat /\ Load' <= Load
                   /\ Len(queue') \in Nat /\ Load' + Len(queue') <= Load + Len(queue)
<1>2. ASSUME TaskFinish(s) PROVE Goal
  <2>1. /\ gen' = gen \ {s} /\ s \in gen /\ putting' = putting \cup {s}
        /\ finished' = finished /\ cancelQ' = cancelQ /\ queue' = queue
    BY <1>2 DEF TaskFinish, mqVars
  <2>2. Cardinality(gen') = Cardinality(gen) - 1 /\ Cardinality(gen') \in Nat
    BY <1>1, <2>1, SampleSets
  <2>3. Cardinality(putting') <= Cardinality(putting) + 1 /\ Cardinality(putting') \in Nat
    BY <1>1, <2>1, SampleSets
  <2>4. finished' = finished /\ Len(cancelQ') = Len(cancelQ) /\ Len(queue') = Len(queue)
    BY <2>1
  <2>5. Active' \in Nat /\ Active' <= Active
    BY ONLY <1>0, <2>2, <2>3, <2>4, SMTT(20) DEF Active
  <2>6. Load' \in Nat /\ Load' <= Load
    BY ONLY <1>0, <2>2, <2>3, <2>4, SMTT(20) DEF Load
  <2>7. Len(queue') \in Nat /\ Load' + Len(queue') <= Load + Len(queue)
    BY ONLY <1>0, <2>2, <2>3, <2>4, SMTT(20) DEF Load
  <2> QED
    BY <2>5, <2>6, <2>7
<1>3. ASSUME TaskPut(s) PROVE Goal
  <2>1. /\ putting' = putting \ {s} /\ s \in putting /\ gen' = gen
        /\ finished' = finished + 1 /\ cancelQ' = cancelQ /\ queue' = Append(Kept, s)
    BY <1>3 DEF TaskPut, PutSample
  <2>2. Cardinality(putting') = Cardinality(putting) - 1 /\ Cardinality(putting') \in Nat
    BY <1>1, <2>1, SampleSets
  <2>3. Len(queue') \in Nat /\ Len(queue') <= Len(queue) + 1
    <3>1. s \in 0..Total
      OBVIOUS
    <3> QED
      BY <1>1, <2>1, <3>1, QueueOps, LenProperties
  <2>4. /\ Cardinality(gen') = Cardinality(gen) /\ finished' = finished + 1
        /\ Len(cancelQ') = Len(cancelQ)
    BY <2>1
  <2>5. Active' \in Nat /\ Active' <= Active
    BY ONLY <1>0, <2>2, <2>3, <2>4, SMTT(20) DEF Active
  <2>6. Load' \in Nat /\ Load' <= Load
    BY ONLY <1>0, <2>2, <2>3, <2>4, SMTT(20) DEF Load
  <2>7. Len(queue') \in Nat /\ Load' + Len(queue') <= Load + Len(queue)
    BY ONLY <1>0, <2>2, <2>3, <2>4, SMTT(20) DEF Load
  <2> QED
    BY <2>5, <2>6, <2>7
<1>4. ASSUME TaskCancel(s) \/ TaskFail(s) PROVE Goal
  <2>1. /\ gen' = gen \ {s} /\ s \in gen /\ putting' = putting
        /\ finished' = finished + 1 /\ cancelQ' \in {cancelQ, Append(cancelQ, s)}
        /\ queue' = queue
    BY <1>4 DEF TaskCancel, TaskFail, mqVars
  <2>2. Cardinality(gen') = Cardinality(gen) - 1 /\ Cardinality(gen') \in Nat
    BY <1>1, <2>1, SampleSets
  <2>3. Len(cancelQ') \in {Len(cancelQ), Len(cancelQ) + 1}
    BY <1>1, <2>1, CancelOps
  <2>4. /\ Cardinality(putting') = Cardinality(putting) /\ finished' = finished + 1
        /\ Len(queue') = Len(queue)
    BY <2>1
  <2>5. Active' \in Nat /\ Active' <= Active
    BY ONLY <1>0, <2>2, <2>3, <2>4, SMTT(20) DEF Active
  <2>6. Load' \in Nat /\ Load' <= Load
    BY ONLY <1>0, <2>2, <2>3, <2>4, SMTT(20) DEF Load
  <2>7. Len(queue') \in Nat /\ Load' + Len(queue') <= Load + Len(queue)
    BY ONLY <1>0, <2>2, <2>3, <2>4, SMTT(20) DEF Load
  <2> QED
    BY <2>5, <2>6, <2>7
<1> QED
  BY <1>2, <1>3, <1>4 DEF Task

\* Submitting turns the held sample into a task, if generation is not paused
LEMMA SubmitSizes ==
  ASSUME TypeInv, ProcSubmit
  PROVE  /\ Active' \in Nat /\ Active' <= Active + 1
         /\ paused => Active' = Active
         /\ Load' \in Nat /\ Load' + HeldSample' <= Load + HeldSample
<1> USE DEF Active, Load, HeldSample
<1>0. /\ Cardinality(gen) \in Nat /\ Cardinality(putting) \in Nat /\ gen \subseteq Sample
      /\ finished \in Nat /\ Len(cancelQ) \in Nat
  BY Shapes
<1>1. held \in Sample
  BY DEF ProcSubmit, TypeInv, HeldInv, Submitting
<1>2. putting' = putting /\ finished' = finished /\ cancelQ' = cancelQ
  BY DEF ProcSubmit
<1>3. CASE paused
  BY <1>0, <1>2, <1>3 DEF ProcSubmit
<1>4. CASE ~paused
  <2>1. gen' = gen \cup {held} /\ held' = Nothing
    BY <1>4 DEF ProcSubmit
  <2>2. Cardinality(gen') <= Cardinality(gen) + 1 /\ Cardinality(gen') \in Nat
    BY <1>0, <1>1, <2>1, SampleSets
  <2>3. HeldSample = 1 /\ HeldSample' = 0
    BY <1>1, <2>1
  <2> QED
    BY ONLY <1>0, <1>2, <1>4, <2>2, <2>3, SMTT(20) DEF Active, Load
<1> QED
  BY <1>3, <1>4

-----------------------------------------------------------------------------
\* The processor checks the limit, waits for the lock, perhaps for the end of a
\* pause, and only then adds its task: meanwhile nobody takes the free slot
SlotInv == Active <= MaxConcurrent /\ (ppc \in Submitting => Active < MaxConcurrent)

LEMMA SlotStep == TypeInv /\ SlotInv /\ [Next]_vars => SlotInv'
<1> SUFFICES ASSUME TypeInv, SlotInv, [Next]_vars PROVE SlotInv'
  OBVIOUS
<1>0. Active \in Nat /\ MaxConcurrent \in Nat
  BY Shapes, Sizes
<1>1. CASE ProcSubmit
  <2>1. ppc = "submit" /\ ppc' \in {"condSubmit", "top"} /\ (ppc' = "condSubmit" => paused)
    BY <1>1 DEF ProcSubmit
  <2> QED
    BY <1>0, <1>1, <2>1, SubmitSizes DEF SlotInv, Submitting
<1>2. CASE ~ProcSubmit
  <2>1. Active' \in Nat /\ Active' <= Active
    <3>1. CASE ProcReap \/ PauseGathered
      BY <3>1, Shapes DEF ProcReap, PauseGathered, Active
    <3>2. CASE UNCHANGED <<gen, putting, lost, finished, failed, ver>>
      BY <1>0, <3>2 DEF Active
    <3> QED
      BY <1>2, <3>1, <3>2, TaskSizes, Frames
  <2>2. ppc' \in Submitting => ppc \in Submitting \/ Active < MaxConcurrent
    <3>1. CASE ProcTakeCancelled \/ ProcTakePending \/ ProcGetWoken
      BY <1>0, <3>1 DEF ProcTakeCancelled, ProcTakePending, ProcGetWoken, TakePending, Dispatch,
         Submitting, AtLimit
    <3>2. CASE ProcDrained
      <4>1. why \in {"pause", "limit", "done"}
        BY DEF TypeInv, TypeOK, RollTypeOK, ProcTypeOK
      <4> QED
        BY <1>0, <3>2, <4>1 DEF ProcDrained, Draining, Submitting, AtLimit
    <3>3. CASE \/ ProcSeesPause \/ ProcSetPaused \/ ProcWaitPending \/ ProcDrain
               \/ ProcAwaitTasks \/ ProcReap \/ ProcNothingToReap \/ ProcResumeWait \/ ProcWoken
      BY <3>3 DEF ProcSeesPause, ProcSetPaused, ProcWaitPending, ProcDrain, ProcAwaitTasks,
         ProcReap, ProcNothingToReap, ProcResumeWait, ProcWoken, Submitting
    <3>4. CASE MonUnpause \/ Resume
      BY <3>4 DEF MonUnpause, Resume, Notified, Submitting
    <3>5. CASE UNCHANGED procVars
      BY <3>5 DEF procVars
    <3> QED
      BY <1>2, <3>1, <3>2, <3>3, <3>4, <3>5, Frames DEF Processor
  <2> QED
    BY <1>0, <2>1, <2>2 DEF SlotInv
<1> QED
  BY <1>1, <1>2

(* active_tasks never exceeds max_concurrent_samples.                      *)
THEOREM BoundedTasks == Spec => []ConcurrencyLimit
<1>1. Init => SlotInv
  BY Sizes, FS_EmptySet DEF Init, RollInit, SlotInv, Active, Submitting
<1>2. SlotInv => ConcurrencyLimit
  BY DEF SlotInv, ConcurrencyLimit
<1> QED
  BY <1>1, <1>2, SlotStep, TypeInvariant, PTL DEF Spec

-----------------------------------------------------------------------------
\* The staleness count covers what has been started, up to the held sample which
\* update_param_version forgets; while the count is being recomputed, in two
\* terms around a remote call, what it has so far covers what it should
BudgetInv ==
  mainpc = "run" =>
    /\ Outstanding + HeldSample <= staleness + 1
    /\ Outstanding + HeldSample <= MaxRequired + 1
    /\ ppc = "getWait" => Outstanding <= MaxRequired
    /\ rpc = "queueSize" => Load <= counted
    /\ rpc = "store" => Outstanding <= counted

LEMMA Counts ==
  TypeInv => /\ Load \in Nat /\ Len(queue) \in Nat
             /\ Outstanding \in Nat /\ Outstanding = Load + Len(queue)
             /\ HeldSample \in 0..1 /\ staleness \in Nat /\ counted \in Nat
<1> SUFFICES ASSUME TypeInv
             PROVE  /\ Load \in Nat /\ Len(queue) \in Nat
                    /\ Outstanding \in Nat /\ Outstanding = Load + Len(queue)
                    /\ HeldSample \in 0..1 /\ staleness \in Nat /\ counted \in Nat
  OBVIOUS
<1>1. /\ Cardinality(gen) \in Nat /\ Cardinality(putting) \in Nat
      /\ Len(cancelQ) \in Nat /\ Len(queue) \in Nat
  BY Shapes
<1>2. Load \in Nat /\ Outstanding \in Nat /\ Outstanding = Load + Len(queue)
  BY <1>1 DEF Load, Outstanding
<1>3. HeldSample \in 0..1
  BY DEF HeldSample
<1>4. staleness \in Nat /\ counted \in Nat
  BY DEF TypeInv, TypeOK, RollTypeOK, SyncTypeOK
<1> QED
  BY <1>1, <1>2, <1>3, <1>4

LEMMA CountsNext ==
  (TypeInv => /\ Load \in Nat /\ Len(queue) \in Nat
              /\ Outstanding \in Nat /\ Outstanding = Load + Len(queue)
              /\ HeldSample \in 0..1 /\ staleness \in Nat /\ counted \in Nat)'
BY Counts, PTL

\* The one way in: the processor takes a new sample, and counts it
LEMMA TakeNew ==
  ASSUME TypeInv, ProcTakePending \/ ProcGetWoken
  PROVE  /\ Load' = Load /\ Outstanding' = Outstanding /\ staleness' = staleness + 1
         /\ ppc' \in {"drain", "submit"} /\ UNCHANGED <<rpc, counted>>
         /\ ppc = "getWait" \/ staleness < MaxRequired
<1>1. UNCHANGED <<gen, putting, cancelQ, queue, rpc, counted>>
  BY DEF ProcTakePending, ProcGetWoken, TakePending, taskVars, mqVars, syncVars
<1>2. staleness' = staleness + 1 /\ ppc' \in {"drain", "submit"}
  BY DEF ProcTakePending, ProcGetWoken, TakePending, Dispatch
<1>3. ppc = "getWait" \/ staleness < MaxRequired
  <2>1. CASE ProcTakePending
    BY <2>1, Counts, Sizes DEF ProcTakePending, ShouldPause
  <2> QED
    BY <2>1 DEF ProcGetWoken
<1> QED
  BY <1>1, <1>2, <1>3 DEF Load, Outstanding

\* Every other step moves samples on or back, or takes them out
LEMMA MoveOn ==
  ASSUME TypeInv, TypeInv', [Next]_vars, mainpc' = "run", ~(ProcTakePending \/ ProcGetWoken)
  PROVE  /\ Outstanding' + HeldSample' <= Outstanding + HeldSample
         /\ ProcSubmit \/ (Load' <= Load /\ Outstanding' <= Outstanding)
<1>0. /\ Load \in Nat /\ Outstanding \in Nat /\ HeldSample \in 0..1 /\ Len(queue) \in Nat
      /\ Outstanding = Load + Len(queue)
  BY Counts
<1>1. CASE ProcTakeCancelled
  <2>1. /\ gen' = gen /\ putting' = putting /\ queue' = queue
        /\ cancelQ # <<>> /\ cancelQ' = Tail(cancelQ)
    BY <1>1 DEF ProcTakeCancelled, mqVars
  <2>2. Len(cancelQ') = Len(cancelQ) - 1
    BY <2>1, Shapes, CancelOps
  <2>3. Load' = Load - 1
    BY <2>1, <2>2, Shapes DEF Load
  <2>4. PICK o \in Nat, l \in Nat, h \in 0..1 :
           o = Outstanding' /\ l = Load' /\ h = HeldSample' /\ o = l + Len(queue)
    BY <2>1, CountsNext
  <2>5. l = Load - 1 /\ o = Outstanding - 1
    BY <1>0, <2>3, <2>4
  <2>6. o + h <= Outstanding + HeldSample
    BY <1>0, <2>4, <2>5
  <2>7. Load' <= Load /\ Outstanding' <= Outstanding
    BY <1>0, <2>4, <2>5
  <2>8. Outstanding' + HeldSample' <= Outstanding + HeldSample
    BY <2>4, <2>6
  <2> QED
    BY <2>7, <2>8
<1>2. CASE ProcSubmit
  <2>1. queue' = queue
    BY <1>2 DEF ProcSubmit, mqVars
  <2>2. Load' + HeldSample' <= Load + HeldSample
    BY <1>2, SubmitSizes
  <2>3. PICK o \in Nat, l \in Nat, h \in 0..1 :
           o = Outstanding' /\ l = Load' /\ h = HeldSample' /\ o = l + Len(queue)
    BY <2>1, CountsNext
  <2>4. l + h <= Load + HeldSample
    BY <2>2, <2>3
  <2>5. o + h <= Outstanding + HeldSample
    <3>1. PICK a \in Nat, b \in Nat, k \in 0..1, q \in Nat :
             a = Load /\ b = Outstanding /\ k = HeldSample /\ q = Len(queue) /\ b = a + q
      BY <1>0
    <3>2. l + h <= a + k /\ o = l + q
      BY <2>3, <2>4, <3>1
    <3>3. o + h <= b + k
      BY <3>1, <3>2
    <3> QED
      BY <3>1, <3>3
  <2>6. Outstanding' + HeldSample' <= Outstanding + HeldSample
    BY <2>3, <2>5
  <2> QED
    BY <1>2, <2>6
<1>3. ASSUME NEW s \in Sample, Task(s)
      PROVE  Outstanding' + HeldSample' <= Outstanding + HeldSample
             /\ Load' <= Load /\ Outstanding' <= Outstanding
  <2>1. held' = held
    BY <1>3 DEF Task, TaskFinish, TaskPut, TaskCancel, TaskFail, procVars
  <2>2. HeldSample' = HeldSample
    BY <2>1 DEF HeldSample
  <2>3. /\ Load' \in Nat /\ Load' <= Load /\ Len(queue') \in Nat
        /\ Load' + Len(queue') <= Load + Len(queue)
    BY <1>3, TaskSizes
  <2>4. Outstanding' = Load' + Len(queue')
    BY DEF Outstanding, Load
  <2> QED
    BY <1>0, <2>2, <2>3, <2>4
<1>4. CASE TrainerTake
  <2>1. /\ gen' = gen /\ putting' = putting /\ cancelQ' = cancelQ /\ held' = held
        /\ queue # <<>> /\ queue' = Tail(queue)
    BY <1>4 DEF TrainerTake, TakeSample, Rest, rollVars, taskVars, procVars
  <2>2. Len(queue') = Len(queue) - 1
    BY <2>1, Shapes, QueueOps
  <2>3. Load' = Load /\ HeldSample' = HeldSample
    BY <2>1 DEF Load, HeldSample
  <2>4. PICK o \in Nat, q \in Nat : o = Outstanding' /\ q = Len(queue') /\ o = Load + q
    BY <2>3, CountsNext
  <2>5. o = Outstanding - 1
    BY <1>0, <2>2, <2>4
  <2> QED
    BY <1>0, <2>3, <2>4, <2>5
<1>5. CASE UNCHANGED <<gen, putting, cancelQ, queue, held>>
  <2>1. Load' = Load /\ Outstanding' = Outstanding /\ HeldSample' = HeldSample
    BY <1>5 DEF Load, Outstanding, HeldSample
  <2> QED
    BY <1>0, <2>1
<1> QED
  <2>1. ~MainFinish
    BY DEF MainFinish
  <2>2. TrainerWait \/ UNCHANGED mqVars => queue' = queue
    BY DEF TrainerWait, WaitForSample, mqVars
  <2>3. ASSUME NEW s \in Sample, TaskPut(s) \/ TaskCancel(s) PROVE Task(s)
    BY <2>3 DEF Task
  <2>4. ASSUME ~ProcTakeCancelled, ~ProcSubmit, ~TrainerTake, ~\E s \in Sample : Task(s)
        PROVE  UNCHANGED <<gen, putting, cancelQ, queue, held>>
    BY <2>1, <2>2, <2>3, <2>4, Frames
  <2> QED
    BY <1>1, <1>2, <1>3, <1>4, <1>5, <2>4

\* How the count is recomputed: only update_param_version changes it
LEMMA CountingSteps ==
  ASSUME TypeInv, [Next]_vars
  PROVE  /\ rpc' = "queueSize" => Update \/ (rpc = "queueSize" /\ counted' = counted)
         /\ rpc' = "store" => UpdateQueueSize \/ (rpc = "store" /\ counted' = counted)
<1>1. CASE SyncStep
  BY <1>1 DEF SyncStep, CallStart, PauseBegin, PauseGathered, PauseEnd, UpdateQueueSize,
     UpdateStore, UpdateEnd, Resume, WeightsSynced, Update, UpdateBegin
<1>2. CASE SyncBegin \/ TrainerFinal
  BY <1>2 DEF SyncBegin, TrainerFinal
<1>3. CASE UNCHANGED rpc
  <2>1. CASE Update \/ UpdateQueueSize \/ UpdateStore
    BY <1>3, <2>1 DEF Update, UpdateBegin, UpdateQueueSize, UpdateStore
  <2> QED
    BY <1>3, <2>1, Frames
<1> QED
  BY <1>1, <1>2, <1>3, Frames

LEMMA BudgetStep == TypeInv /\ TypeInv' /\ BudgetInv /\ [Next]_vars => BudgetInv'
<1> SUFFICES ASSUME TypeInv, TypeInv', BudgetInv, [Next]_vars, mainpc' = "run"
             PROVE  /\ Outstanding' + HeldSample' <= staleness' + 1
                    /\ Outstanding' + HeldSample' <= MaxRequired + 1
                    /\ ppc' = "getWait" => Outstanding' <= MaxRequired
                    /\ rpc' = "queueSize" => Load' <= counted'
                    /\ rpc' = "store" => Outstanding' <= counted'
  BY Sizes DEF BudgetInv, MaxRequired
<1> DEFINE New == ProcTakePending \/ ProcGetWoken
<1>1. mainpc = "run"
  BY Frames DEF Main, MainFinish, MainStop, MainStopped
<1>2. /\ Outstanding + HeldSample <= staleness + 1
      /\ Outstanding + HeldSample <= MaxRequired + 1
      /\ ppc = "getWait" => Outstanding <= MaxRequired
      /\ rpc = "queueSize" => Load <= counted
      /\ rpc = "store" => Outstanding <= counted
  BY <1>1 DEF BudgetInv
<1>3. /\ Load \in Nat /\ Outstanding \in Nat /\ HeldSample \in 0..1
      /\ staleness \in Nat /\ counted \in Nat /\ MaxRequired \in Nat /\ Len(queue) \in Nat
      /\ Outstanding = Load + Len(queue)
  BY Counts, Sizes
<1>4. /\ Outstanding' \in Nat /\ Load' \in Nat /\ staleness' \in Nat /\ counted' \in Nat
      /\ HeldSample' \in 0..1
  BY CountsNext
\* Names for the sizes after the step
<1>5. PICK o \in Nat, h \in 0..1, n \in Nat : o = Outstanding' /\ h = HeldSample' /\ n = staleness'
  BY <1>4
<1>6. rpc \in SyncHolds => ~ProcSubmit
  BY DEF TypeInv, LockInv, ProcSubmit, Owns
<1>7. New => /\ Load' = Load /\ o = Outstanding /\ n = staleness + 1
             /\ ppc' \in {"drain", "submit"} /\ UNCHANGED <<rpc, counted>>
             /\ ppc = "getWait" \/ staleness < MaxRequired
  BY <1>5, TakeNew
<1>8. ~New => /\ o + h <= Outstanding + HeldSample
              /\ ProcSubmit \/ (Load' <= Load /\ o <= Outstanding)
  BY <1>5, MoveOn
<1> HIDE DEF New
<1>9. o + h <= n + 1
  <2>1. CASE New
    BY <2>1, <1>2, <1>3, <1>7
  <2>2. CASE ~New /\ UpdateStore
    <3>1. rpc = "store" /\ n = counted
      BY <2>2, <1>5 DEF UpdateStore, NewStaleness
    <3>2. o <= Outstanding
      BY <3>1, <1>6, <1>8, <2>2 DEF SyncHolds
    <3> QED
      BY <3>1, <3>2, <1>2, <1>3
  <2>3. CASE ~New /\ ~UpdateStore
    <3>1. n = staleness
      BY <2>3, <1>5, Frames DEF New
    <3> QED
      BY <2>3, <3>1, <1>2, <1>3, <1>8
  <2> QED
    BY <2>1, <2>2, <2>3
<1>10. o + h <= MaxRequired + 1
  <2>1. CASE New
    BY <2>1, <1>2, <1>3, <1>7
  <2>2. CASE ~New
    BY <2>2, <1>2, <1>3, <1>8
  <2> QED
    BY <2>1, <2>2
<1>11. ASSUME ppc' = "getWait" PROVE o <= MaxRequired
  <2>1. ~New /\ (ppc = "getWait" \/ ProcWaitPending)
    <3>1. ~New
      BY <1>7, <1>11
    <3>2. CASE Processor
      BY <1>11, <3>1, <3>2 DEF New, Processor, ProcSeesPause, ProcSetPaused, ProcTakeCancelled,
         Dispatch, ProcDrain, ProcDrained, ProcAwaitTasks, ProcReap, ProcNothingToReap,
         ProcResumeWait, ProcWoken, ProcSubmit
    <3>3. CASE MonUnpause \/ Resume
      BY <1>11, <3>1, <3>3 DEF MonUnpause, Resume, Notified
    <3>4. CASE UNCHANGED procVars
      BY <1>11, <3>1, <3>4 DEF procVars
    <3> QED
      BY <3>1, <3>2, <3>3, <3>4, Frames
  <2>2. o <= Outstanding
    <3>1. ~ProcSubmit
      BY <1>11 DEF ProcSubmit
    <3> QED
      BY <2>1, <3>1, <1>8
  <2>3. CASE ProcWaitPending
    <3>1. staleness < MaxRequired
      BY <2>3, <1>3 DEF ProcWaitPending, ShouldPause
    <3> QED
      BY <3>1, <2>2, <1>2, <1>3, <1>4
  <2> QED
    BY <2>1, <2>2, <2>3, <1>2, <1>3, <1>4
<1>12. ASSUME rpc' = "queueSize" PROVE Load' <= counted'
  <2>1. CASE Update
    <3>1. /\ counted' = Cardinality(gen) + Cardinality(putting) + finished + Len(cancelQ)
          /\ UNCHANGED <<gen, putting, cancelQ>>
      BY <2>1 DEF Update, UpdateBegin, Started, Active, taskVars
    <3>2. Load' = Cardinality(gen) + Cardinality(putting) + Len(cancelQ)
      BY <3>1 DEF Load
    <3> QED
      BY <3>1, <3>2, Shapes
  <2>2. CASE rpc = "queueSize" /\ counted' = counted
    <3>1. Load' <= Load
      BY <2>2, <1>6, <1>7, <1>8, <1>3 DEF SyncHolds
    <3> QED
      BY <2>2, <3>1, <1>2, <1>3, <1>4
  <2> QED
    BY <1>12, <2>1, <2>2, CountingSteps
<1>13. ASSUME rpc' = "store" PROVE o <= counted'
  <2>1. CASE UpdateQueueSize
    <3>1. /\ rpc = "queueSize" /\ counted' = counted + Len(queue)
          /\ UNCHANGED <<gen, putting, cancelQ, queue>>
      BY <2>1 DEF UpdateQueueSize, taskVars, mqVars
    <3>2. o = Outstanding
      BY <1>5, <3>1 DEF Outstanding
    <3> QED
      BY <3>1, <3>2, <1>2, <1>3
  <2>2. CASE rpc = "store" /\ counted' = counted
    <3>1. o <= Outstanding
      BY <2>2, <1>6, <1>7, <1>8, <1>3 DEF SyncHolds
    <3> QED
      BY <2>2, <3>1, <1>2, <1>3, <1>4
  <2> QED
    BY <1>13, <2>1, <2>2, CountingSteps
<1> QED
  BY <1>5, <1>9, <1>10, <1>11, <1>12, <1>13

(* While the rollout runs, the samples started and not yet trained on stay *)
(* within max_required_samples, but for the one the processor holds.       *)
THEOREM BoundedStaleness == Spec => []OutstandingBound
<1>1. Init => BudgetInv
  <2> SUFFICES ASSUME Init PROVE BudgetInv
    OBVIOUS
  <2>1. gen = {} /\ putting = {} /\ cancelQ = <<>> /\ queue = <<>> /\ held = 0 /\ staleness = 0
        /\ rpc = "idle" /\ ppc = "top"
    BY DEF Init, RollInit, MQInit
  <2>2. Outstanding = 0 /\ HeldSample = 0
    BY <2>1, FS_EmptySet, EmptySeq, Sizes DEF Outstanding, HeldSample
  <2> QED
    BY <2>1, <2>2, Sizes DEF BudgetInv
<1>2. BudgetInv => OutstandingBound
  BY DEF BudgetInv, OutstandingBound
<1> QED
  BY <1>1, <1>2, BudgetStep, TypeInvariant, PTL DEF Spec

(* What the Rollouter has in flight is bounded, in tasks and in samples.   *)
THEOREM BoundedInFlight == Spec => []InFlightBounded
<1>1. ConcurrencyLimit /\ OutstandingBound => InFlightBounded
  BY DEF InFlightBounded
<1> QED
  BY <1>1, BoundedTasks, BoundedStaleness, PTL

-----------------------------------------------------------------------------
\* The nine places OnePlace names
In(s, i) ==
  \/ i = 1 /\ s > taken
  \/ i = 2 /\ s = held
  \/ i = 3 /\ s \in gen
  \/ i = 4 /\ s \in putting
  \/ i = 5 /\ s \in Range(cancelQ)
  \/ i = 6 /\ s \in Range(queue)
  \/ i = 7 /\ s \in Range(batch)
  \/ i = 8 /\ s \in trained
  \/ i = 9 /\ s \in lost

Exclusive == \A s \in Sample : \A i, j \in 1..9 : In(s, i) /\ In(s, j) => i = j

Unrepeated ==
  /\ IsInjective(cancelQ) /\ IsInjective(batch) /\ IsInjective(queue)
  /\ mainpc = "run" => 0 \notin Range(queue)

PlaceInv == Exclusive /\ Unrepeated

placeVars == <<taken, held, gen, putting, cancelQ, queue, batch, trained, lost>>

-----------------------------------------------------------------------------
\* What a sequence holds after an element enters or leaves it
LEMMA SeqAdd ==
  ASSUME NEW S, NEW q \in Seq(S), NEW x \in S
  PROVE  /\ Range(Append(q, x)) = Range(q) \cup {x}
         /\ IsInjective(q) /\ x \notin Range(q) => IsInjective(Append(q, x))
<1>1. /\ Append(q, x) \in Seq(S) /\ Len(Append(q, x)) = Len(q) + 1
      /\ \A i \in 1..Len(q) : Append(q, x)[i] = q[i]
      /\ Append(q, x)[Len(q) + 1] = x
  BY AppendProperties
<1>2. Len(q) \in Nat /\ DOMAIN q = 1..Len(q) /\ DOMAIN Append(q, x) = 1..(Len(q) + 1)
  BY <1>1, LenProperties
<1>3. Range(Append(q, x)) = Range(q) \cup {x}
  BY <1>1, <1>2 DEF Range
<1>4. IsInjective(q) /\ x \notin Range(q) => IsInjective(Append(q, x))
  BY <1>1, <1>2 DEF Range, IsInjective
<1> QED
  BY <1>3, <1>4

LEMMA SeqRest ==
  ASSUME NEW S, NEW q \in Seq(S), q # <<>>
  PROVE  /\ Head(q) \in Range(q) /\ Range(Tail(q)) \subseteq Range(q)
         /\ IsInjective(q) => IsInjective(Tail(q)) /\ Head(q) \notin Range(Tail(q))
<1>1. /\ Tail(q) \in Seq(S) /\ Len(Tail(q)) = Len(q) - 1 /\ Head(q) = q[1]
      /\ \A i \in 1..Len(Tail(q)) : Tail(q)[i] = q[i + 1]
  BY HeadTailProperties
<1>2. Len(q) \in Nat \ {0} /\ DOMAIN q = 1..Len(q) /\ DOMAIN Tail(q) = 1..(Len(q) - 1)
  BY <1>1, LenProperties, EmptySeq
<1>3. Head(q) \in Range(q) /\ Range(Tail(q)) \subseteq Range(q)
  BY <1>1, <1>2 DEF Range
<1>4. ASSUME IsInjective(q) PROVE IsInjective(Tail(q)) /\ Head(q) \notin Range(Tail(q))
  BY <1>1, <1>2, <1>4 DEF Range, IsInjective
<1> QED
  BY <1>3, <1>4

\* What put_sample does to the samples in the queue
LEMMA QueueAdd ==
  ASSUME TypeInv, Unrepeated, NEW x \in 0..Total, x \notin Range(queue), PutSample(x)
  PROVE  Range(queue') \subseteq Range(queue) \cup {x} /\ IsInjective(queue')
<1>1. queue \in Seq(0..Total) /\ queue' = Append(Kept, x) /\ IsInjective(queue)
  BY Shapes DEF PutSample, Unrepeated
<1>2. Kept \in Seq(0..Total) /\ Range(Kept) \subseteq Range(queue) /\ IsInjective(Kept)
  <2>1. CASE Full
    <3>1. queue # <<>>
      BY <2>1, EmptySeq, MaxQueueSizeAssumption DEF Full
    <3>2. Kept = Tail(queue)
      BY <2>1, Zenon DEF Kept
    <3> QED
      BY <1>1, <3>1, <3>2, SeqRest, HeadTailProperties
  <2>2. CASE ~Full
    BY <1>1, <2>2 DEF Kept
  <2> QED
    BY <2>1, <2>2
<1>3. x \notin Range(Kept)
  BY <1>2
<1>4. Range(Append(Kept, x)) = Range(Kept) \cup {x} /\ IsInjective(Append(Kept, x))
  <2> DEFINE Item == 0..Total
  <2>1. Kept \in Seq(Item) /\ x \in Item
    BY <1>2
  <2> HIDE DEF Item
  <2> QED
    BY <1>2, <1>3, <2>1, SeqAdd
<1> QED
  BY <1>1, <1>2, <1>4

\* Only these steps move samples
LEMMA PlaceMoves ==
  ASSUME [Next]_vars
  PROVE  \/ UNCHANGED placeVars
         \/ /\ UNCHANGED <<batch, trained>>
            /\ \/ ProcTakeCancelled \/ ProcTakePending \/ ProcGetWoken \/ ProcSubmit \/ MainFinish
               \/ \E s \in Sample : Task(s)
         \/ TrainerTake \/ TrainStep
<1>1. CASE UNCHANGED trainVars
  <2> SUFFICES ASSUME ~ProcTakeCancelled, ~ProcTakePending, ~ProcGetWoken, ~ProcSubmit,
                      ~\E s \in Sample : Task(s), ~MainFinish, ~TrainerTake
               PROVE  UNCHANGED placeVars
    BY <1>1 DEF trainVars
  <2>1. taken' = taken
    BY Frames DEF feedVars, Feed
  <2>2. held' = held /\ UNCHANGED <<gen, putting>>
    BY Frames
  <2>3. lost' = lost
    BY Frames DEF ProcReap, PauseGathered
  <2>4. \A s \in Sample : ~TaskCancel(s) /\ ~TaskPut(s)
    BY DEF Task
  <2>5. cancelQ' = cancelQ
    BY <2>4, Frames
  <2>6. queue' = queue
    BY <2>4, Frames DEF mqVars, TrainerWait, WaitForSample
  <2> QED
    BY <1>1, <2>1, <2>2, <2>3, <2>5, <2>6 DEF placeVars, trainVars
<1>2. CASE WeightsSynced
  BY <1>2 DEF WeightsSynced, placeVars, feedVars, procVars, taskVars, mqVars
<1>3. CASE SyncBegin \/ TrainerFinal
  BY <1>3 DEF SyncBegin, TrainerFinal, placeVars, feedVars, procVars, taskVars, mqVars
<1>4. CASE TrainerWait \/ TrainerEnd
  BY <1>4 DEF TrainerWait, WaitForSample, TrainerEnd, placeVars, rollVars, feedVars, procVars,
     taskVars, mqVars, trainVars
<1> QED
  BY <1>1, <1>2, <1>3, <1>4, Frames DEF TrainerStep

-----------------------------------------------------------------------------
\* A step that moves samples from place p to place q, and takes some out
LEMMA Moved ==
  ASSUME Exclusive, NEW p \in 1..9, NEW q \in 1..9,
         \A s \in Sample : \A i \in 1..9 :
            In(s, i)' => In(s, i) \/ (i = q /\ In(s, p) /\ ~In(s, p)')
  PROVE  Exclusive'
BY DEF Exclusive

LEMMA PlaceStep == TypeInv /\ PlaceInv /\ [Next]_vars => PlaceInv'
<1> SUFFICES ASSUME TypeInv, PlaceInv, [Next]_vars PROVE PlaceInv'
  OBVIOUS
<1>0. /\ Exclusive /\ Unrepeated
      /\ taken \in Nat /\ queue \in Seq(0..Total) /\ cancelQ \in Seq(Sample) /\ batch \in Seq(Sample)
      /\ gen \subseteq Sample /\ putting \subseteq Sample
  BY Shapes, Sizes DEF PlaceInv, TypeInv, TypeOK, RollTypeOK, FeedTypeOK
<1>1. CASE UNCHANGED placeVars
  <2>1. mainpc' = "run" => mainpc = "run"
    BY Frames DEF Main, MainFinish, MainStop, MainStopped
  <2>2. \A s \in Sample : \A i \in 1..9 :
          In(s, i)' => In(s, i) \/ (i = 1 /\ In(s, 1) /\ ~In(s, 1)')
    BY <1>1 DEF placeVars, In
  <2>3. Exclusive'
    BY <1>0, <2>2, Moved
  <2>4. Unrepeated'
    BY <1>0, <1>1, <2>1 DEF placeVars, Unrepeated
  <2> QED
    BY <2>3, <2>4 DEF PlaceInv
<1>2. CASE UNCHANGED <<batch, trained>> /\ (ProcTakePending \/ ProcGetWoken)
  <2>1. /\ held' = taken + 1 /\ taken' = taken + 1
        /\ UNCHANGED <<gen, putting, cancelQ, queue, batch, trained, lost, mainpc>>
    BY <1>2 DEF ProcTakePending, ProcGetWoken, TakePending, Dispatch, taskVars, mqVars
  <2>2. \A s \in Sample : \A i \in 1..9 :
          In(s, i)' => In(s, i) \/ (i = 2 /\ In(s, 1) /\ ~In(s, 1)')
    BY <1>0, <2>1 DEF In
  <2>3. Exclusive'
    BY <1>0, <2>2, Moved
  <2>4. Unrepeated'
    BY <1>0, <2>1 DEF Unrepeated
  <2> QED
    BY <2>3, <2>4 DEF PlaceInv
<1>3. CASE UNCHANGED <<batch, trained>> /\ ProcTakeCancelled
  <2>1. /\ cancelQ # <<>> /\ held' = Head(cancelQ) /\ cancelQ' = Tail(cancelQ)
        /\ UNCHANGED <<taken, gen, putting, queue, batch, trained, lost, mainpc>>
    BY <1>3 DEF ProcTakeCancelled, Dispatch, feedVars, mqVars
  <2>2. /\ Head(cancelQ) \in Range(cancelQ) /\ Range(cancelQ') \subseteq Range(cancelQ)
        /\ IsInjective(cancelQ') /\ Head(cancelQ) \notin Range(cancelQ')
    BY <1>0, <2>1, SeqRest DEF Unrepeated
  <2>3. \A s \in Sample : \A i \in 1..9 :
          In(s, i)' => In(s, i) \/ (i = 2 /\ In(s, 5) /\ ~In(s, 5)')
    BY <1>0, <2>1, <2>2 DEF In
  <2>4. Exclusive'
    BY <1>0, <2>3, Moved
  <2>5. Unrepeated'
    BY <1>0, <2>1, <2>2 DEF Unrepeated
  <2> QED
    BY <2>4, <2>5 DEF PlaceInv
<1>4. CASE UNCHANGED <<batch, trained>> /\ ProcSubmit
  <2>1. UNCHANGED <<taken, putting, cancelQ, queue, batch, trained, lost, mainpc>>
    BY <1>4 DEF ProcSubmit, feedVars, mqVars
  <2>2. UNCHANGED <<held, gen>> \/ (held' = 0 /\ gen' = gen \cup {held})
    BY <1>4 DEF ProcSubmit
  <2>3. \A s \in Sample : \A i \in 1..9 :
          In(s, i)' => In(s, i) \/ (i = 3 /\ In(s, 2) /\ ~In(s, 2)')
    BY <1>0, <2>1, <2>2 DEF In
  <2>4. Exclusive'
    BY <1>0, <2>3, Moved
  <2>5. Unrepeated'
    BY <1>0, <2>1, <2>2 DEF Unrepeated
  <2> QED
    BY <2>4, <2>5 DEF PlaceInv
<1>5. ASSUME UNCHANGED <<batch, trained>>, NEW t \in Sample, Task(t) PROVE PlaceInv'
  <2>1. CASE TaskFinish(t)
    <3>1. /\ t \in gen /\ gen' = gen \ {t} /\ putting' = putting \cup {t}
          /\ UNCHANGED <<taken, held, cancelQ, queue, batch, trained, lost, mainpc>>
      BY <1>5, <2>1 DEF TaskFinish, feedVars, procVars, mqVars
    <3>2. \A s \in Sample : \A i \in 1..9 :
            In(s, i)' => In(s, i) \/ (i = 4 /\ In(s, 3) /\ ~In(s, 3)')
      BY <3>1 DEF In
    <3>3. Exclusive'
      BY <1>0, <3>2, Moved
    <3>4. Unrepeated'
      BY <1>0, <3>1 DEF Unrepeated
    <3> QED
      BY <3>3, <3>4 DEF PlaceInv
  <2>2. CASE TaskPut(t)
    <3>1. /\ t \in putting /\ putting' = putting \ {t} /\ PutSample(t)
          /\ UNCHANGED <<taken, held, gen, cancelQ, batch, trained, lost, mainpc>>
      BY <1>5, <2>2 DEF TaskPut, feedVars, procVars
    <3>2. t \notin Range(queue)
      BY <1>0, <3>1 DEF Exclusive, In
    <3>3. Range(queue') \subseteq Range(queue) \cup {t} /\ IsInjective(queue')
      BY <1>0, <3>1, <3>2, QueueAdd
    <3>4. \A s \in Sample : \A i \in 1..9 :
            In(s, i)' => In(s, i) \/ (i = 6 /\ In(s, 4) /\ ~In(s, 4)')
      BY <3>1, <3>3 DEF In
    <3>5. Exclusive'
      BY <1>0, <3>4, Moved
    <3>6. Unrepeated'
      BY <1>0, <3>1, <3>3, Sizes DEF Unrepeated
    <3> QED
      BY <3>5, <3>6 DEF PlaceInv
  <2>3. CASE TaskCancel(t)
    <3>1. /\ t \in gen /\ gen' = gen \ {t} /\ cancelQ' = Append(cancelQ, t)
          /\ UNCHANGED <<taken, held, putting, queue, batch, trained, lost, mainpc>>
      BY <1>5, <2>3 DEF TaskCancel, feedVars, procVars, mqVars
    <3>2. t \notin Range(cancelQ)
      BY <1>0, <3>1 DEF Exclusive, In
    <3>3. Range(cancelQ') = Range(cancelQ) \cup {t} /\ IsInjective(cancelQ')
      <4>1. /\ Range(Append(cancelQ, t)) = Range(cancelQ) \cup {t}
            /\ IsInjective(Append(cancelQ, t))
        <5> DEFINE Item == Sample
        <5>1. cancelQ \in Seq(Item) /\ t \in Item /\ IsInjective(cancelQ)
          BY <1>0, <1>5 DEF Unrepeated
        <5> HIDE DEF Item
        <5> QED
          BY <3>2, <5>1, SeqAdd
      <4> QED
        BY <3>1, <4>1
    <3>4. \A s \in Sample : \A i \in 1..9 :
            In(s, i)' => In(s, i) \/ (i = 5 /\ In(s, 3) /\ ~In(s, 3)')
      BY <3>1, <3>3 DEF In
    <3>5. Exclusive'
      BY <1>0, <3>4, Moved
    <3>6. Unrepeated'
      BY <1>0, <3>1, <3>3 DEF Unrepeated
    <3> QED
      BY <3>5, <3>6 DEF PlaceInv
  <2>4. CASE TaskFail(t)
    <3>1. /\ t \in gen /\ gen' = gen \ {t} /\ lost' = lost \cup {t}
          /\ UNCHANGED <<taken, held, putting, cancelQ, queue, batch, trained, mainpc>>
      BY <1>5, <2>4 DEF TaskFail, feedVars, procVars, mqVars
    <3>2. \A s \in Sample : \A i \in 1..9 :
            In(s, i)' => In(s, i) \/ (i = 9 /\ In(s, 3) /\ ~In(s, 3)')
      BY <3>1 DEF In
    <3>3. Exclusive'
      BY <1>0, <3>2, Moved
    <3>4. Unrepeated'
      BY <1>0, <3>1 DEF Unrepeated
    <3> QED
      BY <3>3, <3>4 DEF PlaceInv
  <2> QED
    BY <1>5, <2>1, <2>2, <2>3, <2>4 DEF Task
<1>6. CASE UNCHANGED <<batch, trained>> /\ MainFinish
  <2>1. /\ mainpc = "run" /\ mainpc' = "finish" /\ PutSample(0)
        /\ UNCHANGED <<taken, held, gen, putting, cancelQ, batch, trained, lost>>
    BY <1>6 DEF MainFinish, feedVars, procVars, taskVars
  <2>2. Range(queue') \subseteq Range(queue) \cup {0} /\ IsInjective(queue')
    BY <1>0, <2>1, QueueAdd, Sizes DEF Unrepeated
  <2>3. \A s \in Sample : \A i \in 1..9 :
          In(s, i)' => In(s, i) \/ (i = 6 /\ In(s, 6) /\ ~In(s, 6)')
    BY <2>1, <2>2, Sizes DEF In
  <2>4. Exclusive'
    BY <1>0, <2>3, Moved
  <2>5. Unrepeated'
    BY <1>0, <2>1, <2>2 DEF Unrepeated
  <2> QED
    BY <2>4, <2>5 DEF PlaceInv
<1>7. CASE TrainerTake
  <2>1. /\ queue # <<>> /\ queue' = Tail(queue)
        /\ \/ batch' = batch
           \/ Head(queue) # 0 /\ batch' = Append(batch, Head(queue))
        /\ UNCHANGED <<taken, held, gen, putting, cancelQ, trained, lost, mainpc>>
    BY <1>7 DEF TrainerTake, TakeSample, Rest, rollVars, feedVars, procVars, taskVars
  <2>2. /\ Head(queue) \in Range(queue) /\ Range(queue') \subseteq Range(queue)
        /\ IsInjective(queue') /\ Head(queue) \notin Range(queue')
    BY <1>0, <2>1, SeqRest DEF Unrepeated
  <2>3. CASE batch' = batch
    <3>1. \A s \in Sample : \A i \in 1..9 :
            In(s, i)' => In(s, i) \/ (i = 6 /\ In(s, 6) /\ ~In(s, 6)')
      BY <2>1, <2>2, <2>3 DEF In
    <3>2. Exclusive'
      BY <1>0, <3>1, Moved
    <3>3. Unrepeated'
      BY <1>0, <2>1, <2>2, <2>3 DEF Unrepeated
    <3> QED
      BY <3>2, <3>3 DEF PlaceInv
  <2>4. CASE Head(queue) # 0 /\ batch' = Append(batch, Head(queue))
    <3>1. Head(queue) \in Sample
      BY <1>0, <2>1, <2>4, HeadTailProperties, Sizes
    <3>2. Head(queue) \notin Range(batch)
      BY <1>0, <2>2, <3>1 DEF Exclusive, In
    <3>3. Range(batch') = Range(batch) \cup {Head(queue)} /\ IsInjective(batch')
      <4> DEFINE Item == Sample
      <4>1. batch \in Seq(Item) /\ Head(queue) \in Item /\ IsInjective(batch)
        BY <1>0, <3>1 DEF Unrepeated
      <4> HIDE DEF Item
      <4> QED
        BY <2>4, <3>2, <4>1, SeqAdd
    <3>4. \A s \in Sample : \A i \in 1..9 :
            In(s, i)' => In(s, i) \/ (i = 7 /\ In(s, 6) /\ ~In(s, 6)')
      BY <2>1, <2>2, <3>3 DEF In
    <3>5. Exclusive'
      BY <1>0, <3>4, Moved
    <3>6. Unrepeated'
      BY <1>0, <2>1, <2>2, <3>3 DEF Unrepeated
    <3> QED
      BY <3>5, <3>6 DEF PlaceInv
  <2> QED
    BY <2>1, <2>3, <2>4
<1>8. CASE TrainStep
  <2>1. /\ batch' = <<>> /\ trained' = trained \cup Range(batch)
        /\ UNCHANGED <<taken, held, gen, putting, cancelQ, queue, lost, mainpc>>
    BY <1>8 DEF TrainStep, rollVars, feedVars, procVars, taskVars, mqVars
  <2>2. Range(batch') = {} /\ IsInjective(batch')
    BY <2>1 DEF Range, IsInjective
  <2>3. \A s \in Sample : \A i \in 1..9 :
          In(s, i)' => In(s, i) \/ (i = 8 /\ In(s, 7) /\ ~In(s, 7)')
    BY <2>1, <2>2 DEF In
  <2>4. Exclusive'
    BY <1>0, <2>3, Moved
  <2>5. Unrepeated'
    BY <1>0, <2>1, <2>2 DEF Unrepeated
  <2> QED
    BY <2>4, <2>5 DEF PlaceInv
<1> QED
  BY <1>1, <1>2, <1>3, <1>4, <1>5, <1>6, <1>7, <1>8, PlaceMoves

LEMMA PlaceInit == Init => PlaceInv
<1> SUFFICES ASSUME Init PROVE PlaceInv
  OBVIOUS
<1>1. /\ queue = <<>> /\ batch = <<>> /\ cancelQ = <<>> /\ taken = 0 /\ held = 0
      /\ gen = {} /\ putting = {} /\ lost = {} /\ trained = {}
  BY DEF Init, RollInit, MQInit
<1>2. Range(<<>>) = {} /\ IsInjective(<<>>)
  BY DEF Range, IsInjective
<1> QED
  BY <1>1, <1>2, Sizes DEF PlaceInv, Exclusive, Unrepeated, In

LEMMA PlaceInvariant == Spec => []PlaceInv
BY PlaceInit, PlaceStep, TypeInvariant, PTL DEF Spec

\* At most one place of nine, as a number
LEMMA AtMostOne ==
  ASSUME NEW P, P \subseteq 1..9, \A i, j \in P : i = j
  PROVE  Cardinality(P) <= 1
<1>1. CASE P = {}
  BY <1>1, FS_EmptySet
<1>2. CASE P # {}
  <2>1. PICK i \in P : TRUE
    BY <1>2
  <2>2. P = {i}
    BY <2>1
  <2>3. Cardinality({i}) = 1
    BY FS_Singleton
  <2> QED
    BY <2>2, <2>3
<1> QED
  BY <1>1, <1>2

(* A sample is in one place at a time and is trained on at most once,      *)
(* through every interruption, requeueing, failure and eviction.           *)
THEOREM SamplesInOnePlace == Spec => []OnePlace
<1>1. TypeInv /\ PlaceInv => OnePlace
  <2> SUFFICES ASSUME TypeInv, PlaceInv PROVE OnePlace
    OBVIOUS
  <2>1. taken \in Nat /\ queue \in Seq(0..Total)
    BY Shapes, Sizes DEF TypeInv, TypeOK, RollTypeOK, FeedTypeOK
  <2>2. ASSUME NEW s \in Sample
        PROVE  Cardinality({p \in 1..9 :
                 s \in << (taken + 1)..Total, {held}, gen, putting, Range(cancelQ),
                         Range(queue), Range(batch), trained, lost >>[p]}) <= 1
    <3> DEFINE P == {p \in 1..9 :
                 s \in << (taken + 1)..Total, {held}, gen, putting, Range(cancelQ),
                         Range(queue), Range(batch), trained, lost >>[p]}
    <3>1. ASSUME NEW p \in P PROVE In(s, p)
      <4>1. p \in {1, 2, 3, 4, 5, 6, 7, 8, 9}
        OBVIOUS
      <4> DEFINE F == << (taken + 1)..Total, {held}, gen, putting, Range(cancelQ),
                         Range(queue), Range(batch), trained, lost >>
      <4>2. s \in F[p]
        OBVIOUS
      <4>3. /\ F[1] = (taken + 1)..Total /\ F[2] = {held} /\ F[3] = gen /\ F[4] = putting
            /\ F[5] = Range(cancelQ) /\ F[6] = Range(queue) /\ F[7] = Range(batch)
            /\ F[8] = trained /\ F[9] = lost
        OBVIOUS
      <4> HIDE DEF F
      <4>4. F[1] \cap Sample \subseteq {k \in Sample : k > taken}
        BY <2>1, <4>3, Sizes
      <4>5. s \in F[1] => s > taken
        BY <4>4
      <4> QED
        BY <4>1, <4>2, <4>3, <4>5 DEF In
    <3>2. \A i, j \in P : i = j
      BY <3>1 DEF PlaceInv, Exclusive
    <3>3. P \subseteq 1..9
      OBVIOUS
    <3> HIDE DEF P
    <3>4. Cardinality(P) <= 1
      BY <3>2, <3>3, AtMostOne
    <3> QED
      BY <3>4 DEF P
  <2>3. \A i, j \in 1..Len(queue) : i # j => queue[i] # queue[j]
    BY <2>1, LenProperties DEF PlaceInv, Unrepeated, IsInjective
  <2> QED
    BY <2>2, <2>3 DEF OnePlace, PlaceInv, Unrepeated
<1> QED
  BY <1>1, TypeInvariant, PlaceInvariant, PTL

-----------------------------------------------------------------------------
\* A weight synchronization
\* From the moment pause() sets `paused' to the one in which resume() clears it
Window == {"gather", "kvcache", "paused", "updateCall", "update", "queueSize", "store",
           "putValidate", "resumeCall", "resume"}

\* Unless the monitor has come behind it, pause() keeps the processor from submitting
\* until resume(), and nothing generates once gather() has returned
PauseInv ==
  /\ rpc \notin Window => ~behind
  /\ rpc \in Window /\ ~behind => paused
  /\ rpc \in Window \ {"gather"} /\ ~behind => gen = {}

ServersInv == rpc \in Window /\ PartialRollout => serversPaused

-----------------------------------------------------------------------------
\* The synchronizer's call moves on, and only its own steps move it
LEMMA RpcMoves ==
  ASSUME [Next]_vars
  PROVE  /\ rpc' \in Window => rpc \in Window \/ PauseBegin
         /\ rpc' \in Window \ {"gather"} => rpc \in Window \ {"gather"} \/ PauseGathered
<1>1. CASE SyncStep
  BY <1>1 DEF SyncStep, CallStart, PauseBegin, PauseGathered, PauseEnd, UpdateQueueSize,
     UpdateStore, UpdateEnd, Resume, WeightsSynced, Update, UpdateBegin, Window
<1>2. CASE SyncBegin \/ TrainerFinal
  BY <1>2 DEF SyncBegin, TrainerFinal, LastSyncDone, Window
<1> QED
  BY <1>1, <1>2, Frames

\* Who touches the pause: outside the window the monitor leaves no trace
LEMMA PauseMoves ==
  ASSUME TypeInv, [Next]_vars
  PROVE  /\ UNCHANGED behind \/ MonUnpause \/ PauseBegin \/ Resume
         /\ UNCHANGED paused \/ paused' \/ MonUnpause \/ Resume
         /\ MonUnpause => behind' = (rpc \in Window) /\ rpc' = rpc
<1>1. UNCHANGED behind \/ MonUnpause \/ PauseBegin \/ Resume
  BY Frames DEF flagVars, ProcSetPaused, PauseEnd, MainStopped
<1>2. UNCHANGED paused \/ paused' \/ MonUnpause \/ Resume
  BY Frames DEF flagVars, ProcSetPaused, PauseBegin, PauseEnd, MainStopped
<1>3. MonUnpause => behind' = (rpc \in Window) /\ rpc' = rpc
  BY DEF MonUnpause, syncVars, Window, TypeInv, TypeOK, RollTypeOK, SyncTypeOK
<1> QED
  BY <1>1, <1>2, <1>3

LEMMA PauseStep == TypeInv /\ PauseInv /\ [Next]_vars => PauseInv'
<1> SUFFICES ASSUME TypeInv, PauseInv, [Next]_vars PROVE PauseInv'
  OBVIOUS
<1>1. ASSUME rpc' \notin Window PROVE ~behind'
  <2>1. rpc \notin Window \/ Resume
    <3>1. CASE SyncStep
      BY <1>1, <3>1 DEF SyncStep, CallStart, PauseBegin, PauseGathered, PauseEnd,
         UpdateQueueSize, UpdateStore, UpdateEnd, Resume, WeightsSynced, Update, UpdateBegin, Window
    <3>2. CASE SyncBegin \/ TrainerFinal
      BY <3>2 DEF SyncBegin, TrainerFinal, LastSyncDone, Window
    <3> QED
      BY <1>1, <3>1, <3>2, Frames
  <2>2. PauseBegin \/ Resume => ~behind'
    BY DEF PauseBegin, Resume
  <2> QED
    BY <1>1, <2>1, <2>2, PauseMoves DEF PauseInv
<1>2. ASSUME rpc' \in Window, ~behind' PROVE paused'
  <2>1. CASE PauseBegin
    BY <2>1 DEF PauseBegin
  <2>2. CASE rpc \in Window /\ ~PauseBegin
    <3>1. ~Resume
      BY <1>2 DEF Resume, Window
    <3>2. ~MonUnpause
      BY <1>2, <2>2, PauseMoves
    <3>3. ~behind
      BY <1>2, <2>2, <3>1, <3>2, PauseMoves
    <3> QED
      BY <2>2, <3>1, <3>2, <3>3, PauseMoves DEF PauseInv
  <2> QED
    BY <1>2, <2>1, <2>2, RpcMoves
<1>3. ASSUME rpc' \in Window \ {"gather"}, ~behind' PROVE gen' = {}
  <2>1. CASE PauseGathered
    BY <2>1 DEF PauseGathered, Gathered
  <2>2. CASE rpc \in Window \ {"gather"} /\ ~PauseGathered
    <3>1. ~PauseBegin /\ ~Resume
      BY <1>3, <2>2 DEF PauseBegin, Resume, Window
    <3>2. ~behind
      BY <1>3, <2>2, <3>1, PauseMoves
    <3>3. gen = {} /\ paused
      BY <2>2, <3>2 DEF PauseInv
    <3>4. CASE ProcSubmit
      BY <3>3, <3>4 DEF ProcSubmit
    <3>5. ASSUME NEW s \in Sample, Task(s) PROVE gen' = {}
      BY <3>3, <3>5 DEF Task, TaskFinish, TaskPut, TaskCancel, TaskFail
    <3> QED
      BY <3>3, <3>4, <3>5, Frames
  <2> QED
    BY <1>3, <2>1, <2>2, RpcMoves
<1> QED
  BY <1>1, <1>2, <1>3 DEF PauseInv

LEMMA ServersStep == ServersInv /\ [Next]_vars => ServersInv'
<1> SUFFICES ASSUME ServersInv, [Next]_vars, rpc' \in Window, PartialRollout PROVE serversPaused'
  BY DEF ServersInv
<1>1. CASE PauseBegin
  BY <1>1 DEF PauseBegin
<1>2. CASE rpc \in Window /\ ~PauseBegin
  <2>1. ~Resume
    BY DEF Resume, Window
  <2> QED
    BY <1>2, <2>1, Frames DEF ServersInv
<1> QED
  BY <1>1, <1>2, RpcMoves

LEMMA PauseInvariant == Spec => [](PauseInv /\ ServersInv)
<1>1. Init => PauseInv /\ ServersInv
  BY DEF Init, RollInit, PauseInv, ServersInv, Window
<1> QED
  BY <1>1, PauseStep, ServersStep, TypeInvariant, PTL DEF Spec

(* While the weights are transferred nothing is generated, unless the      *)
(* servers refuse requests (partial rollout) or the monitor has resumed    *)
(* generation behind pause(): no other interleaving of the processor, its  *)
(* tasks and the calls lets a task into the transfer.                      *)
THEOREM WeightsAtRest == Spec => []NoGenerationDuringSync
<1>1. PauseInv => NoGenerationDuringSync
  BY DEF PauseInv, NoGenerationDuringSync, Window
<1> QED
  BY <1>1, PauseInvariant, PTL

\* From the end of gather() to resume() the engines refuse requests, or nothing
\* generates
AtRest == rpc \in Window \ {"gather"} => gen = {} \/ serversPaused

LEMMA SyncInvariant == Spec /\ []Undisturbed => []AtRest
<1>1. PauseInv /\ ServersInv /\ Undisturbed => AtRest
  BY DEF PauseInv, ServersInv, Undisturbed, AtRest
<1> QED
  BY <1>1, PauseInvariant, PTL

-----------------------------------------------------------------------------
\* The samples of q are ordered by the versions v gives them, none above n
Ordered(q, v) ==
  \A i, j \in 1..Len(q) : i < j /\ q[i] # 0 /\ q[j] # 0 => v[q[i]] <= v[q[j]]
UpTo(q, v, n) == \A i \in 1..Len(q) : q[i] # 0 => v[q[i]] <= n

\* A version is put on a sample when its generation ends; a synchronization, which
\* raises the version, begins when everything generated is in the queue
StampInv ==
  /\ rpc \in Window \ {"gather"} => putting = {}
  /\ \A s \in putting : ver[s] = version
  /\ Ordered(queue, ver) /\ UpTo(queue, ver, version)

VersionInv == version <= syncVersion /\ syncVersion <= tversion

LEMMA OrderRest ==
  ASSUME NEW S, NEW q \in Seq(S), q # <<>>, NEW v, NEW n, Ordered(q, v), UpTo(q, v, n)
  PROVE  Ordered(Tail(q), v) /\ UpTo(Tail(q), v, n)
<1>1. /\ Len(q) \in Nat /\ Len(Tail(q)) = Len(q) - 1
      /\ \A i \in 1..Len(Tail(q)) : Tail(q)[i] = q[i + 1]
  BY HeadTailProperties, LenProperties
<1> QED
  BY <1>1 DEF Ordered, UpTo

LEMMA OrderAdd ==
  ASSUME NEW S, NEW q \in Seq(S), NEW x \in S, NEW v, NEW n \in Nat, Ordered(q, v), UpTo(q, v, n),
         x # 0 => v[x] = n
  PROVE  Ordered(Append(q, x), v) /\ UpTo(Append(q, x), v, n)
<1>1. /\ Len(q) \in Nat /\ Len(Append(q, x)) = Len(q) + 1
      /\ \A i \in 1..Len(q) : Append(q, x)[i] = q[i]
      /\ Append(q, x)[Len(q) + 1] = x
  BY AppendProperties, LenProperties
<1> QED
  BY <1>1 DEF Ordered, UpTo

LEMMA OrderPut ==
  ASSUME TypeInv, StampInv, NEW x \in 0..Total, x # 0 => ver[x] = version, PutSample(x)
  PROVE  Ordered(queue', ver) /\ UpTo(queue', ver, version)
<1>1. queue \in Seq(0..Total) /\ queue' = Append(Kept, x) /\ version \in Nat
  BY Shapes DEF PutSample, TypeInv, TypeOK, RollTypeOK, SyncTypeOK
<1>2. Kept \in Seq(0..Total) /\ Ordered(Kept, ver) /\ UpTo(Kept, ver, version)
  <2>1. CASE Full
    <3>1. queue # <<>>
      BY <2>1, EmptySeq, MaxQueueSizeAssumption DEF Full
    <3>2. Kept = Tail(queue)
      BY <2>1, Zenon DEF Kept
    <3> QED
      BY <1>1, <3>1, <3>2, OrderRest, HeadTailProperties DEF StampInv
  <2>2. CASE ~Full
    BY <1>1, <2>2 DEF Kept, StampInv
  <2> QED
    BY <2>1, <2>2
<1>3. Ordered(Append(Kept, x), ver) /\ UpTo(Append(Kept, x), ver, version)
  BY <1>1, <1>2, OrderAdd
<1> QED
  BY <1>1, <1>3

-----------------------------------------------------------------------------
LEMMA VersionStep == TypeInv /\ VersionInv /\ [Next]_vars => VersionInv'
<1> SUFFICES ASSUME TypeInv, VersionInv, [Next]_vars PROVE VersionInv'
  OBVIOUS
<1>0. /\ version \in Nat /\ syncVersion \in Nat /\ tversion \in Nat
      /\ version <= syncVersion /\ syncVersion <= tversion
  BY DEF VersionInv, TypeInv, TypeOK, RollTypeOK, SyncTypeOK, TrainTypeOK
<1>1. CASE Update
  BY <1>0, <1>1 DEF Update, UpdateBegin, trainVars, VersionInv
<1>2. CASE ~Update
  <2>1. version' = version
    BY <1>2, Frames DEF UpdateQueueSize, UpdateStore
  <2>2. CASE UNCHANGED trainVars \/ WeightsSynced \/ TrainerWait \/ TrainerTake \/ TrainerEnd
    BY <1>0, <2>1, <2>2 DEF trainVars, WeightsSynced, TrainerWait, TrainerTake, TrainerEnd,
       VersionInv
  <2>3. CASE TrainStep
    BY <1>0, <2>1, <2>3 DEF TrainStep, VersionInv
  <2>4. CASE SyncBegin
    BY <1>0, <2>1, <2>4 DEF SyncBegin, PassedOn, VersionInv
  <2>5. CASE TrainerFinal
    BY <1>0, <2>1, <2>5 DEF TrainerFinal, VersionInv
  <2> QED
    BY <2>2, <2>3, <2>4, <2>5, Frames DEF TrainerStep
<1> QED
  BY <1>1, <1>2

\* Which steps touch what StampInv speaks of
LEMMA StampMoves ==
  ASSUME [Next]_vars
  PROVE  /\ UNCHANGED version \/ Update
         /\ UNCHANGED <<putting, ver>> \/ \E s \in Sample : TaskFinish(s) \/ TaskPut(s)
         /\ UNCHANGED queue \/ MainFinish \/ TrainerTake \/ \E s \in Sample : TaskPut(s)
<1>1. UNCHANGED version \/ Update
  BY Frames DEF UpdateQueueSize, UpdateStore
<1>2. UNCHANGED <<putting, ver>> \/ \E s \in Sample : TaskFinish(s) \/ TaskPut(s)
  <2>1. ProcReap \/ ProcSubmit \/ PauseGathered => UNCHANGED <<putting, ver>>
    BY DEF ProcReap, ProcSubmit, PauseGathered
  <2>2. \A s \in Sample : TaskCancel(s) \/ TaskFail(s) => UNCHANGED <<putting, ver>>
    BY DEF TaskCancel, TaskFail
  <2> QED
    BY <2>1, <2>2, Frames DEF Task
<1>3. UNCHANGED queue \/ MainFinish \/ TrainerTake \/ \E s \in Sample : TaskPut(s)
  BY Frames DEF mqVars, TrainerWait, WaitForSample
<1> QED
  BY <1>1, <1>2, <1>3

LEMMA StampStep ==
  TypeInv /\ PlaceInv /\ VersionInv /\ AtRest /\ StampInv /\ [Next]_vars => StampInv'
<1> SUFFICES ASSUME TypeInv, PlaceInv, VersionInv, AtRest, StampInv, [Next]_vars PROVE StampInv'
  OBVIOUS
<1>0. /\ queue \in Seq(0..Total) /\ Len(queue) \in Nat /\ putting \subseteq Sample
      /\ version \in Nat /\ syncVersion \in Nat /\ ver \in [Sample -> Nat]
  BY Shapes DEF TypeInv, TypeOK, RollTypeOK, SyncTypeOK, TaskTypeOK, TrainTypeOK
<1>1. CASE Update
  <2>1. /\ version' = syncVersion /\ rpc = "update" /\ UNCHANGED <<putting, ver, queue>>
    BY <1>1 DEF Update, UpdateBegin, taskVars, mqVars
  <2>2. putting = {}
    BY <2>1 DEF StampInv, Window
  <2>3. UpTo(queue, ver, syncVersion)
    <3>1. ASSUME NEW i \in 1..Len(queue), queue[i] # 0 PROVE ver[queue[i]] <= syncVersion
      <4>1. queue[i] \in Sample
        BY <1>0, <3>1, ElementOfSeq, Sizes
      <4>2. ver[queue[i]] \in Nat /\ ver[queue[i]] <= version
        BY <1>0, <3>1, <4>1 DEF StampInv, UpTo
      <4> QED
        BY <1>0, <4>2 DEF VersionInv
    <3> QED
      BY <3>1 DEF UpTo
  <2> QED
    BY <2>1, <2>2, <2>3 DEF StampInv
<1>2. ASSUME NEW t \in Sample, TaskFinish(t) PROVE StampInv'
  <2>1. /\ t \in gen /\ putting' = putting \cup {t} /\ ver' = [ver EXCEPT ![t] = version]
        /\ UNCHANGED <<queue, version, rpc>> /\ ~Refused
    BY <1>2 DEF TaskFinish, mqVars, syncVars
  <2>2. rpc \notin Window \ {"gather"}
    BY <2>1 DEF AtRest, Refused
  <2>3. \A i \in 1..Len(queue) : queue[i] # t
    <3>1. t \notin Range(queue)
      BY <2>1 DEF PlaceInv, Exclusive, In
    <3> QED
      BY <1>0, <3>1, LenProperties DEF Range
  <2>4. \A i \in 1..Len(queue) : queue[i] # 0 => ver'[queue[i]] = ver[queue[i]]
    <3>1. \A i \in 1..Len(queue) : queue[i] # 0 => queue[i] \in Sample
      BY <1>0, ElementOfSeq, Sizes
    <3> QED
      BY <1>0, <2>1, <2>3, <3>1
  <2>5. Ordered(queue, ver') /\ UpTo(queue, ver', version)
    BY <2>4 DEF StampInv, Ordered, UpTo
  <2>6. \A s \in putting' : ver'[s] = version
    BY <1>0, <2>1 DEF StampInv
  <2> QED
    BY <2>1, <2>2, <2>5, <2>6 DEF StampInv
<1>3. ASSUME NEW t \in Sample, TaskPut(t) PROVE StampInv'
  <2>1. /\ t \in putting /\ putting' = putting \ {t} /\ PutSample(t)
        /\ UNCHANGED <<ver, version, rpc>>
    BY <1>3 DEF TaskPut, syncVars
  <2>2. Ordered(queue', ver) /\ UpTo(queue', ver, version)
    BY <2>1, OrderPut DEF StampInv
  <2> QED
    BY <2>1, <2>2 DEF StampInv
<1>4. ASSUME UNCHANGED <<putting, ver, version>> PROVE StampInv'
  <2>1. rpc' \in Window \ {"gather"} => putting' = {}
    BY <1>4, RpcMoves DEF StampInv, PauseGathered, Gathered
  <2>2. Ordered(queue', ver) /\ UpTo(queue', ver, version)
    <3>1. CASE MainFinish
      <4>1. PutSample(0)
        BY <3>1 DEF MainFinish
      <4> QED
        BY <4>1, OrderPut, Sizes
    <3>2. CASE TrainerTake
      <4>1. queue # <<>> /\ queue' = Tail(queue)
        BY <3>2 DEF TrainerTake, TakeSample, Rest
      <4> QED
        BY <1>0, <4>1, OrderRest DEF StampInv
    <3>3. CASE UNCHANGED queue
      BY <3>3 DEF StampInv
    <3>4. \A s \in Sample : ~TaskPut(s)
      BY <1>4 DEF TaskPut
    <3> QED
      BY <3>1, <3>2, <3>3, <3>4, StampMoves
  <2> QED
    BY <1>4, <2>1, <2>2 DEF StampInv
<1> QED
  BY <1>1, <1>2, <1>3, <1>4, StampMoves

(* The samples in the queue are ordered by version, with partial rollout   *)
(* always and without it in every behaviour whose synchronizations the     *)
(* monitor leaves alone: a weight synchronization separates old from new.  *)
THEOREM OldBeforeNew == Spec /\ []Undisturbed => []VersionsInOrder
<1>1. Init => StampInv /\ VersionInv
  <2> SUFFICES ASSUME Init PROVE StampInv /\ VersionInv
    OBVIOUS
  <2>1. /\ queue = <<>> /\ putting = {} /\ version = 0 /\ syncVersion = 0 /\ tversion = 0
    BY DEF Init, RollInit, MQInit
  <2>2. Len(queue) = 0
    BY <2>1, EmptySeq
  <2> QED
    BY <2>1, <2>2 DEF StampInv, VersionInv, Ordered, UpTo
<1>2. StampInv => VersionsInOrder
  BY DEF StampInv, Ordered, VersionsInOrder
<1> QED
  BY <1>1, <1>2, StampStep, VersionStep, TypeInvariant, PlaceInvariant, SyncInvariant, PTL DEF Spec

-----------------------------------------------------------------------------
\* The calls during which the trainer waits for the synchronizer
Calling == {"pauseCall", "pause", "gather", "kvcache", "paused"}

\* The trainer is one version ahead of the synchronizer where it triggers a
\* synchronization, the synchronizer one ahead of the Rollouter until the update
StepInv ==
  /\ rpc \in Calling <=> tpc \in {"sync", "finalSync"}
  /\ syncVersion = version \/ (syncVersion = version + 1 /\ rpc \in Calling \cup {"updateCall", "update"})
  /\ tversion = syncVersion \/ (tversion = syncVersion + 1 /\ tpc = "trigger")
  /\ tpc \in {"trigger", "sync"} => batch = <<>> /\ localStep = 1
  /\ tpc = "train" => Len(batch) = RequiredSamples

Interval == RequiredSamples * TriggerStep

\* How late s is, counted in samples, with k samples of the next batch before it
Delay(s, k) == (tversion - ver[s] - 1) * Interval + (localStep - 1) * RequiredSamples + k

\* Until the finish signal, with the samples queued before it counted, none is
\* or will be later than the budget allows
LagInv ==
  tpc \in {"collect", "train", "trigger", "sync"} =>
    /\ \A j \in 1..Len(batch) : Delay(batch[j], j - 1) < MaxRequired
    /\ \A i \in 1..Len(queue) : queue[i] # 0 => Delay(queue[i], Len(batch) + i - 1) < MaxRequired

LEMMA BatchGrows ==
  ASSUME TypeInv, queue # <<>>, Head(queue) # 0
  PROVE  /\ Head(queue) \in Sample
         /\ Len(Append(batch, Head(queue))) = Len(batch) + 1
         /\ \A j \in 1..Len(batch) : Append(batch, Head(queue))[j] = batch[j]
         /\ Append(batch, Head(queue))[Len(batch) + 1] = queue[1]
<1>1. batch \in Seq(Sample) /\ queue \in Seq(0..Total)
  BY Shapes
<1>2. Head(queue) \in 0..Total /\ Head(queue) = queue[1]
  BY Shapes, QueueOps, HeadTailProperties
<1>3. Head(queue) \in Sample
  <2>1. \A x \in 0..Total : x # 0 => x \in Sample
    BY Sizes
  <2> QED
    BY <1>2, <2>1, Zenon
<1>4. /\ Len(Append(batch, Head(queue))) = Len(batch) + 1
      /\ \A j \in 1..Len(batch) : Append(batch, Head(queue))[j] = batch[j]
      /\ Append(batch, Head(queue))[Len(batch) + 1] = Head(queue)
  BY <1>1, <1>3, AppendProperties
<1> QED
  BY <1>2, <1>3, <1>4

LEMMA StepStep == TypeInv /\ StepInv /\ [Next]_vars => StepInv'
<1> SUFFICES ASSUME TypeInv, StepInv, [Next]_vars PROVE StepInv'
  OBVIOUS
<1>0. /\ version \in Nat /\ syncVersion \in Nat /\ tversion \in Nat
      /\ rpc \in RpcState
  BY DEF TypeInv, TypeOK, RollTypeOK, SyncTypeOK, TrainTypeOK
<1> USE DEF StepInv, Calling
<1>1. CASE Update
  BY <1>0, <1>1 DEF Update, UpdateBegin, trainVars
<1>2. CASE SyncStep /\ ~Update /\ ~WeightsSynced
  <2>1. UNCHANGED <<trainVars, version>>
    BY <1>2, Frames DEF SyncStep, UpdateQueueSize, UpdateStore
  <2>2. /\ rpc \in Calling <=> rpc' \in Calling
        /\ rpc \in Calling \cup {"updateCall", "update"} => rpc' \in Calling \cup {"updateCall", "update"}
    BY <1>2 DEF SyncStep, CallStart, PauseBegin, PauseGathered, PauseEnd, UpdateQueueSize,
       UpdateStore, UpdateEnd, Resume
  <2> QED
    BY <2>1, <2>2 DEF trainVars
<1>3. CASE WeightsSynced
  BY <1>0, <1>3 DEF WeightsSynced
<1>4. CASE SyncBegin
  BY <1>0, <1>4 DEF SyncBegin, PassedOn, LastSyncDone
<1>5. CASE TrainerFinal
  BY <1>0, <1>5 DEF TrainerFinal, LastSyncDone
<1>6. CASE TrainStep
  BY <1>0, <1>6 DEF TrainStep, rollVars, syncVars
<1>7. CASE TrainerWait \/ TrainerTake \/ TrainerEnd
  <2>1. TrainerTake /\ tpc' = "train" => Len(batch') = RequiredSamples
    <3>1. TrainerTake /\ tpc' = "train" =>
            /\ queue # <<>> /\ Head(queue) # 0
            /\ batch' = Append(batch, Head(queue)) /\ Len(batch) + 1 = RequiredSamples
      BY DEF TrainerTake, TakeSample
    <3> QED
      BY <3>1, BatchGrows
  <2> QED
    BY <1>0, <1>7, <2>1 DEF TrainerWait, TrainerTake, TrainerEnd, trainVars, rollVars, syncVars, LastSyncDone
<1>8. CASE UNCHANGED <<trainVars, rpc, version>>
  BY <1>8 DEF trainVars
<1> QED
  <2>1. \/ SyncStep \/ TrainerStep \/ UNCHANGED <<trainVars, rpc>>
    <3>1. SyncStep \/ TrainerStep \/ UNCHANGED trainVars
      BY DEF Next, RollStep, TaskStep, Terminated, vars
    <3> QED
      BY <3>1, Frames DEF TrainerStep
  <2>2. UNCHANGED version \/ Update
    BY StampMoves
  <2> QED
    BY <1>1, <1>2, <1>3, <1>4, <1>5, <1>6, <1>7, <1>8, <2>1, <2>2 DEF TrainerStep

LEMMA Products ==
  /\ Interval \in Nat /\ Interval <= MaxRequired
  /\ \A a \in Int : a * Interval \in Int /\ (a + 1) * Interval = a * Interval + Interval
  /\ \A l \in 1..TriggerStep :
       /\ (l - 1) * RequiredSamples \in Nat
       /\ l * RequiredSamples = (l - 1) * RequiredSamples + RequiredSamples
       /\ l * RequiredSamples <= Interval
  /\ TriggerStep * RequiredSamples = Interval
  /\ 0 * Interval = 0 /\ 0 * RequiredSamples = 0 /\ (-1) * Interval = -Interval
<1>1. RequiredSamples \in Nat /\ TriggerStep \in Nat /\ StaleSamples \in Nat
  BY RolloutAssumption
<1>2. Interval \in Nat /\ Interval <= MaxRequired
  BY <1>1 DEF Interval, MaxRequired
<1>3. ASSUME NEW a \in Int PROVE a * Interval \in Int /\ (a + 1) * Interval = a * Interval + Interval
  BY <1>2
<1>4. ASSUME NEW l \in 1..TriggerStep
      PROVE  /\ (l - 1) * RequiredSamples \in Nat
             /\ l * RequiredSamples = (l - 1) * RequiredSamples + RequiredSamples
             /\ l * RequiredSamples <= Interval
  <2>1. l \in Nat /\ l - 1 \in Nat /\ TriggerStep - l \in Nat
    BY <1>1
  <2>2. (TriggerStep - l) * RequiredSamples \in Nat /\ (l - 1) * RequiredSamples \in Nat
    BY <1>1, <2>1
  <2>3. Interval = l * RequiredSamples + (TriggerStep - l) * RequiredSamples
    BY <1>1, <2>1 DEF Interval
  <2>4. l * RequiredSamples = (l - 1) * RequiredSamples + RequiredSamples /\ l * RequiredSamples \in Nat
    BY <1>1, <2>1
  <2> QED
    BY <1>2, <2>2, <2>3, <2>4
<1>5. TriggerStep * RequiredSamples = Interval
  BY <1>1 DEF Interval
<1>6. 0 * Interval = 0 /\ 0 * RequiredSamples = 0 /\ (-1) * Interval = -Interval
  BY <1>1, <1>2
<1> QED
  BY <1>2, <1>3, <1>4, <1>5, <1>6

\* The parts of a delay are numbers
LEMMA DelayType ==
  ASSUME TypeInv, NEW s \in Sample
  PROVE  /\ tversion - ver[s] - 1 \in Int /\ (tversion - ver[s] - 1) * Interval \in Int
         /\ localStep \in 1..TriggerStep /\ (localStep - 1) * RequiredSamples \in Nat
         /\ \A k \in Int : Delay(s, k) \in Int /\ Delay(s, k) < Delay(s, k + 1)
<1>1. tversion \in Nat /\ ver[s] \in Nat /\ localStep \in 1..TriggerStep
  BY DEF TypeInv, TypeOK, RollTypeOK, TaskTypeOK, TrainTypeOK
<1>2. tversion - ver[s] - 1 \in Int
  BY <1>1
<1>3. (tversion - ver[s] - 1) * Interval \in Int /\ (localStep - 1) * RequiredSamples \in Nat
  BY <1>1, <1>2, Products
<1> QED
  BY <1>1, <1>2, <1>3 DEF Delay

LEMMA DelayLess ==
  ASSUME TypeInv, NEW s \in Sample, NEW k \in Int, Delay(s, k + 1) < MaxRequired
  PROVE  Delay(s, k) < MaxRequired
<1>1. Delay(s, k) \in Int /\ Delay(s, k + 1) \in Int /\ Delay(s, k) < Delay(s, k + 1)
  BY DelayType
<1> QED
  BY <1>1, Sizes

\* Once the oldest sample has given way there is room for one
LEMMA KeptShort ==
  ASSUME TypeInv
  PROVE  Kept \in Seq(0..Total) /\ Len(Kept) \in Nat /\ Len(Kept) < MaxRequired
<1>1. queue \in Seq(0..Total) /\ Len(queue) <= MaxQueueSize /\ 0 \in 0..Total
  BY Shapes, Sizes
<1>2. Kept \in Seq(0..Total)
  <2>1. Full => queue # <<>>
    BY EmptySeq, MaxQueueSizeAssumption DEF Full
  <2>2. queue # <<>> => Tail(queue) \in Seq(0..Total)
    BY <1>1, HeadTailProperties
  <2> QED
    BY <1>1, <2>1, <2>2, Zenon DEF Kept
<1>3. Len(Append(Kept, 0)) <= MaxQueueSize
  BY <1>1, QueueOps
<1>4. Len(Append(Kept, 0)) = Len(Kept) + 1
  BY <1>1, <1>2, AppendProperties
<1> QED
  BY <1>2, <1>3, <1>4, LenProperties, Sizes

\* A sample put behind the others delays none of them
LEMMA LagPut ==
  ASSUME TypeInv, NEW x \in 0..Total, PutSample(x),
         \A i \in 1..Len(queue) : queue[i] # 0 => Delay(queue[i], Len(batch) + i - 1) < MaxRequired,
         x # 0 => Delay(x, Len(batch) + Len(Kept)) < MaxRequired
  PROVE  \A i \in 1..Len(queue') : queue'[i] # 0 => Delay(queue'[i], Len(batch) + i - 1) < MaxRequired
<1>1. /\ queue \in Seq(0..Total) /\ Len(queue) \in Nat /\ Len(batch) \in Nat
      /\ queue' = Append(Kept, x) /\ MaxRequired \in Nat
  BY Shapes, Sizes DEF PutSample
<1>2. /\ Kept \in Seq(0..Total)
      /\ \A i \in 1..Len(Kept) : Kept[i] # 0 => Delay(Kept[i], Len(batch) + i - 1) < MaxRequired
  <2>1. CASE Full
    <3>1. queue # <<>>
      BY <2>1, EmptySeq, MaxQueueSizeAssumption DEF Full
    <3>2. Kept = Tail(queue)
      BY <2>1, Zenon DEF Kept
    <3>3. /\ Kept \in Seq(0..Total) /\ Len(Kept) = Len(queue) - 1
          /\ \A i \in 1..Len(Kept) : Kept[i] = queue[i + 1]
      BY <1>1, <3>1, <3>2, HeadTailProperties
    <3>4. ASSUME NEW i \in 1..Len(Kept), Kept[i] # 0
          PROVE  Delay(Kept[i], Len(batch) + i - 1) < MaxRequired
      <4>1. /\ i + 1 \in 1..Len(queue) /\ Kept[i] = queue[i + 1] /\ i \in Int
            /\ Len(batch) + (i + 1) - 1 = (Len(batch) + i - 1) + 1
        BY <1>1, <3>3
      <4>2. Delay(Kept[i], (Len(batch) + i - 1) + 1) < MaxRequired
        BY <3>4, <4>1
      <4>3. Kept[i] \in Sample
        <5>1. queue[i + 1] \in 0..Total
          BY <1>1, <4>1, ElementOfSeq
        <5> QED
          BY <3>4, <4>1, <5>1, Sizes
      <4>4. Len(batch) + i - 1 \in Int
        BY <1>1, <4>1
      <4> QED
        BY <4>2, <4>3, <4>4, DelayLess, Zenon
    <3> QED
      BY <3>3, <3>4
  <2>2. CASE ~Full
    BY <1>1, <2>2 DEF Kept
  <2> QED
    BY <2>1, <2>2
<1>3. /\ Len(Kept) \in Nat /\ Len(queue') = Len(Kept) + 1
      /\ \A i \in 1..Len(Kept) : queue'[i] = Kept[i]
      /\ queue'[Len(Kept) + 1] = x
  BY <1>1, <1>2, AppendProperties, LenProperties
<1>4. ASSUME NEW i \in 1..Len(queue'), queue'[i] # 0
      PROVE  Delay(queue'[i], Len(batch) + i - 1) < MaxRequired
  <2>1. CASE i \in 1..Len(Kept)
    BY <1>2, <1>3, <1>4, <2>1
  <2>2. CASE i = Len(Kept) + 1
    <3>1. Len(batch) + i - 1 = Len(batch) + Len(Kept)
      BY <1>1, <1>3, <2>2
    <3> QED
      BY <1>3, <1>4, <2>2, <3>1
  <2> QED
    BY <1>3, <2>1, <2>2
<1> QED
  BY <1>4

\* Whoever moves samples at the trainer's end moves none at the other
LEMMA TrainerMoves ==
  ASSUME [Next]_vars
  PROVE  \/ UNCHANGED <<batch, tversion, localStep>>
         \/ TrainerFinal
         \/ (TrainerTake \/ TrainStep) /\ UNCHANGED <<putting, mainpc>>
<1>1. TrainerStep => \/ UNCHANGED <<batch, tversion, localStep>>
                     \/ TrainerFinal
                     \/ (TrainerTake \/ TrainStep) /\ UNCHANGED <<putting, mainpc>>
  BY DEF TrainerStep, TrainerWait, TrainerTake, TrainStep, SyncBegin, TrainerEnd, trainVars,
     rollVars, taskVars
<1>2. SyncStep => UNCHANGED <<batch, tversion, localStep>>
  BY DEF SyncStep, WeightsSynced, Update, trainVars
<1> QED
  BY <1>1, <1>2 DEF Next, RollStep, TaskStep, Terminated, vars, trainVars

LEMMA LagStep ==
  /\ TypeInv /\ PlaceInv /\ AtRest /\ StampInv /\ StepInv /\ LagInv
  /\ [Next]_vars
  => LagInv'
<1> SUFFICES ASSUME TypeInv, PlaceInv, AtRest, StampInv, StepInv, LagInv, [Next]_vars,
                    tpc' \in {"collect", "train", "trigger", "sync"}
             PROVE  /\ \A j \in 1..Len(batch') : Delay(batch[j], j - 1)' < MaxRequired
                    /\ \A i \in 1..Len(queue') :
                         queue'[i] # 0 => Delay(queue[i], Len(batch) + i - 1)' < MaxRequired
  BY DEF LagInv
<1>0. /\ queue \in Seq(0..Total) /\ Len(queue) \in Nat /\ Len(batch) \in Nat
      /\ tversion \in Nat /\ version \in Nat /\ localStep \in 1..TriggerStep
      /\ RequiredSamples \in Nat /\ MaxRequired \in Nat
  BY Shapes, Sizes DEF TypeInv, TypeOK, RollTypeOK, SyncTypeOK, TrainTypeOK
<1>1. tpc \in {"collect", "train", "trigger", "sync"}
  <2>1. TrainerStep => tpc \in {"collect", "train", "trigger", "sync"}
    BY DEF TrainerStep, TrainerWait, TrainerTake, TrainStep, SyncBegin, TrainerFinal, TrainerEnd,
       trainVars
  <2>2. SyncStep => tpc \in {"collect", "train", "trigger", "sync"}
    BY DEF SyncStep, WeightsSynced, Update, trainVars
  <2> QED
    BY <2>1, <2>2 DEF Next, RollStep, TaskStep, Terminated, vars, trainVars
<1>2. /\ \A j \in 1..Len(batch) : Delay(batch[j], j - 1) < MaxRequired
      /\ \A i \in 1..Len(queue) : queue[i] # 0 => Delay(queue[i], Len(batch) + i - 1) < MaxRequired
  BY <1>1 DEF LagInv
<1>a. \/ UNCHANGED <<batch, tversion, localStep>>
      \/ (TrainerTake \/ TrainStep) /\ UNCHANGED <<putting, mainpc>>
  BY TrainerMoves DEF TrainerFinal
<1>3. CASE UNCHANGED <<batch, queue, ver, tversion, localStep>>
  BY <1>2, <1>3 DEF Delay
<1>4. CASE TrainerTake
  <2>1. /\ queue # <<>> /\ Head(queue) # 0 /\ queue' = Tail(queue)
        /\ batch' = Append(batch, Head(queue)) /\ UNCHANGED <<ver, tversion, localStep>>
    BY <1>4 DEF TrainerTake, TakeSample, Rest, rollVars, taskVars
  <2>2. /\ Len(batch') = Len(batch) + 1
        /\ \A j \in 1..Len(batch) : batch'[j] = batch[j]
        /\ batch'[Len(batch) + 1] = queue[1] /\ queue[1] # 0
    BY <2>1, BatchGrows, <1>0, HeadTailProperties
  <2>3. /\ Len(queue') = Len(queue) - 1 /\ Len(queue) >= 1
        /\ \A i \in 1..Len(queue') : queue'[i] = queue[i + 1]
    BY <1>0, <2>1, HeadTailProperties, EmptySeq
  <2>4. \A s, k : Delay(s, k)' = Delay(s, k)
    BY <2>1 DEF Delay
  <2>5. ASSUME NEW j \in 1..Len(batch') PROVE Delay(batch'[j], j - 1) < MaxRequired
    <3>1. CASE j \in 1..Len(batch)
      BY <1>2, <2>2, <3>1
    <3>2. CASE j = Len(batch) + 1
      <4>1. Delay(queue[1], Len(batch) + 1 - 1) < MaxRequired
        BY <1>2, <2>2, <2>3, <1>0
      <4> QED
        BY <2>2, <3>2, <4>1
    <3> QED
      BY <1>0, <2>2, <3>1, <3>2
  <2>6. ASSUME NEW i \in 1..Len(queue'), queue'[i] # 0
        PROVE  Delay(queue'[i], Len(batch') + i - 1) < MaxRequired
    <3>1. /\ i + 1 \in 1..Len(queue) /\ queue'[i] = queue[i + 1]
          /\ Len(batch') + i - 1 = Len(batch) + (i + 1) - 1
      BY <1>0, <2>2, <2>3
    <3> QED
      BY <1>2, <2>6, <3>1
  <2> QED
    BY <2>4, <2>5, <2>6
<1>5. CASE TrainStep
  <2>1. /\ batch' = <<>> /\ UNCHANGED <<queue, ver>> /\ Len(batch) = RequiredSamples
        /\ \/ localStep = TriggerStep /\ localStep' = 1 /\ tversion' = tversion + 1
           \/ /\ localStep # TriggerStep /\ localStep' = localStep + 1 /\ tversion' = tversion
    <3>1. batch' = <<>> /\ UNCHANGED <<queue, ver>> /\ Len(batch) = RequiredSamples
      BY <1>5 DEF TrainStep, StepInv, rollVars, taskVars, mqVars
    <3>2. /\ SyncDue => localStep' = 1 /\ tversion' = tversion + 1
          /\ ~SyncDue => localStep' = localStep + 1 /\ tversion' = tversion
      BY <1>5 DEF TrainStep
    <3>3. SyncDue <=> localStep = TriggerStep
      BY <1>0, Sizes DEF SyncDue
    <3> QED
      BY <3>1, <3>2, <3>3
  <2>2. Len(batch') = 0
    BY <2>1, EmptySeq
  <2>3. ASSUME NEW i \in 1..Len(queue), queue[i] # 0
        PROVE  Delay(queue[i], Len(batch) + i - 1)' < MaxRequired
    <3>1. queue[i] \in Sample
      BY <1>0, <2>3, ElementOfSeq, Sizes
    <3> DEFINE D == (tversion - ver[queue[i]] - 1) * Interval
    <3>2. ver[queue[i]] \in Nat /\ D \in Int
      BY <3>1, DelayType DEF TypeInv, TypeOK, RollTypeOK, TaskTypeOK
    <3>3. D + (localStep - 1) * RequiredSamples + (RequiredSamples + i - 1) < MaxRequired
      BY <1>2, <2>1, <2>3 DEF Delay
    <3>4. localStep * RequiredSamples = (localStep - 1) * RequiredSamples + RequiredSamples
          /\ (localStep - 1) * RequiredSamples \in Nat
      BY <1>0, Products
    <3>5. CASE localStep = TriggerStep /\ localStep' = 1 /\ tversion' = tversion + 1
      <4>1. (tversion' - ver'[queue'[i]] - 1) * Interval = D + Interval
        <5>1. tversion' - ver'[queue'[i]] - 1 = (tversion - ver[queue[i]] - 1) + 1
          BY <1>0, <2>1, <3>2, <3>5
        <5>2. tversion - ver[queue[i]] - 1 \in Int
          BY <1>0, <3>2
        <5> QED
          BY <5>1, <5>2, Products
      <4>2. localStep * RequiredSamples = Interval /\ Interval \in Nat
        BY <3>5, Products
      <4>3. (localStep' - 1) * RequiredSamples = 0
        BY <1>0, <3>5
      <4>4. Delay(queue[i], Len(batch) + i - 1)' = (D + Interval) + 0 + (0 + i - 1)
        BY <2>2, <4>1, <4>3 DEF Delay
      <4> HIDE DEF D
      <4> QED
        BY <1>0, <3>2, <3>3, <3>4, <4>2, <4>4
    <3>6. CASE localStep' = localStep + 1 /\ tversion' = tversion
      <4>1. (localStep' - 1) * RequiredSamples = (localStep - 1) * RequiredSamples + RequiredSamples
        <5>1. localStep' - 1 = localStep
          BY <1>0, <3>6
        <5> QED
          BY <3>4, <5>1
      <4>2. Delay(queue[i], Len(batch) + i - 1)'
              = D + ((localStep - 1) * RequiredSamples + RequiredSamples) + (0 + i - 1)
        BY <2>1, <2>2, <3>6, <4>1 DEF Delay
      <4> HIDE DEF D
      <4> QED
        BY <1>0, <3>2, <3>3, <3>4, <4>2
    <3> QED
      BY <2>1, <3>5, <3>6
  <2> QED
    BY <2>1, <2>2, <2>3
<1>6. ASSUME NEW t \in Sample, TaskFinish(t)
      PROVE  /\ \A j \in 1..Len(batch') : Delay(batch[j], j - 1)' < MaxRequired
             /\ \A i \in 1..Len(queue') :
                  queue'[i] # 0 => Delay(queue[i], Len(batch) + i - 1)' < MaxRequired
  <2>1. /\ t \in gen /\ ver' = [ver EXCEPT ![t] = version] /\ ver \in [Sample -> Nat]
        /\ queue' = queue
    BY <1>6 DEF TaskFinish, mqVars, TypeInv, TypeOK, RollTypeOK, TaskTypeOK
  <2>2. UNCHANGED <<batch, tversion, localStep>>
    <3>1. putting' # putting
      BY <1>6 DEF TaskFinish, PlaceInv, Exclusive, In
    <3> QED
      BY <1>a, <3>1
  <2>3. t \notin Range(queue) /\ t \notin Range(batch)
    BY <2>1 DEF PlaceInv, Exclusive, In
  <2>4. /\ \A j \in 1..Len(batch) : batch[j] \in Sample /\ batch[j] # t
        /\ \A i \in 1..Len(queue) : queue[i] # 0 => queue[i] \in Sample /\ queue[i] # t
    <3>1. batch \in Seq(Sample)
      BY Shapes
    <3>2. \A j \in 1..Len(batch) : batch[j] \in Sample /\ batch[j] # t
      BY <1>0, <2>3, <3>1, ElementOfSeq, LenProperties DEF Range
    <3>3. \A i \in 1..Len(queue) : queue[i] \in 0..Total /\ queue[i] # t
      BY <1>0, <2>3, ElementOfSeq, LenProperties DEF Range
    <3> QED
      BY <3>2, <3>3, Sizes
  <2>5. \A s \in Sample : s # t => \A k : Delay(s, k)' = Delay(s, k)
    BY <2>1, <2>2 DEF Delay
  <2> QED
    BY <1>2, <2>1, <2>2, <2>4, <2>5
<1>7. ASSUME NEW x \in 0..Total, PutSample(x), UNCHANGED <<batch, ver, tversion, localStep>>,
             x # 0 => x \in putting
      PROVE  /\ \A j \in 1..Len(batch') : Delay(batch[j], j - 1)' < MaxRequired
             /\ \A i \in 1..Len(queue') :
                  queue'[i] # 0 => Delay(queue[i], Len(batch) + i - 1)' < MaxRequired
  <2>1. ASSUME x # 0 PROVE Delay(x, Len(batch) + Len(Kept)) < MaxRequired
    <3>1. ver[x] = version /\ rpc \notin Window \ {"gather"}
      BY <1>7, <2>1 DEF StampInv
    <3>2. \/ tversion = version
          \/ tversion = version + 1 /\ batch = <<>> /\ localStep = 1
      BY <1>0, <1>1, <3>1 DEF StepInv, Calling, Window
    <3>3. Len(Kept) \in Nat /\ Len(Kept) < MaxRequired
      BY KeptShort
    <3>4. CASE tversion = version
      <4>1. (tversion - ver[x] - 1) * Interval = -Interval
        <5>1. tversion - ver[x] - 1 = -1
          BY <1>0, <3>1, <3>4
        <5> QED
          BY <5>1, Products
      <4>2. /\ (localStep - 1) * RequiredSamples + RequiredSamples <= Interval
            /\ (localStep - 1) * RequiredSamples \in Nat /\ Interval \in Nat
        BY <1>0, Products
      <4>3. Len(batch) <= RequiredSamples
        BY DEF TypeInv, TypeOK, TrainTypeOK
      <4>4. Delay(x, Len(batch) + Len(Kept))
              = -Interval + (localStep - 1) * RequiredSamples + (Len(batch) + Len(Kept))
        BY <4>1 DEF Delay
      <4> QED
        BY <1>0, <3>3, <4>2, <4>3, <4>4
    <3>5. CASE tversion = version + 1 /\ batch = <<>> /\ localStep = 1
      <4>1. (tversion - ver[x] - 1) * Interval = 0
        <5>1. tversion - ver[x] - 1 = 0
          BY <1>0, <3>1, <3>5
        <5> QED
          BY <5>1, Products
      <4>2. Len(batch) = 0 /\ (localStep - 1) * RequiredSamples = 0
        BY <1>0, <3>5, EmptySeq
      <4>3. Delay(x, Len(batch) + Len(Kept)) = 0 + 0 + (0 + Len(Kept))
        BY <4>1, <4>2 DEF Delay
      <4> QED
        BY <3>3, <4>3
    <3> QED
      BY <3>2, <3>4, <3>5
  <2>2. \A i \in 1..Len(queue') :
          queue'[i] # 0 => Delay(queue'[i], Len(batch) + i - 1) < MaxRequired
    BY <1>2, <1>7, <2>1, LagPut
  <2>3. \A s, k : Delay(s, k)' = Delay(s, k)
    BY <1>7 DEF Delay
  <2> QED
    BY <1>2, <1>7, <2>2, <2>3
<1>8. CASE MainFinish
  <2>1. PutSample(0) /\ UNCHANGED <<ver, batch, tversion, localStep>>
    <3>1. PutSample(0) /\ UNCHANGED ver
      BY <1>8 DEF MainFinish, taskVars
    <3>2. mainpc' # mainpc
      BY <1>8 DEF MainFinish
    <3> QED
      BY <1>a, <3>1, <3>2
  <2> QED
    BY <1>7, <2>1, Sizes
<1>9. ASSUME NEW t \in Sample, TaskPut(t)
      PROVE  /\ \A j \in 1..Len(batch') : Delay(batch[j], j - 1)' < MaxRequired
             /\ \A i \in 1..Len(queue') :
                  queue'[i] # 0 => Delay(queue[i], Len(batch) + i - 1)' < MaxRequired
  <2>1. PutSample(t) /\ t \in putting /\ UNCHANGED ver /\ t \in 0..Total
    BY <1>9, Sizes DEF TaskPut
  <2>2. UNCHANGED <<batch, tversion, localStep>>
    <3>1. putting' # putting
      BY <1>9 DEF TaskPut
    <3> QED
      BY <1>a, <3>1
  <2> QED
    BY <1>7, <2>1, <2>2
<1> QED
  <2> SUFFICES ASSUME ~TrainerTake, ~TrainStep, ~MainFinish,
                      \A t \in Sample : ~TaskFinish(t) /\ ~TaskPut(t)
               PROVE  UNCHANGED <<batch, queue, ver, tversion, localStep>>
    BY <1>3, <1>4, <1>5, <1>6, <1>8, <1>9
  <2> QED
    BY <1>a, StampMoves

(* No sample is trained on later, in versions, than the budget of samples  *)
(* ahead of training allows, in the same behaviours: the trainer goes on   *)
(* while the Rollouter recounts, but in the order of the queue.            *)
THEOREM NotTooLate == Spec /\ []Undisturbed => []VersionLag
<1>1. Init => StampInv /\ VersionInv /\ StepInv /\ LagInv
  <2> SUFFICES ASSUME Init PROVE StampInv /\ VersionInv /\ StepInv /\ LagInv
    OBVIOUS
  <2>1. /\ queue = <<>> /\ batch = <<>> /\ putting = {} /\ version = 0 /\ syncVersion = 0
        /\ tversion = 0 /\ rpc = "idle" /\ tpc = "collect"
    BY DEF Init, RollInit, MQInit
  <2>2. Len(queue) = 0 /\ Len(batch) = 0
    BY <2>1, EmptySeq
  <2> QED
    BY <2>1, <2>2 DEF StampInv, VersionInv, Ordered, UpTo, StepInv, Calling, LagInv
<1>2. TypeInv /\ LagInv => VersionLag
  <2> SUFFICES ASSUME TypeInv, LagInv, tpc = "train", NEW s \in Range(batch)
               PROVE  (tversion - ver[s] - 1) * Interval < MaxRequired
    BY DEF VersionLag, Interval
  <2>1. batch \in Seq(Sample) /\ Len(batch) \in Nat
    BY Shapes
  <2>2. PICK j \in 1..Len(batch) : s = batch[j]
    BY <2>1, LenProperties DEF Range
  <2>3. s \in Sample
    BY <2>1, <2>2, ElementOfSeq
  <2>4. (tversion - ver[s] - 1) * Interval + (localStep - 1) * RequiredSamples + (j - 1) < MaxRequired
    BY <2>2 DEF LagInv, Delay
  <2>5. (tversion - ver[s] - 1) * Interval \in Int /\ (localStep - 1) * RequiredSamples \in Nat
    BY <2>3, DelayType
  <2> QED
    BY <2>1, <2>4, <2>5, Sizes
<1> QED
  BY <1>1, <1>2, StampStep, VersionStep, StepStep, LagStep, TypeInvariant, PlaceInvariant,
     SyncInvariant, PTL DEF Spec

-----------------------------------------------------------------------------
(* Without partial rollout no task is interrupted. *)
NoCancel == cancelQ = <<>> /\ ~serversPaused

(* What the processor holds it is about to submit, and it ends with the feed *)
(* and without a task.                                                       *)
ProcEndInv ==
  /\ held \in Sample => ppc \in Submitting \/ (ppc \in Reaping \cup {"crashed"} /\ why = "limit")
  /\ why = "done" => ppc \in Reaping \cup {"end", "crashed"} /\ taken = Total + 1
  /\ ppc = "end" => why = "done" /\ gen = {} /\ putting = {}

Over == {"final", "finalSync", "finalWait", "ended"}

(* Where the processor has ended, the finish signal is the last in the queue *)
(* until the trainer has it.                                                 *)
SignalInv ==
  /\ mainpc # "run" => ppc \in {"end", "crashed"}
  /\ tpc \in Over => mainpc # "run"
  /\ ppc = "end" /\ mainpc # "run" =>
        IF tpc \in Over THEN queue = <<>> ELSE queue # <<>> /\ queue[Len(queue)] = 0

(* If none is evicted, a sample is in one of the nine places. *)
Somewhere == dropped = 0 => \A s \in Sample : \E i \in 1..9 : In(s, i)

LEMMA NoCancelStep ==
  ASSUME PartialRollout = FALSE, NoCancel, [Next]_vars
  PROVE  NoCancel'
<1>1. ~serversPaused'
  <2>1. UNCHANGED serversPaused \/ serversPaused' = FALSE
    BY Frames DEF PauseBegin, Resume
  <2> QED
    BY <2>1 DEF NoCancel
<1>2. cancelQ' = cancelQ
  BY Frames DEF NoCancel, ProcTakeCancelled, TaskCancel
<1> QED
  BY <1>1, <1>2 DEF NoCancel

LEMMA ProcEndStep == TypeInv /\ ProcEndInv /\ [Next]_vars => ProcEndInv'
<1> SUFFICES ASSUME TypeInv, ProcEndInv, [Next]_vars PROVE ProcEndInv'
  OBVIOUS
<1>0. /\ Total \in Nat \ {0} /\ held \in 0..(Total + 1) /\ taken \in 0..(Total + 1) /\ fed <= Total + 1
      /\ fed \in 0..(Total + 1) /\ ppc \in ProcState /\ cancelQ \in Seq(Sample)
  BY Sizes, Shapes DEF TypeInv, TypeOK, RollTypeOK, FeedTypeOK, ProcTypeOK
<1>1. CASE UNCHANGED <<procVars, taken>> \/ (UNCHANGED <<held, why, taken>> /\ ppc' = Notified)
  <2>1. /\ UNCHANGED <<held, why, taken>>
        /\ ppc' = ppc \/ (ppc \in {"condResume", "condSubmit"} /\ ppc' = Notified)
    BY <1>1 DEF procVars, Notified
  <2>2. ppc = "end" => ~ProcSubmit /\ \A s \in Sample : ~Task(s)
    BY DEF ProcEndInv, ProcSubmit, Task, TaskFinish, TaskPut, TaskCancel, TaskFail
  <2>3. ppc = "end" => UNCHANGED <<gen, putting>>
    BY <2>2, Frames
  <2>4. CASE ppc' = ppc
    BY <2>1, <2>3, <2>4 DEF ProcEndInv
  <2>5. CASE ppc \in {"condResume", "condSubmit"} /\ ppc' = Notified
    <3>1. \/ ppc = "condResume" /\ ppc' = "wokenResume"
          \/ ppc = "condSubmit" /\ ppc' = "wokenSubmit"
      BY <2>5 DEF Notified
    <3> QED
      BY <2>1, <3>1 DEF ProcEndInv, Submitting, Reaping
  <2> QED
    BY <2>1, <2>4, <2>5
<1>2. CASE ProcTakePending \/ ProcGetWoken
  <2>1. /\ held' = taken + 1 /\ taken' = taken + 1 /\ taken < fed
        /\ \/ ppc' = "drain" /\ why' = IF taken + 1 = Total + 1 THEN "done" ELSE "limit"
           \/ taken + 1 # Total + 1 /\ ppc' = "submit" /\ why' = why
        /\ ppc \in {"top", "getWait"}
    BY <1>2 DEF ProcTakePending, ProcGetWoken, TakePending, Dispatch
  <2>2. why # "done"
    BY <2>1 DEF ProcEndInv, Reaping
  <2>3. held' \in Sample => held' # Total + 1
    BY <1>0
  <2> QED
    BY <1>0, <2>1, <2>2, <2>3 DEF ProcEndInv, Submitting, Reaping
<1>3. CASE ProcTakeCancelled
  <2>1. /\ held' = Head(cancelQ) /\ taken' = taken /\ cancelQ # <<>> /\ ppc = "top"
        /\ \/ ppc' = "drain" /\ why' = IF held' = Total + 1 THEN "done" ELSE "limit"
           \/ ppc' = "submit" /\ why' = why
    BY <1>3 DEF ProcTakeCancelled, Dispatch, feedVars
  <2>2. held' # Total + 1
    BY <1>0, <2>1, CancelOps
  <2>3. why # "done"
    BY <2>1 DEF ProcEndInv, Reaping
  <2> QED
    BY <2>1, <2>2, <2>3 DEF ProcEndInv, Submitting, Reaping
<1>4. CASE ProcSubmit
  BY <1>0, <1>4 DEF ProcSubmit, ProcEndInv, Submitting, Reaping, feedVars
<1>5. CASE ProcDrained
  <2>1. /\ ppc = "drain" /\ UNCHANGED <<why, held, taken, gen, putting>>
        /\ ppc' = IF why = "done" THEN "end" ELSE IF why = "pause" THEN "resumeWait" ELSE "submit"
        /\ why = "done" => ~(Active > 0)
    BY <1>5 DEF ProcDrained, feedVars, taskVars, Draining
  <2>2. ~(Active > 0) => gen = {} /\ putting = {}
    <3>1. /\ gen \subseteq Sample /\ putting \subseteq Sample /\ finished \in Nat
          /\ Cardinality(gen) \in Nat /\ Cardinality(putting) \in Nat
      BY Shapes
    <3>2. ~(Active > 0) => Cardinality(gen) = 0 /\ Cardinality(putting) = 0
      BY <3>1 DEF Active
    <3>3. IsFiniteSet(gen) /\ IsFiniteSet(putting)
      BY <3>1, SampleSets
    <3> QED
      BY <3>2, <3>3, FS_EmptySet
  <2>3. why \in {"pause", "limit", "done"}
    BY DEF TypeInv, TypeOK, RollTypeOK, ProcTypeOK
  <2> QED
    BY <2>1, <2>2, <2>3 DEF ProcEndInv, Submitting, Reaping
<1>6. CASE ProcSeesPause \/ ProcSetPaused \/ ProcWaitPending \/ ProcResumeWait \/ ProcWoken
  <2>1. /\ UNCHANGED <<held, taken>> /\ why' \in {why, "pause"}
        /\ \/ ppc \notin Reaping \cup Submitting \cup {"end", "crashed"}
           \/ ppc \in Submitting /\ ppc' \in Submitting /\ why' = why
        /\ ppc' # "end"
    BY <1>6 DEF ProcSeesPause, ProcSetPaused, ProcWaitPending, ProcResumeWait, ProcWoken,
       feedVars, Submitting, Reaping
  <2> QED
    BY <2>1 DEF ProcEndInv, Submitting, Reaping
<1>7. CASE ProcDrain \/ ProcAwaitTasks \/ ProcReap \/ ProcNothingToReap
  <2>1. UNCHANGED <<held, taken, why>> /\ ppc \in Reaping /\ ppc' \in Reaping \cup {"crashed"}
    BY <1>7 DEF ProcDrain, ProcAwaitTasks, ProcReap, ProcNothingToReap, feedVars, Reaping
  <2> QED
    BY <2>1 DEF ProcEndInv, Submitting, Reaping
<1>8. CASE UNCHANGED taken /\ (MonUnpause \/ Resume)
  BY <1>1, <1>8 DEF MonUnpause, Resume
<1> QED
  <2>1. UNCHANGED taken \/ ProcTakePending \/ ProcGetWoken
    BY Frames DEF feedVars, Feed
  <2> QED
    BY <1>1, <1>2, <1>3, <1>4, <1>5, <1>6, <1>7, <1>8, <2>1, Frames DEF Processor

LEMMA SeqParts ==
  ASSUME NEW S, NEW q \in Seq(S), q # <<>>
  PROVE  \A x \in Range(q) : x = Head(q) \/ x \in Range(Tail(q))
<1>1. /\ Tail(q) \in Seq(S) /\ Len(Tail(q)) = Len(q) - 1 /\ Head(q) = q[1]
      /\ \A i \in 1..Len(Tail(q)) : Tail(q)[i] = q[i + 1]
  BY HeadTailProperties
<1>2. Len(q) \in Nat \ {0} /\ DOMAIN q = 1..Len(q) /\ DOMAIN Tail(q) = 1..(Len(q) - 1)
  BY <1>1, LenProperties, EmptySeq
<1> DEFINE rest == Tail(q)
<1> HIDE DEF rest
<1>3. ASSUME NEW x \in Range(q), x # Head(q) PROVE x \in Range(rest)
  <2>1. PICK i \in 1..Len(q) : x = q[i]
    BY <1>2 DEF Range
  <2>2. i - 1 \in 1..(Len(q) - 1) /\ i - 1 + 1 = i
    BY <1>1, <1>2, <1>3, <2>1
  <2>3. rest[i - 1] = x
    BY <1>1, <2>1, <2>2 DEF rest
  <2> QED
    BY <1>2, <2>2, <2>3 DEF Range, rest
<1> QED
  BY <1>3 DEF rest

LEMMA PutKeepsAll ==
  ASSUME TypeInv, NEW x \in 0..Total, PutSample(x), dropped' = dropped
  PROVE  /\ Range(queue') = Range(queue) \cup {x} /\ queue' = Append(queue, x)
<1> DEFINE Item == 0..Total
<1>1. queue \in Seq(Item) /\ queue' = Append(Kept, x) /\ dropped \in Nat /\ dropped' = dropped + Evicted
  BY Shapes DEF PutSample, TypeInv, TypeOK, MQTypeOK
<1>2. Kept = queue
  BY <1>1 DEF Evicted, Kept
<1> HIDE DEF Item
<1>3. x \in Item
  BY DEF Item
<1> QED
  BY <1>1, <1>2, <1>3, SeqAdd

LEMMA SomewhereStep ==
  TypeInv /\ ProcEndInv /\ Somewhere /\ [Next]_vars => Somewhere'
<1> SUFFICES ASSUME TypeInv, ProcEndInv, Somewhere, [Next]_vars, dropped' = 0,
                    NEW s \in Sample
             PROVE  \E i \in 1..9 : In(s, i)'
  BY DEF Somewhere
<1>0. /\ queue \in Seq(0..Total) /\ cancelQ \in Seq(Sample) /\ batch \in Seq(Sample) /\ dropped \in Nat
      /\ taken \in Nat
  BY Shapes, Sizes DEF TypeInv, TypeOK, MQTypeOK, RollTypeOK, FeedTypeOK
<1>1. dropped = 0
  <2>1. dropped' = dropped \/ dropped' = dropped + 1
    BY <1>0, Frames DEF mqVars, MainFinish, TaskPut, PutSample, TrainerWait, WaitForSample, TrainerTake,
       TakeSample, Evicted
  <2> QED
    BY <1>0, <2>1
<1>2. PICK i \in 1..9 : In(s, i)
  BY <1>1 DEF Somewhere
<1>3. CASE UNCHANGED placeVars
  <2>1. In(s, i)'
    BY <1>2, <1>3 DEF placeVars, In
  <2> QED
    BY <2>1
<1>4. CASE UNCHANGED <<batch, trained>> /\ (ProcTakePending \/ ProcGetWoken)
  <2>1. /\ held' = taken + 1 /\ taken' = taken + 1
        /\ UNCHANGED <<gen, putting, cancelQ, queue, batch, trained, lost>>
        /\ ppc \in {"top", "getWait"}
    BY <1>4 DEF ProcTakePending, ProcGetWoken, TakePending, Dispatch, taskVars, mqVars
  <2>2. s # held
    BY <2>1 DEF ProcEndInv, Submitting, Reaping
  <2>3. CASE s = taken + 1
    <3>1. In(s, 2)'
      BY <2>1, <2>3 DEF In
    <3> QED
      BY <3>1
  <2>4. CASE s # taken + 1
    <3>1. In(s, i)'
      BY <1>0, <1>2, <2>1, <2>2, <2>4 DEF In
    <3> QED
      BY <3>1
  <2> QED
    BY <2>3, <2>4
<1>5. CASE UNCHANGED <<batch, trained>> /\ ProcTakeCancelled
  <2>1. /\ cancelQ # <<>> /\ held' = Head(cancelQ) /\ cancelQ' = Tail(cancelQ)
        /\ UNCHANGED <<taken, gen, putting, queue, batch, trained, lost>> /\ ppc = "top"
    BY <1>5 DEF ProcTakeCancelled, Dispatch, feedVars, mqVars
  <2>2. s # held
    BY <2>1 DEF ProcEndInv, Submitting, Reaping
  <2>3. s \in Range(cancelQ) => s = held' \/ s \in Range(cancelQ')
    <3> DEFINE Item == Sample
    <3>1. cancelQ \in Seq(Item)
      BY <1>0
    <3> HIDE DEF Item
    <3> QED
      BY <2>1, <3>1, SeqParts
  <2>4. In(s, 2)' \/ In(s, i)'
    BY <1>2, <2>1, <2>2, <2>3 DEF In
  <2> QED
    BY <2>4
<1>6. CASE UNCHANGED <<batch, trained>> /\ ProcSubmit
  <2>1. UNCHANGED <<taken, putting, cancelQ, queue, batch, trained, lost>>
    BY <1>6 DEF ProcSubmit, feedVars, mqVars
  <2>2. UNCHANGED <<held, gen>> \/ (held' = 0 /\ gen' = gen \cup {held})
    BY <1>6 DEF ProcSubmit
  <2>3. In(s, 3)' \/ In(s, i)'
    BY <1>2, <2>1, <2>2 DEF In
  <2> QED
    BY <2>3
<1>7. ASSUME UNCHANGED <<batch, trained>>, NEW t \in Sample, Task(t) PROVE \E j \in 1..9 : In(s, j)'
  <2>1. CASE TaskFinish(t)
    <3>1. /\ gen' = gen \ {t} /\ putting' = putting \cup {t}
          /\ UNCHANGED <<taken, held, cancelQ, queue, batch, trained, lost>>
      BY <1>7, <2>1 DEF TaskFinish, feedVars, procVars, mqVars
    <3>2. In(s, 4)' \/ In(s, i)'
      BY <1>2, <3>1 DEF In
    <3> QED
      BY <3>2
  <2>2. CASE TaskPut(t)
    <3>1. /\ putting' = putting \ {t} /\ PutSample(t)
          /\ UNCHANGED <<taken, held, gen, cancelQ, batch, trained, lost>>
      BY <1>7, <2>2 DEF TaskPut, feedVars, procVars
    <3>2. t \in 0..Total
      BY Sizes
    <3>3. Range(queue') = Range(queue) \cup {t}
      BY <1>1, <3>1, <3>2, PutKeepsAll
    <3>4. In(s, 6)' \/ In(s, i)'
      BY <1>2, <3>1, <3>3 DEF In
    <3> QED
      BY <3>4
  <2>3. CASE TaskCancel(t)
    <3>1. /\ gen' = gen \ {t} /\ cancelQ' = Append(cancelQ, t)
          /\ UNCHANGED <<taken, held, putting, queue, batch, trained, lost>>
      BY <1>7, <2>3 DEF TaskCancel, feedVars, procVars, mqVars
    <3>2. Range(cancelQ') = Range(cancelQ) \cup {t}
      <4> DEFINE Item == Sample
      <4>1. cancelQ \in Seq(Item) /\ t \in Item
        BY <1>0, <1>7
      <4> HIDE DEF Item
      <4> QED
        BY <3>1, <4>1, SeqAdd
    <3>3. In(s, 5)' \/ In(s, i)'
      BY <1>2, <3>1, <3>2 DEF In
    <3> QED
      BY <3>3
  <2>4. CASE TaskFail(t)
    <3>1. /\ gen' = gen \ {t} /\ lost' = lost \cup {t}
          /\ UNCHANGED <<taken, held, putting, cancelQ, queue, batch, trained>>
      BY <1>7, <2>4 DEF TaskFail, feedVars, procVars, mqVars
    <3>2. In(s, 9)' \/ In(s, i)'
      BY <1>2, <3>1 DEF In
    <3> QED
      BY <3>2
  <2> QED
    BY <1>7, <2>1, <2>2, <2>3, <2>4 DEF Task
<1>8. CASE UNCHANGED <<batch, trained>> /\ MainFinish
  <2>1. PutSample(0) /\ UNCHANGED <<taken, held, gen, putting, cancelQ, batch, trained, lost>>
    BY <1>8 DEF MainFinish, feedVars, procVars, taskVars
  <2>2. Range(queue') = Range(queue) \cup {0}
    BY <1>1, <2>1, PutKeepsAll, Sizes
  <2>3. In(s, i)'
    BY <1>2, <2>1, <2>2 DEF In
  <2> QED
    BY <2>3
<1>9. CASE TrainerTake
  <2>1. /\ queue # <<>> /\ queue' = Tail(queue)
        /\ \/ Head(queue) = 0 /\ batch' = batch
           \/ Head(queue) # 0 /\ batch' = Append(batch, Head(queue))
        /\ UNCHANGED <<taken, held, gen, putting, cancelQ, trained, lost>>
    BY <1>9 DEF TrainerTake, TakeSample, Rest, rollVars, feedVars, procVars, taskVars
  <2>2. s \in Range(queue) => s = Head(queue) \/ s \in Range(queue')
    <3> DEFINE Item == 0..Total
    <3>1. queue \in Seq(Item)
      BY <1>0
    <3> HIDE DEF Item
    <3> QED
      BY <2>1, <3>1, SeqParts
  <2>3. CASE Head(queue) = 0 /\ batch' = batch
    <3>1. In(s, i)'
      BY <1>2, <2>1, <2>2, <2>3 DEF In
    <3> QED
      BY <3>1
  <2>4. CASE Head(queue) # 0 /\ batch' = Append(batch, Head(queue))
    <3>1. Head(queue) \in Sample
      BY <1>0, <2>1, <2>4, HeadTailProperties, Sizes
    <3>2. Range(batch') = Range(batch) \cup {Head(queue)}
      <4> DEFINE Item == Sample
      <4>1. batch \in Seq(Item) /\ Head(queue) \in Item
        BY <1>0, <3>1
      <4> HIDE DEF Item
      <4> QED
        BY <2>4, <4>1, SeqAdd
    <3>3. In(s, 7)' \/ In(s, i)'
      BY <1>2, <2>1, <2>2, <3>2 DEF In
    <3> QED
      BY <3>3
  <2> QED
    BY <2>1, <2>3, <2>4
<1>10. CASE TrainStep
  <2>1. /\ trained' = trained \cup Range(batch)
        /\ UNCHANGED <<taken, held, gen, putting, cancelQ, queue, lost>>
    BY <1>10 DEF TrainStep, rollVars, feedVars, procVars, taskVars, mqVars
  <2>2. In(s, 8)' \/ In(s, i)'
    BY <1>2, <2>1 DEF In
  <2> QED
    BY <2>2
<1> QED
  BY <1>3, <1>4, <1>5, <1>6, <1>7, <1>8, <1>9, <1>10, PlaceMoves

LEMMA SignalStep ==
  TypeInv /\ StepInv /\ PlaceInv /\ ProcEndInv /\ SignalInv /\ [Next]_vars => SignalInv'
<1> SUFFICES ASSUME TypeInv, StepInv, PlaceInv, ProcEndInv, SignalInv, [Next]_vars PROVE SignalInv'
  OBVIOUS
<1>0. queue \in Seq(0..Total) /\ Len(queue) \in Nat /\ ppc \in ProcState
  BY Shapes DEF TypeInv, TypeOK, RollTypeOK, ProcTypeOK
<1>1. ppc \in {"end", "crashed"} => ppc' = ppc
  <2>1. ppc \in {"end", "crashed"} => ~Processor
    BY DEF Processor, ProcSeesPause, ProcSetPaused, ProcTakeCancelled, ProcTakePending, ProcWaitPending,
       ProcGetWoken, ProcDrain, ProcDrained, ProcAwaitTasks, ProcReap, ProcNothingToReap, ProcResumeWait,
       ProcWoken, ProcSubmit
  <2>2. ppc \in {"end", "crashed"} /\ (MonUnpause \/ Resume) => ppc' = ppc
    BY DEF MonUnpause, Resume, Notified
  <2> QED
    BY <2>1, <2>2, Frames DEF procVars
<1>2. /\ mainpc' # "run" => mainpc # "run" \/ MainFinish
      /\ mainpc # "run" => mainpc' # "run"
  BY Frames DEF Main, MainFinish, MainStop, MainStopped
<1>3. (mainpc # "run" => ppc \in {"end", "crashed"})'
  BY <1>1, <1>2 DEF SignalInv, MainFinish
<1>4. CASE MainFinish /\ UNCHANGED trainVars
  <2>1. mainpc = "run" /\ mainpc' # "run" /\ queue' = Append(Kept, 0) /\ tpc \notin Over /\ tpc' = tpc
    BY <1>4 DEF MainFinish, PutSample, SignalInv, trainVars
  <2>2. Kept \in Seq(0..Total)
    <3>1. CASE Full
      <4>1. queue # <<>> /\ Kept = Tail(queue)
        BY <3>1, EmptySeq, MaxQueueSizeAssumption DEF Full, Kept
      <4> QED
        BY <1>0, <4>1, HeadTailProperties
    <3>2. CASE ~Full
      BY <1>0, <3>2 DEF Kept
    <3> QED
      BY <3>1, <3>2
  <2>3. queue' # <<>> /\ queue'[Len(queue')] = 0
    <3> DEFINE k == Kept
    <3>1. k \in Seq(0..Total) /\ queue' = Append(k, 0) /\ 0 \in 0..Total
      BY <2>1, <2>2, Sizes
    <3> HIDE DEF k
    <3>2. /\ Append(k, 0) \in Seq(0..Total) /\ Len(Append(k, 0)) = Len(k) + 1
          /\ Append(k, 0)[Len(k) + 1] = 0 /\ Len(k) \in Nat
      BY <3>1, AppendProperties, LenProperties
    <3> QED
      BY <3>1, <3>2, EmptySeq
  <2> QED
    BY <1>3, <2>1, <2>3 DEF SignalInv
<1>5. CASE TrainerTake
  <2>1. /\ queue # <<>> /\ queue' = Tail(queue) /\ tpc = "collect"
        /\ tpc' \in Over => Head(queue) = 0
        /\ Head(queue) = 0 => tpc' \in Over
        /\ UNCHANGED <<mainpc, ppc>>
    BY <1>5 DEF TrainerTake, TakeSample, Rest, rollVars, procVars, Over
  <2>2. /\ Len(queue') = Len(queue) - 1 /\ Head(queue) = queue[1] /\ queue' \in Seq(0..Total)
        /\ \A k \in 1..Len(queue') : queue'[k] = queue[k + 1]
    BY <1>0, <2>1, HeadTailProperties
  <2>3. Len(queue) >= 1
    BY <1>0, <2>1, EmptySeq
  <2>4. DOMAIN queue = 1..Len(queue)
    BY <1>0, LenProperties
  <2>5. Head(queue) = 0 => mainpc # "run"
    BY <1>0, <2>1, <2>2, <2>3, <2>4 DEF PlaceInv, Unrepeated, Range
  <2>6. ASSUME ppc = "end", mainpc # "run"
        PROVE  IF tpc' \in Over THEN queue' = <<>> ELSE queue' # <<>> /\ queue'[Len(queue')] = 0
    <3>1. queue[Len(queue)] = 0
      BY <2>1, <2>6 DEF SignalInv, Over
    <3>2. CASE tpc' \in Over
      <4>1. queue[1] = 0
        BY <2>1, <2>2, <3>2
      <4>2. Len(queue) = 1
        BY <1>0, <2>3, <2>4, <3>1, <4>1 DEF PlaceInv, Unrepeated, IsInjective
      <4>3. queue' = <<>>
        BY <2>2, <4>2, EmptySeq
      <4> QED
        BY <3>2, <4>3
    <3>3. CASE tpc' \notin Over
      <4>1. Len(queue) # 1
        BY <2>1, <2>2, <3>1, <3>3
      <4>2. Len(queue') \in 1..Len(queue') /\ Len(queue') + 1 = Len(queue)
        BY <1>0, <2>2, <2>3, <4>1
      <4>3. queue'[Len(queue')] = 0
        BY <2>2, <3>1, <4>2
      <4> QED
        BY <2>2, <3>3, <4>2, <4>3, EmptySeq
    <3> QED
      BY <3>2, <3>3
  <2> QED
    BY <1>3, <2>1, <2>5, <2>6 DEF SignalInv
<1>6. CASE \E t \in Sample : TaskPut(t) /\ UNCHANGED trainVars
  <2>1. ppc # "end" /\ UNCHANGED <<ppc, mainpc, tpc>>
    BY <1>6 DEF TaskPut, ProcEndInv, procVars, trainVars
  <2> QED
    BY <1>3, <2>1 DEF SignalInv
<1>7. ASSUME queue' = queue, mainpc' = "run" \/ mainpc # "run"
      PROVE  SignalInv'
  <2>1. ppc' = "end" /\ mainpc' # "run" => ppc = "end" /\ mainpc # "run"
    BY <1>1, <1>7 DEF SignalInv
  <2>2. tpc' \in Over <=> tpc \in Over
    <3>1. \/ UNCHANGED trainVars \/ WeightsSynced \/ TrainerWait \/ TrainerTake \/ TrainStep \/ SyncBegin
          \/ TrainerFinal \/ TrainerEnd
      BY Frames DEF TrainerStep
    <3>2. ~TrainerTake
      BY <1>0, <1>7, HeadTailProperties DEF TrainerTake, TakeSample, Rest
    <3>3. WeightsSynced => (tpc' \in Over <=> tpc \in Over)
      BY DEF WeightsSynced, StepInv, Calling, Over
    <3> QED
      BY <3>1, <3>2, <3>3 DEF trainVars, TrainerWait, TrainStep, SyncBegin, TrainerFinal, TrainerEnd, Over
  <2>3. tpc \in Over => mainpc' # "run"
    BY <1>2 DEF SignalInv
  <2> QED
    BY <1>3, <1>7, <2>1, <2>2, <2>3 DEF SignalInv
<1> QED
  <2>1. \/ queue' = queue \/ MainFinish \/ (\E t \in Sample : TaskPut(t)) \/ TrainerTake
    BY Frames DEF mqVars, TrainerWait, WaitForSample
  <2>2. MainFinish \/ (\E t \in Sample : TaskPut(t)) => UNCHANGED trainVars
    <3>1. MainFinish => mainpc' # mainpc
      BY DEF MainFinish
    <3>2. (\E t \in Sample : TaskPut(t)) => putting' # putting
      BY DEF TaskPut
    <3>3. WeightsSynced \/ TrainerStep => UNCHANGED <<mainpc, putting>>
      BY DEF WeightsSynced, TrainerStep, TrainerWait, TrainerTake, TrainStep, SyncBegin, TrainerFinal,
         TrainerEnd, rollVars, taskVars
    <3> QED
      BY <3>1, <3>2, <3>3, Frames
  <2>3. MainFinish \/ mainpc' = "run" \/ mainpc # "run"
    BY <1>2
  <2> QED
    BY <1>4, <1>5, <1>6, <1>7, <2>1, <2>2, <2>3

LEMMA DeliverInit == Init => NoCancel /\ ProcEndInv /\ SignalInv /\ Somewhere /\ StepInv
<1> SUFFICES ASSUME Init PROVE NoCancel /\ ProcEndInv /\ SignalInv /\ Somewhere /\ StepInv
  OBVIOUS
<1>1. /\ cancelQ = <<>> /\ serversPaused = FALSE /\ held = 0 /\ why = "pause" /\ ppc = "top"
      /\ mainpc = "run" /\ tpc = "collect" /\ taken = 0
      /\ rpc = "idle" /\ version = 0 /\ syncVersion = 0 /\ tversion = 0
  BY DEF Init, RollInit
<1>2. \A s \in Sample : In(s, 1)
  BY <1>1, Sizes DEF In
<1>3. Somewhere
  BY <1>2 DEF Somewhere
<1>4. NoCancel /\ ProcEndInv /\ SignalInv /\ StepInv
  BY <1>1, Sizes DEF NoCancel, ProcEndInv, SignalInv, StepInv, Calling, Over, Submitting, Reaping
<1> QED
  BY <1>3, <1>4

(* Without partial rollout, and if nothing failed or was evicted, the trainer *)
(* has used every sample but the incomplete last batch when both sides are     *)
(* finished: no pause or synchronization loses one, and the finish signal      *)
(* overtakes none (_streaming_generation_main, _get_samples_from_queue).       *)
THEOREM EverySampleDelivered ==
  ASSUME PartialRollout = FALSE
  PROVE  Spec => []AllDelivered
<1> DEFINE Inv == NoCancel /\ ProcEndInv /\ SignalInv /\ Somewhere /\ StepInv
<1>1. Init => Inv
  BY DeliverInit
<1>2. TypeInv /\ PlaceInv /\ Inv /\ [Next]_vars => Inv'
  BY NoCancelStep, ProcEndStep, SignalStep, SomewhereStep, StepStep
<1>3. TypeInv /\ Inv => AllDelivered
  <2> SUFFICES ASSUME TypeInv, Inv, Ended, ppc = "end", lost = {}, dropped = 0, NEW s \in Sample
               PROVE  s \in trained \cup Range(batch)
    <3>1. TypeInv => trained \subseteq Sample /\ Range(batch) \subseteq Sample
      <4>1. TypeInv => batch \in Seq(Sample) /\ trained \subseteq Sample
        BY DEF TypeInv, TypeOK, TrainTypeOK
      <4>2. batch \in Seq(Sample) => \A k \in DOMAIN batch : batch[k] \in Sample
        BY LenProperties
      <4> QED
        BY <4>1, <4>2 DEF Range
    <3> QED
      BY <3>1, Zenon DEF AllDelivered
  <2>1. PICK i \in 1..9 : In(s, i)
    BY DEF Somewhere
  <2>2. /\ taken = Total + 1 /\ held \notin Sample /\ gen = {} /\ putting = {} /\ cancelQ = <<>> /\ queue = <<>>
    BY DEF ProcEndInv, NoCancel, SignalInv, Ended, Over, Submitting, Reaping
  <2>3. Range(<<>>) = {}
    BY DEF Range
  <2>4. ~(s > taken)
    BY <2>2, Sizes
  <2> QED
    BY <2>1, <2>2, <2>3, <2>4 DEF In
<1> HIDE DEF Inv
<1> QED
  BY <1>1, <1>2, <1>3, TypeInvariant, PlaceInvariant, PTL DEF Spec

=============================================================================
