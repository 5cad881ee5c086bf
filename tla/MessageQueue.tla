---------------------------- MODULE MessageQueue ----------------------------
(***************************************************************************)
(* The Ray actor MessageQueue, the only channel between the Rollouter and  *)
(* the Trainer (fully_async_policy/message_queue.py).                      *)
(*                                                                         *)
(* Every method body runs under the actor's asyncio lock and releases it   *)
(* only in _consumer_condition.wait(), so a call is one atomic action and  *)
(* a get_sample that finds nothing is split at the wait: the consumer is   *)
(* "waiting" until a notify_all makes it "woken", and then looks again.    *)
(*                                                                         *)
(* A sample is any value; the Rollouter's final sample=None is one too.    *)
(***************************************************************************)
EXTENDS Integers, Sequences

CONSTANTS MaxQueueSize,   \* max_queue_size, the deque's maxlen
          Consumers       \* callers of get_sample

ASSUME MaxQueueSizeAssumption == MaxQueueSize \in Nat \ {0}

VARIABLES queue,          \* the deque, oldest sample first
          open,           \* the actor's running flag
          caller,         \* caller[c]: where c's get_sample call stands
          produced,       \* total_produced
          consumed,       \* total_consumed
          dropped         \* dropped_samples

mqVars == <<queue, open, caller, produced, consumed, dropped>>

CallState == {"idle", "waiting", "woken"}

MQTypeOK(Sample) ==
  /\ queue \in Seq(Sample)
  /\ Len(queue) <= MaxQueueSize
  /\ open \in BOOLEAN
  /\ caller \in [Consumers -> CallState]
  /\ produced \in Nat /\ consumed \in Nat /\ dropped \in Nat

MQInit ==
  /\ queue = <<>>
  /\ open = TRUE
  /\ caller = [c \in Consumers |-> "idle"]
  /\ produced = 0 /\ consumed = 0 /\ dropped = 0

\* Mutant of Full: off by one
FullLate == Len(queue) > MaxQueueSize

Full == Len(queue) >= MaxQueueSize

\* Mutant of Kept: the newest sample gives way
KeptOldest == IF Full THEN SubSeq(queue, 1, Len(queue) - 1) ELSE queue

\* What put_sample leaves in the queue: a full one gives up its oldest sample
Kept == IF Full THEN Tail(queue) ELSE queue

Evicted == IF Full THEN 1 ELSE 0

\* Mutant of NotifyAll: notify()
NotifyOne ==
  caller' = [c \in Consumers |->
               IF caller[c] = "waiting" /\ c = CHOOSE d \in Consumers : caller[d] = "waiting"
               THEN "woken" ELSE caller[c]]

\* _consumer_condition.notify_all()
NotifyAll ==
  caller' = [c \in Consumers |-> IF caller[c] = "waiting" THEN "woken" ELSE caller[c]]

\* put_sample: the new sample always enters
PutSample(x) ==
  /\ queue' = Append(Kept, x)
  /\ dropped' = dropped + Evicted
  /\ produced' = produced + 1
  /\ NotifyAll
  /\ UNCHANGED <<open, consumed>>

\* get_sample finds nothing to return and releases the lock in wait()
WaitForSample(c) ==
  /\ caller[c] \in {"idle", "woken"}
  /\ queue = <<>> /\ open
  /\ caller' = [caller EXCEPT ![c] = "waiting"]
  /\ UNCHANGED <<queue, open, produced, consumed, dropped>>

\* Mutant of Rest: queue[0] instead of popleft()
RestUnpopped == queue

Rest == Tail(queue)

\* get_sample returns Head(queue)
TakeSample(c) ==
  /\ caller[c] \in {"idle", "woken"}
  /\ queue # <<>>
  /\ queue' = Rest
  /\ consumed' = consumed + 1
  /\ caller' = [caller EXCEPT ![c] = "idle"]
  /\ UNCHANGED <<open, produced, dropped>>

\* get_sample returns None: the queue is closed and empty
ReturnNone(c) ==
  /\ caller[c] \in {"idle", "woken"}
  /\ queue = <<>> /\ ~open
  /\ caller' = [caller EXCEPT ![c] = "idle"]
  /\ UNCHANGED <<queue, open, produced, consumed, dropped>>

ClearQueue ==
  /\ queue' = <<>>
  /\ UNCHANGED <<open, caller, produced, consumed, dropped>>

\* Mutant of Shutdown: the waiters are not notified
ShutdownSilently ==
  /\ open' = FALSE
  /\ UNCHANGED <<queue, caller, produced, consumed, dropped>>

Shutdown ==
  /\ open' = FALSE
  /\ NotifyAll
  /\ UNCHANGED <<queue, produced, consumed, dropped>>
=============================================================================
