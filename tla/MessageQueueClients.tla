------------------------ MODULE MessageQueueClients ------------------------
(***************************************************************************)
(* MessageQueue closed off with clients: one producer that numbers its     *)
(* samples, consumers that call get_sample again and again, a queue that   *)
(* may be cleared and shut down at any moment.                             *)
(***************************************************************************)
EXTENDS MessageQueue

CONSTANT MaxSamples       \* bound on the samples put

ASSUME MaxSamplesAssumption == MaxSamples \in Nat

VARIABLES cleared,        \* samples thrown away by clear_queue (not counted by the code)
          taken           \* taken[c]: the numbers c has received, in order

vars == <<mqVars, cleared, taken>>

TypeOK ==
  /\ MQTypeOK(1..MaxSamples)
  /\ cleared \in Nat
  /\ taken \in [Consumers -> Seq(1..MaxSamples)]

Init ==
  /\ MQInit
  /\ cleared = 0
  /\ taken = [c \in Consumers |-> <<>>]

Put ==
  /\ produced < MaxSamples
  /\ PutSample(produced + 1)
  /\ UNCHANGED <<cleared, taken>>

Wait(c) == WaitForSample(c) /\ UNCHANGED <<cleared, taken>>

Take(c) ==
  /\ TakeSample(c)
  /\ taken' = [taken EXCEPT ![c] = Append(@, Head(queue))]
  /\ UNCHANGED cleared

None(c) == ReturnNone(c) /\ UNCHANGED <<cleared, taken>>

Clear ==
  /\ ClearQueue
  /\ cleared' = cleared + Len(queue)
  /\ UNCHANGED taken

Close ==
  /\ open
  /\ Shutdown
  /\ UNCHANGED <<cleared, taken>>

Get(c) == Wait(c) \/ Take(c) \/ None(c)

Next == Put \/ Clear \/ Close \/ \E c \in Consumers : Get(c)

Spec == Init /\ [][Next]_vars

\* asyncio resumes a notified waiter and runs every call that can run
Fairness == \A c \in Consumers : WF_vars(caller[c] # "idle" /\ Get(c))

FairSpec == Spec /\ Fairness

-----------------------------------------------------------------------------
(* The deque never outgrows max_queue_size and always holds the newest     *)
(* samples, contiguous and in the order they were put: put_sample evicts   *)
(* from the old end only, whatever clear_queue and the consumers did       *)
(* before.                                                                 *)
Contiguous ==
  \A i \in 1..Len(queue) : queue[i] = produced - Len(queue) + i

HoldsTheNewest == Len(queue) <= MaxQueueSize /\ Contiguous

(* The three counters of get_statistics account for every sample: put, got *)
(* or evicted, or still there (what clear_queue threw away is not counted  *)
(* by the code and is the only difference).                                *)
Accounting == produced = consumed + dropped + cleared + Len(queue)

(* No lost wake-up: a consumer sleeps in the condition only while there is *)
(* nothing to get and the queue is open, since put_sample and shutdown     *)
(* notify every waiter.                                                    *)
NoLostWakeup ==
  (\E c \in Consumers : caller[c] = "waiting") => queue = <<>> /\ open

(* No sample is delivered twice or out of order to a consumer, and none to *)
(* two consumers.                                                          *)
DeliveredOnceInOrder ==
  /\ \A c \in Consumers : \A i, j \in 1..Len(taken[c]) :
        i < j => taken[c][i] < taken[c][j]
  /\ \A c, d \in Consumers : c # d =>
        \A i \in 1..Len(taken[c]), j \in 1..Len(taken[d]) : taken[c][i] # taken[d][j]

(* A first-in first-out channel, lossy at its old end only: what is in the *)
(* queue and what its consumers have got (put_sample, get_sample).         *)
NewestInOrder == HoldsTheNewest /\ DeliveredOnceInOrder

(* A closed queue lets every consumer go: nobody stays blocked in          *)
(* get_sample after shutdown.                                              *)
ShutdownReleases ==
  \A c \in Consumers : (~open /\ caller[c] # "idle") ~> caller[c] = "idle"
=============================================================================
