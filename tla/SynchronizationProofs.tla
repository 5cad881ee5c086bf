----------------------- MODULE SynchronizationProofs -----------------------
(***************************************************************************)
(* Theorems about what passes between the trainer and the rollouter: the    *)
(* samples in the message queue, for every queue size, every number of       *)
(* consumers and of samples; the weights, for any number of actors, rollout  *)
(* workers and tensors of any sizes, alone and in the trainer's fit(); the   *)
(* reports of the versions, and which weights computed the old log           *)
(* probabilities, for every configuration of fit().                          *)
(***************************************************************************)
EXTENDS MessageQueueClients, Synchronization, SequenceTheorems, FiniteSetTheorems, TLAPS

-----------------------------------------------------------------------------
(* The samples: MessageQueueClients *)

\* What put_sample keeps of a queue within its bound has room for one more
LEMMA KeptHasRoom ==
  ASSUME NEW S, queue \in Seq(S), Len(queue) <= MaxQueueSize
  PROVE  /\ Kept \in Seq(S)
         /\ Len(Kept) < MaxQueueSize
         /\ Full  => queue # <<>> /\ Kept = Tail(queue) /\ Len(Kept) = Len(queue) - 1
         /\ ~Full => Kept = queue
<1>1. CASE Full
  <2>1. queue # <<>>
    BY <1>1, MaxQueueSizeAssumption DEF Full
  <2>2. Tail(queue) \in Seq(S) /\ Len(Tail(queue)) = Len(queue) - 1
    BY <2>1, HeadTailProperties
  <2>3. Kept = Tail(queue)
    BY <1>1, Zenon DEF Kept
  <2>4. Kept \in Seq(S) /\ Len(Kept) = Len(queue) - 1
    BY <2>2, <2>3
  <2>5. Len(queue) \in Nat /\ MaxQueueSize \in Nat
    BY LenProperties, MaxQueueSizeAssumption
  <2> HIDE DEF Kept
  <2> QED
    BY <1>1, <2>1, <2>3, <2>4, <2>5
<1>2. CASE ~Full
  BY <1>2, MaxQueueSizeAssumption DEF Kept, Full
<1> QED
  BY <1>1, <1>2

(* The deque stays within its bound and every counter is a number.         *)
THEOREM TypeCorrect == Spec => []TypeOK
<1>1. Init => TypeOK
  BY MaxQueueSizeAssumption DEF Init, MQInit, TypeOK, MQTypeOK, CallState
<1>2. TypeOK /\ [Next]_vars => TypeOK'
  <2> SUFFICES ASSUME TypeOK, [Next]_vars PROVE TypeOK'
    OBVIOUS
  <2> USE MaxQueueSizeAssumption, MaxSamplesAssumption DEF TypeOK, MQTypeOK, CallState
  <2>1. CASE Put
    <3>1. produced + 1 \in 1..MaxSamples
      BY <2>1 DEF Put
    <3>2. Kept \in Seq(1..MaxSamples) /\ Len(Kept) < MaxQueueSize
      BY KeptHasRoom
    <3>3. queue' \in Seq(1..MaxSamples) /\ Len(queue') <= MaxQueueSize
      BY <2>1, <3>1, <3>2 DEF Put, PutSample
    <3> QED
      BY <2>1, <3>3 DEF Put, PutSample, NotifyAll, Evicted
  <2>2. CASE Clear
    BY <2>2 DEF Clear, ClearQueue
  <2>3. CASE Close
    BY <2>3 DEF Close, Shutdown, NotifyAll
  <2>4. ASSUME NEW c \in Consumers, Wait(c) PROVE TypeOK'
    BY <2>4 DEF Wait, WaitForSample
  <2>5. ASSUME NEW c \in Consumers, Take(c) PROVE TypeOK'
    <3>1. Head(queue) \in 1..MaxSamples /\ Tail(queue) \in Seq(1..MaxSamples)
      BY <2>5 DEF Take, TakeSample
    <3> QED
      BY <2>5, <3>1 DEF Take, TakeSample, Rest
  <2>6. ASSUME NEW c \in Consumers, None(c) PROVE TypeOK'
    BY <2>6 DEF None, ReturnNone
  <2>7. CASE UNCHANGED vars
    BY <2>7 DEF vars, mqVars
  <2> QED
    BY <2>1, <2>2, <2>3, <2>4, <2>5, <2>6, <2>7 DEF Next, Get
<1> QED
  BY <1>1, <1>2, PTL DEF Spec

-----------------------------------------------------------------------------
\* What put_sample keeps is contiguous and ends with the last sample put
LEMMA KeptIsNewest ==
  ASSUME TypeOK, Contiguous
  PROVE  \A i \in 1..Len(Kept) : Kept[i] = produced - Len(Kept) + i
<1>1. queue \in Seq(1..MaxSamples) /\ Len(queue) \in Nat /\ produced \in Nat
  BY LenProperties DEF TypeOK, MQTypeOK
<1>2. CASE Full
  <2>1. queue # <<>> /\ Kept = Tail(queue) /\ Len(Kept) = Len(queue) - 1
    BY <1>2, KeptHasRoom DEF TypeOK, MQTypeOK
  <2>2. ASSUME NEW i \in 1..Len(Kept) PROVE Kept[i] = produced - Len(Kept) + i
    <3>1. i + 1 \in 1..Len(queue)
      BY <1>1, <2>1
    <3>2. Kept[i] = queue[i + 1]
      BY <1>1, <2>1, HeadTailProperties
    <3>3. queue[i + 1] = produced - Len(queue) + (i + 1)
      BY <3>1 DEF Contiguous
    <3> QED
      BY <1>1, <2>1, <3>2, <3>3
  <2> QED
    BY <2>2
<1>3. CASE ~Full
  BY <1>3, KeptHasRoom DEF TypeOK, MQTypeOK, Contiguous
<1> QED
  BY <1>2, <1>3

\* No sample handed to a consumer is newer than those in the queue
TakenIsOld ==
  \A c \in Consumers : \A i \in 1..Len(taken[c]) : taken[c][i] <= produced - Len(queue)

OrderInv == Contiguous /\ TakenIsOld /\ DeliveredOnceInOrder

LEMMA TakenBound ==
  ASSUME TypeOK, TakenIsOld, NEW c \in Consumers, NEW i \in 1..Len(taken[c])
  PROVE  taken[c][i] <= produced - Len(queue) /\ taken[c][i] \in Int
<1>1. taken[c] \in Seq(1..MaxSamples)
  BY DEF TypeOK
<1>2. taken[c][i] \in 1..MaxSamples
  BY <1>1, ElementOfSeq
<1>3. taken[c][i] <= produced - Len(queue)
  BY DEF TakenIsOld
<1> QED
  BY <1>2, <1>3, MaxSamplesAssumption

\* The queue's order and the consumers' order are preserved by every step
LEMMA OrderStep == TypeOK /\ TypeOK' /\ OrderInv /\ [Next]_vars => OrderInv'
<1> SUFFICES ASSUME TypeOK, TypeOK', OrderInv, [Next]_vars
             PROVE  OrderInv'
  OBVIOUS
<1>0. /\ queue \in Seq(1..MaxSamples) /\ Len(queue) \in Nat /\ produced \in Nat
      /\ taken \in [Consumers -> Seq(1..MaxSamples)]
  BY LenProperties DEF TypeOK, MQTypeOK
<1>1. CASE Put
  <2>1. /\ Kept \in Seq(1..MaxSamples) /\ Len(Kept) \in Nat /\ Len(Kept) <= Len(queue)
    <3>1. Len(queue) <= MaxQueueSize
      BY DEF TypeOK, MQTypeOK
    <3>2. Kept \in Seq(1..MaxSamples) /\ Len(Kept) \in Nat
      BY <1>0, <3>1, KeptHasRoom, LenProperties
    <3>3. Len(Kept) = Len(queue) - 1 \/ Kept = queue
      BY <1>0, <3>1, KeptHasRoom
    <3> QED
      BY <1>0, <3>2, <3>3
  <2>2. queue' = Append(Kept, produced + 1) /\ produced' = produced + 1 /\ taken' = taken
    BY <1>1 DEF Put, PutSample
  <2>3. Len(queue') = Len(Kept) + 1
    BY <2>1, <2>2, AppendProperties
  <2>4. Contiguous'
    <3>1. \A i \in 1..Len(Kept) : Kept[i] = produced - Len(Kept) + i
      BY KeptIsNewest DEF OrderInv
    <3>2. ASSUME NEW i \in 1..Len(queue') PROVE queue'[i] = produced' - Len(queue') + i
      <4>1. CASE i = Len(Kept) + 1
        BY <1>0, <2>1, <2>2, <2>3, <4>1, AppendProperties
      <4>2. CASE i # Len(Kept) + 1
        <5>1. i \in 1..Len(Kept)
          BY <2>1, <2>3, <4>2
        <5>2. queue'[i] = Kept[i]
          BY <2>1, <2>2, <5>1, AppendProperties
        <5> QED
          BY <1>0, <2>1, <2>2, <2>3, <3>1, <5>1, <5>2
      <4> QED
        BY <4>1, <4>2
    <3> QED
      BY <3>2 DEF Contiguous
  <2>5. TakenIsOld'
    <3>1. ASSUME NEW c \in Consumers, NEW i \in 1..Len(taken[c])
          PROVE  taken[c][i] <= produced' - Len(queue')
      <4>1. taken[c][i] <= produced - Len(queue) /\ taken[c][i] \in Int
        BY TakenBound DEF OrderInv
      <4> QED
        BY <1>0, <2>1, <2>2, <2>3, <4>1
    <3> QED
      BY <2>2, <3>1 DEF TakenIsOld
  <2>6. DeliveredOnceInOrder'
    BY <2>2 DEF OrderInv, DeliveredOnceInOrder
  <2> QED
    BY <2>4, <2>5, <2>6 DEF OrderInv
<1>2. CASE Clear
  <2>1. queue' = <<>> /\ produced' = produced /\ taken' = taken
    BY <1>2 DEF Clear, ClearQueue
  <2>2. Len(queue') = 0
    BY <2>1
  <2>3. Contiguous'
    BY <2>2 DEF Contiguous
  <2>4. ASSUME NEW c \in Consumers, NEW i \in 1..Len(taken[c])
        PROVE  taken[c][i] <= produced
    <3>1. taken[c][i] <= produced - Len(queue) /\ taken[c][i] \in Int
      BY TakenBound DEF OrderInv
    <3> QED
      BY <1>0, <3>1
  <2>5. TakenIsOld'
    BY <1>0, <2>1, <2>2, <2>4 DEF TakenIsOld
  <2> QED
    BY <2>1, <2>3, <2>5 DEF OrderInv, DeliveredOnceInOrder
<1>3. ASSUME NEW c \in Consumers, Take(c) PROVE OrderInv'
  <2>1. queue # <<>> /\ queue' = Tail(queue) /\ produced' = produced
    BY <1>3 DEF Take, TakeSample, Rest
  <2>2. /\ Len(queue') = Len(queue) - 1 /\ Head(queue) = queue[1]
        /\ \A i \in 1..Len(queue') : queue'[i] = queue[i + 1]
    BY <1>0, <2>1, HeadTailProperties
  <2>3. 1 \in 1..Len(queue)
    BY <1>0, <2>1, EmptySeq
  <2>4. Head(queue) = produced - Len(queue) + 1
    BY <2>2, <2>3 DEF OrderInv, Contiguous
  <2>5. Contiguous'
    <3>1. ASSUME NEW i \in 1..Len(queue') PROVE queue'[i] = produced' - Len(queue') + i
      <4>1. i + 1 \in 1..Len(queue) /\ queue'[i] = queue[i + 1]
        BY <1>0, <2>2
      <4>2. queue[i + 1] = produced - Len(queue) + (i + 1)
        BY <4>1 DEF OrderInv, Contiguous
      <4> QED
        BY <1>0, <2>1, <2>2, <4>1, <4>2
    <3> QED
      BY <3>1 DEF Contiguous
  <2>6. \A d \in Consumers : taken'[d] = IF d = c THEN Append(taken[c], Head(queue)) ELSE taken[d]
    BY <1>0, <1>3 DEF Take
  <2>7. /\ Len(taken'[c]) = Len(taken[c]) + 1 /\ Len(taken[c]) \in Nat
        /\ taken'[c][Len(taken[c]) + 1] = Head(queue)
        /\ \A i \in 1..Len(taken[c]) : taken'[c][i] = taken[c][i]
    <3>1. taken[c] \in Seq(1..MaxSamples) /\ Head(queue) \in 1..MaxSamples
      BY <1>0, <2>1, HeadTailProperties
    <3>2. taken'[c] = Append(taken[c], Head(queue)) /\ Len(taken[c]) \in Nat
      BY <2>6, <3>1, LenProperties
    <3> QED
      BY <3>1, <3>2, AppendProperties
  <2>8. ASSUME NEW d \in Consumers, NEW i \in 1..Len(taken[d])
        PROVE  taken[d][i] \in Int /\ taken[d][i] < Head(queue)
    <3>1. taken[d][i] <= produced - Len(queue) /\ taken[d][i] \in Int
      BY TakenBound DEF OrderInv
    <3> QED
      BY <1>0, <2>4, <3>1
  <2>9. TakenIsOld'
    <3>1. ASSUME NEW d \in Consumers, NEW i \in 1..Len(taken'[d])
          PROVE  taken'[d][i] <= produced' - Len(queue')
      <4>1. CASE d = c /\ i = Len(taken[c]) + 1
        BY <1>0, <2>1, <2>2, <2>4, <2>7, <4>1
      <4>2. CASE ~(d = c /\ i = Len(taken[c]) + 1)
        <5>1. i \in 1..Len(taken[d]) /\ taken'[d][i] = taken[d][i]
          BY <2>6, <2>7, <4>2
        <5> QED
          BY <1>0, <2>1, <2>2, <2>4, <2>8, <5>1
      <4> QED
        BY <4>1, <4>2
    <3> QED
      BY <3>1 DEF TakenIsOld
  <2>10. DeliveredOnceInOrder'
    <3>1. ASSUME NEW d \in Consumers, NEW i \in 1..Len(taken'[d]), NEW j \in 1..Len(taken'[d]), i < j
          PROVE  taken'[d][i] < taken'[d][j]
      <4>1. CASE d = c /\ j = Len(taken[c]) + 1
        <5>1. i \in 1..Len(taken[c])
          BY <2>7, <3>1, <4>1
        <5> QED
          BY <2>7, <2>8, <4>1, <5>1
      <4>2. CASE ~(d = c /\ j = Len(taken[c]) + 1)
        <5>1. /\ i \in 1..Len(taken[d]) /\ j \in 1..Len(taken[d])
              /\ taken'[d][i] = taken[d][i] /\ taken'[d][j] = taken[d][j]
          BY <2>6, <2>7, <3>1, <4>2, SMTT(20)
        <5> QED
          BY <3>1, <5>1 DEF OrderInv, DeliveredOnceInOrder
      <4> QED
        BY <4>1, <4>2
    <3>2. ASSUME NEW d \in Consumers, NEW e \in Consumers, d # e,
                 NEW i \in 1..Len(taken'[d]), NEW j \in 1..Len(taken'[e])
          PROVE  taken'[d][i] # taken'[e][j]
      <4>1. CASE d = c /\ i = Len(taken[c]) + 1
        <5>1. e # c /\ j \in 1..Len(taken[e]) /\ taken'[e][j] = taken[e][j]
          BY <2>6, <3>2, <4>1
        <5>2. taken'[d][i] = Head(queue) /\ Head(queue) \in Int
          BY <1>0, <2>4, <2>7, <4>1
        <5> QED
          BY <2>8, <5>1, <5>2
      <4>2. CASE e = c /\ j = Len(taken[c]) + 1
        <5>1. d # c /\ i \in 1..Len(taken[d]) /\ taken'[d][i] = taken[d][i]
          BY <2>6, <3>2, <4>2
        <5>2. taken'[e][j] = Head(queue) /\ Head(queue) \in Int
          BY <1>0, <2>4, <2>7, <4>2
        <5> QED
          BY <2>8, <5>1, <5>2
      <4>3. CASE ~(d = c /\ i = Len(taken[c]) + 1) /\ ~(e = c /\ j = Len(taken[c]) + 1)
        <5>1. /\ i \in 1..Len(taken[d]) /\ taken'[d][i] = taken[d][i]
              /\ j \in 1..Len(taken[e]) /\ taken'[e][j] = taken[e][j]
          BY <2>6, <2>7, <4>3
        <5> QED
          BY <3>2, <5>1 DEF OrderInv, DeliveredOnceInOrder
      <4> QED
        BY <4>1, <4>2, <4>3
    <3> QED
      BY <3>1, <3>2 DEF DeliveredOnceInOrder
  <2> QED
    BY <2>5, <2>9, <2>10 DEF OrderInv
<1>4. CASE UNCHANGED <<queue, produced, taken>>
  BY <1>4 DEF OrderInv, Contiguous, TakenIsOld, DeliveredOnceInOrder
<1> QED
  <2>1. ASSUME Close \/ (\E c \in Consumers : Wait(c) \/ None(c)) \/ UNCHANGED vars
        PROVE  UNCHANGED <<queue, produced, taken>>
    BY <2>1 DEF Close, Shutdown, Wait, WaitForSample, None, ReturnNone, vars, mqVars
  <2> QED
    BY <1>1, <1>2, <1>3, <1>4, <2>1 DEF Next, Get

(* put_sample evicts from the old end only: the queue always holds the     *)
(* newest samples, in order and without a gap.                             *)
THEOREM NewestKept == Spec => []HoldsTheNewest
<1>1. Init => OrderInv
  BY DEF Init, MQInit, OrderInv, Contiguous, TakenIsOld, DeliveredOnceInOrder
<1>2. TypeOK /\ OrderInv => HoldsTheNewest
  BY DEF OrderInv, HoldsTheNewest, TypeOK, MQTypeOK
<1> QED
  BY <1>1, <1>2, TypeCorrect, OrderStep, PTL DEF Spec

(* get_sample never delivers a sample twice, to one consumer or to two,    *)
(* nor an older one after a newer one.                                     *)
THEOREM Delivery == Spec => []DeliveredOnceInOrder
<1>1. Init => OrderInv
  BY DEF Init, MQInit, OrderInv, Contiguous, TakenIsOld, DeliveredOnceInOrder
<1>2. OrderInv => DeliveredOnceInOrder
  BY DEF OrderInv
<1> QED
  BY <1>1, <1>2, TypeCorrect, OrderStep, PTL DEF Spec

(* The queue is a first-in first-out channel which loses samples at its    *)
(* old end only.                                                           *)
THEOREM LossyFifo == Spec => []NewestInOrder
<1>1. HoldsTheNewest /\ DeliveredOnceInOrder => NewestInOrder
  BY DEF NewestInOrder
<1> QED
  BY <1>1, NewestKept, Delivery, PTL

-----------------------------------------------------------------------------
(* The counters of get_statistics account for every sample put.            *)
THEOREM Accounted == Spec => []Accounting
<1>1. Init => Accounting
  BY DEF Init, MQInit, Accounting
<1>2. TypeOK /\ Accounting /\ [Next]_vars => Accounting'
  <2> SUFFICES ASSUME TypeOK, Accounting, [Next]_vars PROVE Accounting'
    OBVIOUS
  <2>0. /\ queue \in Seq(1..MaxSamples) /\ Len(queue) \in Nat /\ Len(queue) <= MaxQueueSize
        /\ produced \in Nat /\ consumed \in Nat /\ dropped \in Nat /\ cleared \in Nat
    BY LenProperties DEF TypeOK, MQTypeOK
  <2>1. CASE Put
    <3>1. Kept \in Seq(1..MaxSamples) /\ Len(Kept) + Evicted = Len(queue)
      <4>1. CASE Full
        BY <2>0, <4>1, KeptHasRoom DEF Evicted
      <4>2. CASE ~Full
        BY <2>0, <4>2, KeptHasRoom DEF Evicted
      <4> QED
        BY <4>1, <4>2
    <3>2. /\ queue' = Append(Kept, produced + 1) /\ produced' = produced + 1
          /\ dropped' = dropped + Evicted /\ UNCHANGED <<consumed, cleared>>
      BY <2>1 DEF Put, PutSample
    <3>3. produced + 1 \in 1..MaxSamples
      BY <2>0, <2>1, MaxSamplesAssumption DEF Put
    <3>4. Len(queue') = Len(Kept) + 1
      BY <3>1, <3>2, <3>3, AppendProperties
    <3>5. Evicted \in Nat /\ Len(Kept) \in Nat
      BY <3>1, LenProperties DEF Evicted
    <3>6. /\ produced' = produced + 1 /\ dropped' = dropped + Evicted
          /\ consumed' = consumed /\ cleared' = cleared
      BY <3>2
    <3> HIDE DEF Evicted, Kept
    <3> QED
      BY <2>0, <3>1, <3>4, <3>5, <3>6 DEF Accounting
  <2>2. CASE Clear
    BY <2>0, <2>2 DEF Clear, ClearQueue, Accounting
  <2>3. ASSUME NEW c \in Consumers, Take(c) PROVE Accounting'
    <3>1. queue # <<>> /\ queue' = Tail(queue) /\ consumed' = consumed + 1
          /\ UNCHANGED <<produced, dropped, cleared>>
      BY <2>3 DEF Take, TakeSample, Rest
    <3>2. Len(queue') = Len(queue) - 1
      BY <2>0, <3>1, HeadTailProperties
    <3> QED
      BY <2>0, <3>1, <3>2 DEF Accounting
  <2>4. CASE Close \/ (\E c \in Consumers : Wait(c) \/ None(c)) \/ UNCHANGED vars
    BY <2>4 DEF Close, Shutdown, Wait, WaitForSample, None, ReturnNone, vars, mqVars, Accounting
  <2> QED
    BY <2>1, <2>2, <2>3, <2>4 DEF Next, Get
<1> QED
  BY <1>1, <1>2, TypeCorrect, PTL DEF Spec

(* A consumer blocked in get_sample has nothing to get: every put and the  *)
(* shutdown notify all of them.                                            *)
THEOREM WakeupsKept == Spec => []NoLostWakeup
<1>1. Init => NoLostWakeup
  BY DEF Init, MQInit, NoLostWakeup
<1>2. TypeOK /\ NoLostWakeup /\ [Next]_vars => NoLostWakeup'
  <2> SUFFICES ASSUME TypeOK, NoLostWakeup, [Next]_vars,
                      NEW d \in Consumers, caller'[d] = "waiting"
               PROVE  queue' = <<>> /\ open'
    BY DEF NoLostWakeup
  <2>0. caller \in [Consumers -> CallState] /\ queue \in Seq(1..MaxSamples)
    BY DEF TypeOK, MQTypeOK
  <2>1. CASE Put
    BY <2>0, <2>1 DEF Put, PutSample, NotifyAll
  <2>2. CASE Clear
    BY <2>2 DEF Clear, ClearQueue, NoLostWakeup
  <2>3. CASE Close
    BY <2>0, <2>3 DEF Close, Shutdown, NotifyAll
  <2>4. ASSUME NEW c \in Consumers, Wait(c) PROVE queue' = <<>> /\ open'
    BY <2>4 DEF Wait, WaitForSample
  <2>5. ASSUME NEW c \in Consumers, Take(c) PROVE FALSE
    BY <2>0, <2>5 DEF Take, TakeSample, NoLostWakeup
  <2>6. ASSUME NEW c \in Consumers, None(c) PROVE FALSE
    BY <2>0, <2>6 DEF None, ReturnNone, NoLostWakeup
  <2>7. CASE UNCHANGED vars
    BY <2>7 DEF vars, mqVars, NoLostWakeup
  <2> QED
    BY <2>1, <2>2, <2>3, <2>4, <2>5, <2>6, <2>7 DEF Next, Get
<1> QED
  BY <1>1, <1>2, TypeCorrect, PTL DEF Spec

-----------------------------------------------------------------------------
(* The transfer of the weights, WeightTransfer: whatever a rank loads is in  *)
(* its buffer, whole.                                                        *)

Places == {"done", "cache", "registered", "turn", "receive", "load", "answer", "barrier", "leave"}
Received == {"load", "answer", "barrier"}     \* a bucket is there, the turn not over
Bucket == [turn : Int, version : Int]

(* The tensors of a thread are of no type: BucketOf has none. *)
ThreadType(l) ==
  /\ l = [turn |-> l.turn, tensors |-> l.tensors, slot |-> l.slot, busy |-> l.busy]
  /\ l.turn \in Int /\ l.slot \in 0..1 /\ l.busy \in BOOLEAN

TransferType ==
  /\ overlap \in BOOLEAN /\ published \in Int
  /\ pc \in [Rank -> Places]
  /\ turn \in [Rank -> Nat] /\ gidx \in [Rank -> Nat]
  /\ memory \in [Rank -> Int]
  /\ buffer \in [Rank -> [0..1 -> Bucket]]
  /\ sent \in Seq(Bucket)
  /\ loader = [r \in Rank |-> loader[r]]
  /\ \A r \in Rank : ThreadType(loader[r])
  /\ replied \in [Rank -> BOOLEAN]

(* The broadcasts follow the order of the turns and leave none out. *)
SentInv ==
  /\ \A k \in 1..Len(sent) :
        /\ sent[k].turn \in Nat /\ HasBucket(sent[k].turn)
        /\ sent[k].version = published
  /\ \A j, k \in 1..Len(sent) : j < k => sent[j].turn < sent[k].turn
  /\ \A k \in 1..Len(sent), n \in Nat :
        HasBucket(n) /\ n < sent[k].turn => \E j \in 1..Len(sent) : j < k /\ sent[j].turn = n

(* A rank has received the broadcasts of the turns behind it, and no others. *)
ArrivalInv(r) ==
  /\ gidx[r] <= Len(sent)
  /\ \A k \in 1..Len(sent) : IF k <= gidx[r] THEN sent[k].turn < turn[r] ELSE sent[k].turn >= turn[r]
  /\ \A n \in Nat :
        HasBucket(n) /\ n < turn[r] => \E j \in 1..Len(sent) : j <= gidx[r] /\ sent[j].turn = n

(* A source has called for its turns so far; what a rank has received is in   *)
(* the half of its buffer the turn is for.                                     *)
PlaceInv(r) ==
  /\ \A k \in 1..Len(sent) : Source(sent[k].turn) = r =>
        k <= gidx[r] \/ (k = gidx[r] + 1 /\ pc[r] \in Received)
  /\ pc[r] = "receive" => HasBucket(turn[r]) /\ Source(turn[r]) # r
  /\ pc[r] \in Received =>
        /\ gidx[r] < Len(sent) /\ sent[gidx[r] + 1].turn = turn[r]
        /\ buffer[r][Slot(gidx[r])] = [turn |-> turn[r], version |-> published]
  /\ pc[r] = "load" => ~overlap
  /\ pc[r] \in {"answer", "barrier"} => overlap
  /\ pc[r] \notin {"done", "cache"} /\ r \in ActorRank => memory[r] = published

(* A thread is busy with the last bucket, in the other half, while the next    *)
(* one is received.                                                             *)
ThreadInv(r) ==
  /\ ~(loader[r].busy /\ replied[r])
  /\ loader[r].busy \/ replied[r] => overlap /\ pc[r] \in {"turn", "receive", "answer"}
  /\ loader[r].busy /\ loader[r].tensors # <<>> =>
        /\ gidx[r] >= 1 /\ loader[r].slot = Slot(gidx[r] - 1)
        /\ buffer[r][loader[r].slot] = [turn |-> loader[r].turn, version |-> published]

TransferInv ==
  /\ TransferType /\ SentInv
  /\ \A r \in Rank : ArrivalInv(r) /\ PlaceInv(r) /\ ThreadInv(r)
-----------------------------------------------------------------------------
(* An actor's rank is a rank, and the source of every turn is an actor. *)
LEMMA SourceIsActor ==
  /\ ActorRank \subseteq Rank
  /\ \A n \in Nat : Source(n) \in ActorRank
BY TransferAssumption DEF Rank, ActorRank, Source

(* The halves of consecutive buckets are different. *)
LEMMA HalvesAlternate ==
  ASSUME overlap \in BOOLEAN, NEW g \in Nat
  PROVE  Slot(g) \in 0..1 /\ (~overlap => Slot(g) = 0) /\ (overlap /\ g >= 1 => Slot(g) # Slot(g - 1))
BY DEF Slot

LEMMA InitHolds == TransferInit => TransferInv
<1> SUFFICES ASSUME TransferInit PROVE TransferInv
  OBVIOUS
<1>1. TransferType
  <2>1. sent \in Seq(Bucket)
    BY DEF TransferInit
  <2>2. \A r \in Rank : loader[r] = Resting
    BY DEF TransferInit
  <2>3. loader = [r \in Rank |-> loader[r]] /\ \A r \in Rank : ThreadType(loader[r])
    <3>1. ThreadType(Resting)
      BY DEF ThreadType, Resting, Nothing
    <3>2. loader = [r \in Rank |-> loader[r]]
      BY DEF TransferInit
    <3> QED
      BY <2>2, <3>1, <3>2
  <2>4. buffer \in [Rank -> [0..1 -> Bucket]]
    BY DEF TransferInit, Bucket, Garbage, Nothing
  <2> QED
    BY <2>1, <2>3, <2>4, TransferAssumption DEF TransferInit, TransferType, Places, Nothing
<1>2. SentInv /\ \A r \in Rank : ArrivalInv(r) /\ PlaceInv(r) /\ ThreadInv(r)
  BY DEF TransferInit, SentInv, ArrivalInv, PlaceInv, ThreadInv, Received, Resting
<1> QED
  BY <1>1, <1>2 DEF TransferInv

(* A rank that has a broadcast to receive in its turn finds this turn's. *)
LEMMA NextIsMine ==
  ASSUME TransferInv, NEW r \in Rank, HasBucket(turn[r]), gidx[r] < Len(sent)
  PROVE  sent[gidx[r] + 1].turn = turn[r]
<1> DEFINE k == gidx[r] + 1
<1>1. k \in 1..Len(sent) /\ turn[r] \in Nat /\ sent[k].turn \in Nat
  BY DEF TransferInv, TransferType, SentInv
<1>2. sent[k].turn >= turn[r]
  BY <1>1 DEF TransferInv, ArrivalInv, TransferType
<1>3. ASSUME turn[r] < sent[k].turn PROVE FALSE
  <2>1. PICK j \in 1..Len(sent) : j < k /\ sent[j].turn = turn[r]
    BY <1>1, <1>3 DEF TransferInv, SentInv
  <2>2. j <= gidx[r]
    BY <2>1 DEF TransferInv, TransferType
  <2>3. sent[j].turn < turn[r]
    BY <2>2 DEF TransferInv, ArrivalInv
  <2> QED
    BY <1>1, <2>1, <2>3
<1> QED
  BY <1>1, <1>2, <1>3

(* A source in its turn has received all broadcasts, and no rank is ahead. *)
LEMMA SourceIsFirst ==
  ASSUME TransferInv, NEW r \in Rank,
         pc[r] = "turn", HasBucket(turn[r]), Source(turn[r]) = r
  PROVE  gidx[r] = Len(sent) /\ \A s \in Rank : turn[s] <= turn[r]
<1>1. gidx[r] \in Nat /\ gidx[r] <= Len(sent) /\ Len(sent) \in Nat
  BY DEF TransferInv, TransferType, ArrivalInv
<1>2. ASSUME gidx[r] < Len(sent) PROVE FALSE
  <2>1. sent[gidx[r] + 1].turn = turn[r]
    BY <1>2, NextIsMine
  <2>2. gidx[r] + 1 \in 1..Len(sent)
    BY <1>1, <1>2
  <2>3. gidx[r] + 1 <= gidx[r]
    BY <2>1, <2>2 DEF TransferInv, PlaceInv, Received
  <2> QED
    BY <1>1, <2>3
<1>3. gidx[r] = Len(sent)
  BY <1>1, <1>2
<1>4. ASSUME NEW s \in Rank, turn[r] < turn[s] PROVE FALSE
  <2>1. turn[r] \in Nat
    BY DEF TransferInv, TransferType
  <2>2. PICK j \in 1..Len(sent) : sent[j].turn = turn[r]
    BY <1>4, <2>1 DEF TransferInv, ArrivalInv
  <2>3. sent[j].turn < turn[r]
    BY <1>3, <2>2 DEF TransferInv, ArrivalInv
  <2> QED
    BY <2>1, <2>2, <2>3
<1> QED
  BY <1>3, <1>4 DEF TransferInv, TransferType

(* SentInv and ArrivalInv speak of the broadcasts and the turns only. *)
LEMMA OrderKept ==
  ASSUME TransferInv, UNCHANGED <<sent, published>>
  PROVE  SentInv' /\ \A r \in Rank : turn'[r] = turn[r] /\ gidx'[r] = gidx[r] => ArrivalInv(r)'
<1>1. SentInv'
  BY DEF TransferInv, SentInv
<1>2. ASSUME NEW r \in Rank, turn'[r] = turn[r], gidx'[r] = gidx[r]
      PROVE  ArrivalInv(r)'
  <2>1. ArrivalInv(r) /\ UNCHANGED sent
    BY DEF TransferInv
  <2> QED
    BY ONLY <1>2, <2>1 DEF ArrivalInv
<1> QED
  BY <1>1, <1>2

-----------------------------------------------------------------------------
(* The beginning and the end of a transfer *)

LEMMA StartKeeps ==
  ASSUME TransferInv, NEW version \in Nat, StartTransfer(version)
  PROVE  TransferInv'
<1>1. TransferType'
  <2>1. (sent \in Seq(Bucket))'
    BY DEF StartTransfer
  <2>2. (buffer \in [Rank -> [0..1 -> Bucket]])'
    BY DEF StartTransfer, Bucket, Garbage, Nothing
  <2> QED
    BY <2>1, <2>2 DEF TransferInv, TransferType, StartTransfer, Everywhere, Places
<1>2. sent' = <<>> /\ \A r \in Rank : pc'[r] = "cache" /\ turn'[r] = 0 /\ gidx'[r] = 0
  BY DEF StartTransfer, Everywhere
<1>3. SentInv' /\ \A r \in Rank : ArrivalInv(r)' /\ PlaceInv(r)'
  BY <1>2 DEF SentInv, ArrivalInv, PlaceInv, Received
<1>4. \A r \in Rank : ~loader[r].busy /\ ~replied[r]
  BY DEF TransferInv, ThreadInv, StartTransfer, All
<1>5. \A r \in Rank : ThreadInv(r)'
  BY <1>4 DEF ThreadInv, StartTransfer
<1> QED
  BY <1>1, <1>3, <1>5 DEF TransferInv

LEMMA RegisterKeeps ==
  ASSUME TransferInv, NEW r \in Rank, Register(r)
  PROVE  TransferInv'
<1> USE DEF Register
<1>1. TransferType'
  BY DEF TransferInv, TransferType, Places, Nothing
<1>2. SentInv' /\ \A s \in Rank : ArrivalInv(s)'
  BY OrderKept DEF TransferInv
<1>3. ASSUME NEW s \in Rank PROVE PlaceInv(s)' /\ ThreadInv(s)'
  BY DEF TransferInv, TransferType, PlaceInv, ThreadInv, Received, Slot
<1> QED
  BY <1>1, <1>2, <1>3 DEF TransferInv

LEMMA StartThreadsKeeps ==
  ASSUME TransferInv, StartThreads
  PROVE  TransferInv'
<1> USE DEF StartThreads, All, Everywhere
<1>1. TransferType'
  <2>1. \A r \in Rank : loader'[r] = [Resting EXCEPT !.busy = overlap]
    OBVIOUS
  <2>2. \A r \in Rank : ThreadType(loader[r])'
    BY <2>1 DEF ThreadType, Resting, Nothing, TransferInv, TransferType
  <2>3. loader' = [r \in Rank |-> loader'[r]]
    OBVIOUS
  <2> QED
    BY <2>2, <2>3 DEF TransferInv, TransferType, Places
<1>2. SentInv' /\ \A s \in Rank : ArrivalInv(s)'
  BY OrderKept DEF TransferInv
<1>3. ASSUME NEW s \in Rank PROVE PlaceInv(s)'
  BY DEF TransferInv, TransferType, PlaceInv, Received
<1>4. ASSUME NEW s \in Rank PROVE ThreadInv(s)'
  <2>1. loader'[s].busy = overlap /\ loader'[s].tensors = <<>>
    BY DEF Resting
  <2>2. ~replied[s]
    BY DEF TransferInv, ThreadInv
  <2> QED
    BY <2>1, <2>2 DEF ThreadInv, TransferInv, TransferType
<1> QED
  BY <1>1, <1>2, <1>3, <1>4 DEF TransferInv

LEMMA LeaveKeeps ==
  ASSUME TransferInv, Leave
  PROVE  TransferInv'
<1> USE DEF Leave, All, Everywhere
<1>1. TransferType'
  BY DEF TransferInv, TransferType, Places, Nothing
<1>2. SentInv' /\ \A s \in Rank : ArrivalInv(s)'
  BY OrderKept DEF TransferInv
<1>3. ASSUME NEW s \in Rank PROVE PlaceInv(s)' /\ ThreadInv(s)'
  BY DEF TransferInv, TransferType, PlaceInv, ThreadInv, Received
<1> QED
  BY <1>1, <1>2, <1>3 DEF TransferInv

-----------------------------------------------------------------------------
(* The turns *)

LEMMA SkipKeeps ==
  ASSUME TransferInv, NEW r \in Rank, Skip(r)
  PROVE  TransferInv'
<1> USE DEF Skip
<1>1. TransferType'
  BY DEF TransferInv, TransferType
<1>2. SentInv' /\ \A s \in Rank \ {r} : ArrivalInv(s)'
  BY OrderKept DEF TransferInv, TransferType
<1>3. ArrivalInv(r)'
  <2>1. turn[r] \in Nat /\ turn'[r] = turn[r] + 1 /\ gidx'[r] = gidx[r] /\ sent' = sent
    BY DEF TransferInv, TransferType
  <2>2. \A k \in 1..Len(sent) : sent[k].turn \in Nat /\ sent[k].turn # turn[r]
    BY DEF TransferInv, SentInv
  <2>3. \A k \in 1..Len(sent) :
           IF k <= gidx[r] THEN sent[k].turn < turn[r] + 1 ELSE sent[k].turn >= turn[r] + 1
    BY <2>1, <2>2 DEF TransferInv, ArrivalInv
  <2>4. ASSUME NEW n \in Nat, HasBucket(n), n < turn[r] + 1
        PROVE  \E j \in 1..Len(sent) : j <= gidx[r] /\ sent[j].turn = n
    <3>1. n < turn[r]
      BY <2>1, <2>4
    <3> QED
      BY <2>4, <3>1 DEF TransferInv, ArrivalInv
  <2> QED
    BY <2>1, <2>3, <2>4 DEF ArrivalInv, TransferInv
<1>4. ASSUME NEW s \in Rank PROVE PlaceInv(s)' /\ ThreadInv(s)'
  BY DEF TransferInv, TransferType, PlaceInv, ThreadInv, Received, Slot
<1> QED
  BY <1>1, <1>2, <1>3, <1>4 DEF TransferInv

(* A source calls for its turn's broadcast. *)
LEMMA SourceCalls ==
  ASSUME TransferInv, NEW r \in Rank, Broadcast(r), Source(turn[r]) = r
  PROVE  TransferInv'
<1> DEFINE copied == [turn |-> turn[r], version |-> memory[r]]
           last == Len(sent) + 1
<1>1. /\ pc[r] = "turn" /\ HasBucket(turn[r]) /\ sent' = Append(sent, copied)
      /\ pc' = [pc EXCEPT ![r] = IF overlap THEN "answer" ELSE "load"]
      /\ buffer' = [buffer EXCEPT ![r][Slot(gidx[r])] = copied]
      /\ UNCHANGED <<overlap, published, turn, gidx, memory, loader, replied>>
  BY DEF Broadcast
<1>2. gidx[r] = Len(sent) /\ \A s \in Rank : turn[s] <= turn[r]
  BY <1>1, SourceIsFirst
<1>3. /\ turn[r] \in Nat /\ memory[r] = published /\ published \in Int /\ overlap \in BOOLEAN
      /\ Len(sent) \in Nat /\ sent \in Seq(Bucket) /\ copied \in Bucket
  <2>1. /\ turn[r] \in Nat /\ published \in Int /\ overlap \in BOOLEAN
        /\ Len(sent) \in Nat /\ sent \in Seq(Bucket)
    BY DEF TransferInv, TransferType
  <2>2. r \in ActorRank
    BY <2>1, SourceIsActor
  <2>3. memory[r] = published
    BY <1>1, <2>2 DEF TransferInv, PlaceInv
  <2> QED
    BY <2>1, <2>3 DEF Bucket
<1>4. /\ Len(sent') = last /\ sent'[last] = copied
      /\ \A k \in 1..Len(sent) : sent'[k] = sent[k]
  BY <1>1, <1>3, AppendProperties
<1>5. \A k \in 1..Len(sent') : k \in 1..Len(sent) \/ k = last
  BY <1>3, <1>4
<1>6. \A k \in 1..Len(sent) : sent[k].turn \in Nat /\ sent[k].turn < turn[r]
  BY <1>2, <1>3 DEF TransferInv, SentInv, ArrivalInv
<1>7. Slot(gidx[r]) \in 0..1
  BY HalvesAlternate DEF TransferInv, TransferType
<1>8. TransferType'
  <2>1. (sent \in Seq(Bucket))'
    BY <1>1, <1>3, AppendProperties
  <2>2. (buffer \in [Rank -> [0..1 -> Bucket]])'
    BY <1>1, <1>3, <1>7 DEF TransferInv, TransferType
  <2> QED
    BY <1>1, <2>1, <2>2 DEF TransferInv, TransferType, Places
<1>9. SentInv'
  <2>1. ASSUME NEW k \in 1..Len(sent')
        PROVE  sent'[k].turn \in Nat /\ HasBucket(sent'[k].turn) /\ sent'[k].version = published
    BY <1>1, <1>3, <1>4, <1>5 DEF TransferInv, SentInv
  <2>2. ASSUME NEW j \in 1..Len(sent'), NEW k \in 1..Len(sent'), j < k
        PROVE  sent'[j].turn < sent'[k].turn
    <3>1. j \in 1..Len(sent)
      BY <1>3, <1>4, <2>2
    <3>2. CASE k = last
      BY <1>4, <1>6, <3>1, <3>2
    <3>3. CASE k \in 1..Len(sent)
      BY <1>4, <2>2, <3>1, <3>3 DEF TransferInv, SentInv
    <3> QED
      BY <1>5, <3>2, <3>3
  <2>3. ASSUME NEW k \in 1..Len(sent'), NEW n \in Nat, HasBucket(n), n < sent'[k].turn
        PROVE  \E j \in 1..Len(sent') : j < k /\ sent'[j].turn = n
    <3>1. CASE k = last
      <4>1. n < turn[r]
        BY <1>4, <2>3, <3>1
      <4>2. PICK j \in 1..Len(sent) : sent[j].turn = n
        BY <2>3, <4>1 DEF TransferInv, ArrivalInv
      <4> QED
        BY <1>3, <1>4, <3>1, <4>2
    <3>2. CASE k \in 1..Len(sent)
      <4>1. PICK j \in 1..Len(sent) : j < k /\ sent[j].turn = n
        BY <1>4, <2>3, <3>2 DEF TransferInv, SentInv
      <4> QED
        BY <1>3, <1>4, <4>1
    <3> QED
      BY <1>5, <3>1, <3>2
  <2> QED
    BY <1>1, <2>1, <2>2, <2>3 DEF SentInv
<1>10. ASSUME NEW s \in Rank PROVE ArrivalInv(s)'
  <2>1. gidx[s] \in Nat /\ gidx[s] <= Len(sent) /\ turn[s] \in Nat /\ turn[s] <= turn[r]
    BY <1>2 DEF TransferInv, TransferType, ArrivalInv
  <2>2. ASSUME NEW k \in 1..Len(sent')
        PROVE  IF k <= gidx[s] THEN sent'[k].turn < turn[s] ELSE sent'[k].turn >= turn[s]
    <3>1. CASE k = last
      BY <1>3, <1>4, <2>1, <3>1
    <3>2. CASE k \in 1..Len(sent)
      BY <1>4, <3>2 DEF TransferInv, ArrivalInv
    <3> QED
      BY <1>5, <3>1, <3>2
  <2>3. ASSUME NEW n \in Nat, HasBucket(n), n < turn[s]
        PROVE  \E j \in 1..Len(sent') : j <= gidx[s] /\ sent'[j].turn = n
    <3>1. PICK j \in 1..Len(sent) : j <= gidx[s] /\ sent[j].turn = n
      BY <2>3 DEF TransferInv, ArrivalInv
    <3> QED
      BY <1>3, <1>4, <3>1
  <2> QED
    BY <1>1, <1>3, <1>4, <2>1, <2>2, <2>3 DEF ArrivalInv
<1>11. ASSUME NEW s \in Rank PROVE PlaceInv(s)'
  <2>1. CASE s = r
    <3>1. buffer'[r][Slot(gidx[r])] = [turn |-> turn[r], version |-> published]
      BY <1>1, <1>3, <1>7 DEF TransferInv, TransferType
    <3>2. Slot(gidx[r])' = Slot(gidx[r])
      BY <1>1 DEF Slot
    <3>3. pc'[r] = IF overlap THEN "answer" ELSE "load"
      BY <1>1 DEF TransferInv, TransferType
    <3>4. \A k \in 1..Len(sent') : k <= gidx[r] \/ k = gidx[r] + 1
      BY <1>2, <1>3, <1>4
    <3> QED
      BY <1>1, <1>2, <1>3, <1>4, <2>1, <3>1, <3>2, <3>3, <3>4 DEF PlaceInv, Received
  <2>2. CASE s # r
    <3>1. pc'[s] = pc[s] /\ buffer'[s] = buffer[s] /\ Slot(gidx[s])' = Slot(gidx[s])
      BY <1>1, <2>2 DEF Slot, TransferInv, TransferType
    <3>2. \A k \in 1..Len(sent') : Source(sent'[k].turn) = s => k \in 1..Len(sent)
      BY <1>4, <1>5, <2>2
    <3>3. PlaceInv(s) /\ gidx[s] \in Nat
      BY DEF TransferInv, TransferType
    <3>4. gidx[s] < Len(sent) => gidx[s] < Len(sent') /\ sent'[gidx[s] + 1] = sent[gidx[s] + 1]
      BY <1>3, <1>4, <3>3
    <3>5. \A k \in 1..Len(sent') : Source(sent'[k].turn) = s =>
             k <= gidx[s] \/ (k = gidx[s] + 1 /\ pc[s] \in Received)
      BY <1>4, <3>2, <3>3 DEF PlaceInv
    <3> QED
      BY <1>1, <3>1, <3>3, <3>4, <3>5 DEF PlaceInv
  <2> QED
    BY <2>1, <2>2
<1>12. ASSUME NEW s \in Rank PROVE ThreadInv(s)'
  <2>1. CASE s = r
    <3>1. loader[r].busy /\ loader[r].tensors # <<>> => loader[r].slot # Slot(gidx[r])
      BY HalvesAlternate DEF TransferInv, TransferType, ThreadInv
    <3>2. loader[r].slot \in 0..1
      BY DEF TransferInv, TransferType, ThreadType
    <3>3. loader[r].slot # Slot(gidx[r]) => buffer'[r][loader[r].slot] = buffer[r][loader[r].slot]
      BY <1>1, <1>7, <3>2 DEF TransferInv, TransferType
    <3>4. pc'[r] = IF overlap THEN "answer" ELSE "load"
      BY <1>1 DEF TransferInv, TransferType
    <3> QED
      BY <1>1, <2>1, <3>1, <3>3, <3>4 DEF TransferInv, ThreadInv, Slot
  <2>2. CASE s # r
    <3>1. pc'[s] = pc[s] /\ buffer'[s] = buffer[s]
      BY <1>1, <2>2 DEF TransferInv, TransferType
    <3> QED
      BY <1>1, <3>1 DEF TransferInv, ThreadInv, Slot
  <2> QED
    BY <2>1, <2>2
<1> QED
  BY <1>8, <1>9, <1>10, <1>11, <1>12 DEF TransferInv

(* Another rank gives its half of the buffer away to the broadcast. *)
LEMMA OtherCalls ==
  ASSUME TransferInv, NEW r \in Rank, Broadcast(r), Source(turn[r]) # r
  PROVE  TransferInv'
<1>1. /\ pc[r] = "turn" /\ HasBucket(turn[r])
      /\ pc' = [pc EXCEPT ![r] = "receive"]
      /\ buffer' = [buffer EXCEPT ![r][Slot(gidx[r])] = Garbage]
      /\ UNCHANGED <<overlap, published, turn, gidx, memory, sent, loader, replied>>
  BY DEF Broadcast
<1>2. Slot(gidx[r]) \in 0..1
  BY HalvesAlternate DEF TransferInv, TransferType
<1>3. TransferType'
  <2>1. (buffer \in [Rank -> [0..1 -> Bucket]])'
    BY <1>1, <1>2 DEF TransferInv, TransferType, Bucket, Garbage, Nothing
  <2> QED
    BY <1>1, <2>1 DEF TransferInv, TransferType, Places
<1>4. SentInv' /\ \A s \in Rank : ArrivalInv(s)'
  BY <1>1, OrderKept DEF TransferInv
<1>5. ASSUME NEW s \in Rank PROVE PlaceInv(s)'
  BY <1>1 DEF TransferInv, TransferType, PlaceInv, Received, Slot
<1>6. ASSUME NEW s \in Rank PROVE ThreadInv(s)'
  <2>1. CASE s = r
    <3>1. loader[r].busy /\ loader[r].tensors # <<>> => loader[r].slot # Slot(gidx[r])
      BY HalvesAlternate DEF TransferInv, TransferType, ThreadInv
    <3>2. loader[r].slot \in 0..1
      BY DEF TransferInv, TransferType, ThreadType
    <3>3. loader[r].slot # Slot(gidx[r]) => buffer'[r][loader[r].slot] = buffer[r][loader[r].slot]
      BY <1>1, <1>2, <3>2 DEF TransferInv, TransferType
    <3>4. pc'[r] = "receive"
      BY <1>1 DEF TransferInv, TransferType
    <3> QED
      BY <1>1, <2>1, <3>1, <3>3, <3>4 DEF TransferInv, ThreadInv, Slot
  <2>2. CASE s # r
    <3>1. pc'[s] = pc[s] /\ buffer'[s] = buffer[s]
      BY <1>1, <2>2 DEF TransferInv, TransferType
    <3> QED
      BY <1>1, <3>1 DEF TransferInv, ThreadInv, Slot
  <2> QED
    BY <2>1, <2>2
<1> QED
  BY <1>3, <1>4, <1>5, <1>6 DEF TransferInv

LEMMA ReceiveKeeps ==
  ASSUME TransferInv, NEW r \in Rank, Receive(r)
  PROVE  TransferInv'
<1> DEFINE next == sent[gidx[r] + 1]
<1>1. /\ pc[r] = "receive" /\ gidx[r] < Len(sent)
      /\ pc' = [pc EXCEPT ![r] = IF overlap THEN "answer" ELSE "load"]
      /\ buffer' = [buffer EXCEPT ![r][Slot(gidx[r])] = next]
      /\ UNCHANGED <<overlap, published, turn, gidx, memory, sent, loader, replied>>
  BY DEF Receive
<1>2. Slot(gidx[r]) \in 0..1 /\ gidx[r] \in Nat /\ Len(sent) \in Nat
  BY HalvesAlternate DEF TransferInv, TransferType
<1>3. next \in Bucket /\ next.version = published /\ next.turn = turn[r]
  <2>1. gidx[r] + 1 \in 1..Len(sent)
    BY <1>1, <1>2
  <2>2. HasBucket(turn[r])
    BY <1>1 DEF TransferInv, PlaceInv
  <2> QED
    BY <1>1, <2>1, <2>2, NextIsMine DEF TransferInv, TransferType, SentInv
<1>4. next = [turn |-> turn[r], version |-> published]
  BY <1>3 DEF Bucket
<1>5. TransferType'
  <2>1. (buffer \in [Rank -> [0..1 -> Bucket]])'
    BY <1>1, <1>2, <1>3 DEF TransferInv, TransferType
  <2> QED
    BY <1>1, <2>1 DEF TransferInv, TransferType, Places
<1>6. SentInv' /\ \A s \in Rank : ArrivalInv(s)'
  BY <1>1, OrderKept DEF TransferInv
<1>7. ASSUME NEW s \in Rank PROVE PlaceInv(s)'
  <2>1. CASE s = r
    <3>1. buffer'[r][Slot(gidx[r])] = next /\ Slot(gidx[r])' = Slot(gidx[r])
      BY <1>1, <1>2 DEF TransferInv, TransferType, Slot
    <3>2. pc'[r] = IF overlap THEN "answer" ELSE "load"
      BY <1>1 DEF TransferInv, TransferType
    <3>3. overlap \in BOOLEAN
      BY DEF TransferInv, TransferType
    <3> QED
      BY <1>1, <1>3, <1>4, <2>1, <3>1, <3>2, <3>3 DEF TransferInv, PlaceInv, Received
  <2>2. CASE s # r
    <3>1. pc'[s] = pc[s] /\ buffer'[s] = buffer[s] /\ Slot(gidx[s])' = Slot(gidx[s])
      BY <1>1, <2>2 DEF TransferInv, TransferType, Slot
    <3> QED
      BY <1>1, <3>1 DEF TransferInv, PlaceInv
  <2> QED
    BY <2>1, <2>2
<1>8. ASSUME NEW s \in Rank PROVE ThreadInv(s)'
  <2>1. CASE s = r
    <3>1. loader[r].busy /\ loader[r].tensors # <<>> => loader[r].slot # Slot(gidx[r])
      BY HalvesAlternate DEF TransferInv, TransferType, ThreadInv
    <3>2. loader[r].slot \in 0..1
      BY DEF TransferInv, TransferType, ThreadType
    <3>3. loader[r].slot # Slot(gidx[r]) => buffer'[r][loader[r].slot] = buffer[r][loader[r].slot]
      BY <1>1, <1>2, <3>2 DEF TransferInv, TransferType
    <3>4. pc'[r] = IF overlap THEN "answer" ELSE "load"
      BY <1>1 DEF TransferInv, TransferType
    <3> QED
      BY <1>1, <2>1, <3>1, <3>3, <3>4 DEF TransferInv, ThreadInv, Slot
  <2>2. CASE s # r
    <3>1. pc'[s] = pc[s] /\ buffer'[s] = buffer[s]
      BY <1>1, <2>2 DEF TransferInv, TransferType
    <3> QED
      BY <1>1, <3>1 DEF TransferInv, ThreadInv, Slot
  <2> QED
    BY <2>1, <2>2
<1> QED
  BY <1>5, <1>6, <1>7, <1>8 DEF TransferInv

(* A rank that is through with its turn has received it, and all before. *)
LEMMA TurnOver ==
  ASSUME TransferInv, NEW r \in Rank, pc[r] \in Received,
         UNCHANGED <<sent, published>>, turn'[r] = turn[r] + 1, gidx'[r] = gidx[r] + 1
  PROVE  /\ ArrivalInv(r)'
         /\ \A k \in 1..Len(sent) : Source(sent[k].turn) = r => k <= gidx[r] + 1
<1> DEFINE mine == gidx[r] + 1
<1>1. /\ turn[r] \in Nat /\ gidx[r] \in Nat /\ Len(sent) \in Nat
      /\ mine \in 1..Len(sent) /\ sent[mine].turn = turn[r]
  <2>1. turn[r] \in Nat /\ gidx[r] \in Nat /\ Len(sent) \in Nat
    BY DEF TransferInv, TransferType
  <2>2. gidx[r] < Len(sent) /\ sent[gidx[r] + 1].turn = turn[r]
    BY DEF TransferInv, PlaceInv
  <2> QED
    BY <2>1, <2>2
<1>2. ASSUME NEW k \in 1..Len(sent)
      PROVE  IF k <= mine THEN sent[k].turn < turn[r] + 1 ELSE sent[k].turn >= turn[r] + 1
  <2>1. sent[k].turn \in Nat
    BY DEF TransferInv, SentInv
  <2>2. CASE k <= gidx[r]
    <3>1. sent[k].turn < turn[r]
      BY <2>2 DEF TransferInv, ArrivalInv
    <3> QED
      BY <1>1, <2>1, <2>2, <3>1
  <2>3. CASE k = mine
    BY <1>1, <2>3
  <2>4. CASE k > mine
    <3>1. sent[mine].turn < sent[k].turn
      BY <1>1, <2>4 DEF TransferInv, SentInv
    <3> QED
      BY <1>1, <2>1, <2>4, <3>1
  <2> QED
    BY <1>1, <2>2, <2>3, <2>4
<1>3. ASSUME NEW n \in Nat, HasBucket(n), n < turn[r] + 1
      PROVE  \E j \in 1..Len(sent) : j <= mine /\ sent[j].turn = n
  <2>1. CASE n = turn[r]
    BY <1>1, <2>1
  <2>2. CASE n < turn[r]
    <3>1. PICK j \in 1..Len(sent) : j <= gidx[r] /\ sent[j].turn = n
      BY <1>3, <2>2 DEF TransferInv, ArrivalInv
    <3> QED
      BY <1>1, <3>1
  <2> QED
    BY <1>1, <1>3, <2>1, <2>2
<1>4. \A k \in 1..Len(sent) : Source(sent[k].turn) = r => k <= gidx[r] + 1
  <2>1. \A k \in 1..Len(sent) : Source(sent[k].turn) = r => k <= gidx[r] \/ k = gidx[r] + 1
    BY DEF TransferInv, PlaceInv
  <2> QED
    BY <1>1, <2>1
<1> QED
  BY <1>1, <1>2, <1>3, <1>4 DEF ArrivalInv

LEMMA LoadDirectlyKeeps ==
  ASSUME TransferInv, NEW r \in Rank, LoadDirectly(r)
  PROVE  TransferInv'
<1>1. /\ pc[r] = "load" /\ pc' = [pc EXCEPT ![r] = "turn"]
      /\ turn' = [turn EXCEPT ![r] = @ + 1] /\ gidx' = [gidx EXCEPT ![r] = @ + 1]
      /\ UNCHANGED <<overlap, published, memory, buffer, sent, loader, replied>>
  BY DEF LoadDirectly
<1>2. TransferType'
  BY <1>1 DEF TransferInv, TransferType, Places
<1>3. turn'[r] = turn[r] + 1 /\ gidx'[r] = gidx[r] + 1 /\ pc'[r] = "turn"
  BY <1>1 DEF TransferInv, TransferType
<1>4. \A s \in Rank : s # r => turn'[s] = turn[s] /\ gidx'[s] = gidx[s] /\ pc'[s] = pc[s]
  BY <1>1 DEF TransferInv, TransferType
<1>5. /\ ArrivalInv(r)'
      /\ \A k \in 1..Len(sent) : Source(sent[k].turn) = r => k <= gidx[r] + 1
  BY <1>1, <1>3, TurnOver DEF Received
<1>6. SentInv' /\ \A s \in Rank : ArrivalInv(s)'
  BY <1>1, <1>4, <1>5, OrderKept
<1>7. ~overlap
  BY <1>1 DEF TransferInv, PlaceInv
<1>8. ASSUME NEW s \in Rank PROVE PlaceInv(s)' /\ ThreadInv(s)'
  <2>1. CASE s = r
    BY <1>1, <1>3, <1>5, <1>7, <2>1 DEF TransferInv, PlaceInv, ThreadInv, Received
  <2>2. CASE s # r
    BY <1>1, <1>4, <2>2 DEF TransferInv, PlaceInv, ThreadInv, Slot
  <2> QED
    BY <2>1, <2>2
<1> QED
  BY <1>2, <1>6, <1>8 DEF TransferInv

LEMMA AnswerKeeps ==
  ASSUME TransferInv, NEW r \in Rank, Answer(r)
  PROVE  TransferInv'
<1> USE DEF Answer, Answered
<1>1. TransferType'
  BY DEF TransferInv, TransferType, Places
<1>2. SentInv' /\ \A s \in Rank : ArrivalInv(s)'
  BY OrderKept DEF TransferInv
<1>3. ASSUME NEW s \in Rank PROVE PlaceInv(s)' /\ ThreadInv(s)'
  BY DEF TransferInv, TransferType, PlaceInv, ThreadInv, Received, Slot
<1> QED
  BY <1>1, <1>2, <1>3 DEF TransferInv

(* All ranks have waited for their threads and hand over the bucket received. *)
LEMMA HandOverKeeps ==
  ASSUME TransferInv, HandOver
  PROVE  TransferInv'
<1>1. \A r \in Rank : /\ pc[r] = "barrier" /\ pc'[r] = "turn"
                      /\ turn'[r] = turn[r] + 1 /\ gidx'[r] = gidx[r] + 1
                      /\ loader'[r].turn = turn[r] /\ loader'[r].slot = Slot(gidx[r])
                      /\ loader'[r].busy = TRUE
  BY DEF HandOver, All, Everywhere
<1>2. UNCHANGED <<overlap, published, memory, buffer, sent, replied>>
  BY DEF HandOver
<1>3. TransferType'
  <2>1. \A r \in Rank : Slot(gidx[r]) \in 0..1 /\ turn[r] \in Int
    BY HalvesAlternate DEF TransferInv, TransferType
  <2>2. (loader = [r \in Rank |-> loader[r]])'
    BY DEF HandOver
  <2>3. \A r \in Rank : ThreadType(loader[r])'
    BY <2>1 DEF HandOver, ThreadType
  <2>4. (turn \in [Rank -> Nat])' /\ (gidx \in [Rank -> Nat])' /\ (pc \in [Rank -> Places])'
    BY DEF HandOver, TransferInv, TransferType, Everywhere, Places
  <2> QED
    BY <1>2, <2>2, <2>3, <2>4 DEF TransferInv, TransferType
<1>4. SentInv'
  BY <1>2, OrderKept
<1>5. ASSUME NEW r \in Rank
      PROVE  /\ ArrivalInv(r)'
             /\ \A k \in 1..Len(sent) : Source(sent[k].turn) = r => k <= gidx[r] + 1
  BY <1>1, <1>2, TurnOver DEF Received
<1>6. ASSUME NEW r \in Rank PROVE PlaceInv(r)'
  <2>1. pc[r] = "barrier" /\ pc'[r] = "turn" /\ gidx'[r] = gidx[r] + 1
    BY <1>1
  <2>2. r \in ActorRank => memory[r] = published
    BY <2>1 DEF TransferInv, PlaceInv
  <2> QED
    BY <1>2, <1>5, <2>1, <2>2 DEF PlaceInv, Received
<1>7. ASSUME NEW r \in Rank PROVE ThreadInv(r)'
  <2>1. overlap /\ ~replied[r] /\ buffer[r][Slot(gidx[r])] = [turn |-> turn[r], version |-> published]
    BY <1>1 DEF TransferInv, PlaceInv, ThreadInv, Received
  <2>2. gidx[r] \in Nat /\ gidx'[r] >= 1 /\ gidx'[r] - 1 = gidx[r]
    <3>1. gidx[r] \in Nat
      BY DEF TransferInv, TransferType
    <3> QED
      BY <1>1, <3>1
  <2>3. Slot(gidx[r] - 1)' = Slot(gidx[r])
    BY <1>2, <2>2 DEF Slot
  <2> QED
    BY <1>1, <1>2, <2>1, <2>2, <2>3 DEF ThreadInv
<1> QED
  BY <1>3, <1>4, <1>5, <1>6, <1>7 DEF TransferInv

(* A thread that loads a tensor or answers is a thread. *)
LEMMA TensorsChanged ==
  ASSUME NEW l, ThreadType(l), NEW t
  PROVE  /\ ThreadType([l EXCEPT !.tensors = t]) /\ [l EXCEPT !.tensors = t].turn = l.turn
         /\ [l EXCEPT !.tensors = t].slot = l.slot /\ [l EXCEPT !.tensors = t].busy = l.busy
<1>1. PICK n, ts, s, busy : l = [turn |-> n, tensors |-> ts, slot |-> s, busy |-> busy]
  BY DEF ThreadType
<1>2. n \in Int /\ s \in 0..1 /\ busy \in BOOLEAN
  BY <1>1 DEF ThreadType
<1>3. [l EXCEPT !.tensors = t] = [turn |-> n, tensors |-> t, slot |-> s, busy |-> busy]
  BY <1>1
<1> QED
  BY <1>1, <1>2, <1>3 DEF ThreadType

LEMMA BusyChanged ==
  ASSUME NEW l, ThreadType(l), NEW b \in BOOLEAN
  PROVE  /\ ThreadType([l EXCEPT !.busy = b]) /\ [l EXCEPT !.busy = b].busy = b
         /\ [l EXCEPT !.busy = b].tensors = l.tensors /\ [l EXCEPT !.busy = b].turn = l.turn
<1>1. PICK n, ts, s, busy : l = [turn |-> n, tensors |-> ts, slot |-> s, busy |-> busy]
  BY DEF ThreadType
<1>2. n \in Int /\ s \in 0..1
  BY <1>1 DEF ThreadType
<1>3. [l EXCEPT !.busy = b] = [turn |-> n, tensors |-> ts, slot |-> s, busy |-> b]
  BY <1>1
<1> QED
  BY <1>2, <1>3 DEF ThreadType

LEMMA LoadTensorKeeps ==
  ASSUME TransferInv, NEW r \in Rank, LoadTensor(r)
  PROVE  TransferInv'
<1>1. /\ loader' = [loader EXCEPT ![r].tensors = Tail(@)] /\ loader[r].tensors # <<>>
      /\ UNCHANGED <<overlap, published, pc, turn, gidx, memory, buffer, sent, replied>>
  BY DEF LoadTensor
<1>2. \A s \in Rank : /\ loader'[s].turn = loader[s].turn /\ loader'[s].slot = loader[s].slot
                      /\ loader'[s].busy = loader[s].busy
                      /\ loader'[s].tensors # <<>> => loader[s].tensors # <<>>
                      /\ ThreadType(loader[s])'
  <2>1. /\ loader' = [s \in Rank |-> IF s = r THEN [loader[r] EXCEPT !.tensors = Tail(@)] ELSE loader[s]]
        /\ \A s \in Rank : ThreadType(loader[s])
    BY <1>1 DEF TransferInv, TransferType
  <2>2. /\ loader'[r] = [loader[r] EXCEPT !.tensors = Tail(@)]
        /\ \A s \in Rank : s # r => loader'[s] = loader[s]
    BY <2>1
  <2>3. /\ ThreadType(loader'[r]) /\ loader'[r].turn = loader[r].turn
        /\ loader'[r].slot = loader[r].slot /\ loader'[r].busy = loader[r].busy
    <3> DEFINE l == loader[r]
               t == Tail(l.tensors)
    <3>1. loader'[r] = [l EXCEPT !.tensors = t]
      BY <2>2
    <3>2. ThreadType(l)
      BY <2>1
    <3> HIDE DEF l, t
    <3>3. /\ ThreadType([l EXCEPT !.tensors = t]) /\ [l EXCEPT !.tensors = t].turn = l.turn
          /\ [l EXCEPT !.tensors = t].slot = l.slot /\ [l EXCEPT !.tensors = t].busy = l.busy
      BY <3>2, TensorsChanged
    <3>4. /\ ThreadType(loader'[r]) /\ loader'[r].turn = l.turn
          /\ loader'[r].slot = l.slot /\ loader'[r].busy = l.busy
      BY <3>1, <3>3, Zenon
    <3> QED
      BY <3>4 DEF l
  <2>4. ASSUME NEW s \in Rank PROVE ThreadType(loader'[s])
    <3>1. CASE s = r
      BY <2>3, <3>1
    <3>2. CASE s # r
      <4>1. loader'[s] = loader[s]
        BY <2>2, <3>2
      <4> QED
        BY <2>1, <4>1
    <3> QED
      BY <3>1, <3>2
  <2>5. ASSUME NEW s \in Rank PROVE ThreadType(loader[s])'
    BY <2>4
  <2>6. ASSUME NEW s \in Rank
        PROVE  /\ loader'[s].turn = loader[s].turn /\ loader'[s].slot = loader[s].slot
               /\ loader'[s].busy = loader[s].busy
               /\ loader'[s].tensors # <<>> => loader[s].tensors # <<>>
    BY <1>1, <2>2, <2>3
  <2> QED
    BY <2>5, <2>6
<1>3. (loader = [s \in Rank |-> loader[s]])'
  BY <1>1 DEF TransferInv, TransferType
<1>4. TransferType'
  BY <1>1, <1>2, <1>3 DEF TransferInv, TransferType
<1>5. SentInv' /\ \A s \in Rank : ArrivalInv(s)'
  BY <1>1, OrderKept DEF TransferInv
<1>6. ASSUME NEW s \in Rank PROVE PlaceInv(s)' /\ ThreadInv(s)'
  BY <1>1, <1>2, SMTT(20) DEF TransferInv, PlaceInv, ThreadInv, Slot
<1> QED
  BY <1>4, <1>5, <1>6 DEF TransferInv

LEMMA ReplyKeeps ==
  ASSUME TransferInv, NEW r \in Rank, Reply(r)
  PROVE  TransferInv'
<1>1. /\ loader[r].busy /\ loader' = [loader EXCEPT ![r].busy = FALSE]
      /\ replied' = [replied EXCEPT ![r] = TRUE]
      /\ UNCHANGED <<overlap, published, pc, turn, gidx, memory, buffer, sent>>
  BY DEF Reply
<1>2. \A s \in Rank : /\ ThreadType(loader[s])'
                      /\ s = r => ~loader'[s].busy /\ replied'[s]
                      /\ s # r => loader'[s] = loader[s] /\ replied'[s] = replied[s]
  <2>1. /\ loader' = [s \in Rank |-> IF s = r THEN [loader[r] EXCEPT !.busy = FALSE] ELSE loader[s]]
        /\ \A s \in Rank : ThreadType(loader[s])
    BY <1>1 DEF TransferInv, TransferType
  <2>2. replied' = [s \in Rank |-> IF s = r THEN TRUE ELSE replied[s]]
    BY <1>1 DEF TransferInv, TransferType
  <2>3. /\ loader'[r] = [loader[r] EXCEPT !.busy = FALSE]
        /\ \A s \in Rank : s # r => loader'[s] = loader[s]
    BY <2>1
  <2>4. ThreadType(loader'[r]) /\ loader'[r].busy = FALSE
    BY <2>1, <2>3, BusyChanged
  <2> QED
    BY <2>1, <2>2, <2>3, <2>4 DEF ThreadType
<1>3. (loader = [s \in Rank |-> loader[s]])'
  BY <1>1 DEF TransferInv, TransferType
<1>4. TransferType'
  BY <1>1, <1>2, <1>3 DEF TransferInv, TransferType
<1>5. SentInv' /\ \A s \in Rank : ArrivalInv(s)'
  BY <1>1, OrderKept DEF TransferInv
<1>6. ASSUME NEW s \in Rank PROVE PlaceInv(s)'
  BY <1>1 DEF TransferInv, PlaceInv, Slot
<1>7. ASSUME NEW s \in Rank PROVE ThreadInv(s)'
  <2>1. CASE s = r
    BY <1>1, <1>2, <2>1 DEF TransferInv, ThreadInv
  <2>2. CASE s # r
    BY <1>1, <1>2, <2>2 DEF TransferInv, ThreadInv, Slot
  <2> QED
    BY <2>1, <2>2
<1> QED
  BY <1>4, <1>5, <1>6, <1>7 DEF TransferInv

LEMMA DrainKeeps ==
  ASSUME TransferInv, NEW r \in Rank, Drain(r)
  PROVE  TransferInv'
<1> USE DEF Drain, Answered
<1>1. TransferType'
  BY DEF TransferInv, TransferType, Places
<1>2. SentInv' /\ \A s \in Rank : ArrivalInv(s)'
  BY OrderKept DEF TransferInv
<1>3. ASSUME NEW s \in Rank PROVE PlaceInv(s)' /\ ThreadInv(s)'
  BY DEF TransferInv, TransferType, PlaceInv, ThreadInv, Received, Slot
<1> QED
  BY <1>1, <1>2, <1>3 DEF TransferInv

-----------------------------------------------------------------------------
LEMMA StutterKeeps == TransferInv /\ UNCHANGED transferVars => TransferInv'
BY DEF TransferInv, TransferType, SentInv, ArrivalInv, PlaceInv, ThreadInv, ThreadType, transferVars, Slot

LEMMA StepKeeps == TransferInv /\ [TransferNext]_transferVars => TransferInv'
<1> SUFFICES ASSUME TransferInv, [TransferNext]_transferVars PROVE TransferInv'
  OBVIOUS
<1>1. CASE \E version \in Nat : StartTransfer(version)
  BY <1>1, StartKeeps
<1>2. CASE StartThreads \/ HandOver \/ Leave
  BY <1>2, StartThreadsKeeps, HandOverKeeps, LeaveKeeps
<1>3. ASSUME NEW r \in Rank, RankStep(r) PROVE TransferInv'
  <2>1. Broadcast(r) => TransferInv'
    BY SourceCalls, OtherCalls
  <2> QED
    BY <1>3, <2>1, RegisterKeeps, SkipKeeps, ReceiveKeeps, LoadDirectlyKeeps, AnswerKeeps,
       LoadTensorKeeps, ReplyKeeps, DrainKeeps DEF RankStep
<1>4. CASE UNCHANGED transferVars
  BY <1>4, StutterKeeps
<1> QED
  BY <1>1, <1>2, <1>3, <1>4 DEF TransferNext, TransferStep

-----------------------------------------------------------------------------
(* Every tensor is delivered: the buckets *)

LEMMA LeastExists ==
  ASSUME NEW S \in SUBSET Nat, S # {}
  PROVE  \E i \in S : \A j \in S : i <= j
<1> DEFINE R == OpToRel(<, Nat)
<1>1. IsWellFoundedOn(R, Nat)
  BY NatLessThanWellFounded
<1>2. \A x, y \in Nat : x < y => <<x, y>> \in R
  BY DEF OpToRel
<1> HIDE DEF R
<1>3. PICK x \in S : \A y \in S : ~(<<y, x>> \in R)
  BY <1>1, WFMin
<1>4. ASSUME NEW y \in S PROVE x <= y
  <2>1. x \in Nat /\ y \in Nat
    OBVIOUS
  <2>2. ~(y < x)
    BY <2>1, <1>2, <1>3
  <2> QED BY <2>1, <2>2
<1> QED BY <1>4

(* What the t-th tensor makes of the buckets before it *)
Grown(packed, t) ==
  LET a == (t - 1) % Actors
      buckets == packed[a]
      fits == SizeOf(Last(buckets)) + Sizes[t] <= BucketSize
  IN  [packed EXCEPT ![a] =
         IF fits THEN Append(Front(buckets), Append(Last(buckets), t))
                 ELSE Append(buckets, <<t>>)]
Unpacked == [a \in ActorRank |-> << <<>> >>]
PackedUpTo(n, f) == f = [t \in 0..n |-> IF t = 0 THEN Unpacked ELSE Grown(f[t - 1], t)]

LEMMA PackedExists ==
  ASSUME NEW n \in Nat
  PROVE  \E f : PackedUpTo(n, f)
<1> DEFINE Bad == {k \in Nat : ~\E f : PackedUpTo(k, f)}
<1>1. ASSUME Bad # {} PROVE FALSE
  <2>1. PICK k \in Bad : \A j \in Bad : k <= j
    <3>1. Bad \in SUBSET Nat
      OBVIOUS
    <3> HIDE DEF Bad
    <3> QED
      BY <1>1, <3>1, LeastExists
  <2>2. k # 0
    <3> DEFINE f == [t \in 0..0 |-> Unpacked]
    <3>1. f = [t \in 0..0 |-> IF t = 0 THEN Unpacked ELSE Grown(f[t - 1], t)]
      OBVIOUS
    <3> HIDE DEF f
    <3>2. PackedUpTo(0, f)
      BY <3>1, Zenon DEF PackedUpTo
    <3> QED
      BY <2>1, <3>2, Zenon
  <2>3. k \in Nat /\ k - 1 \in Nat /\ ~(k <= k - 1)
    BY <2>1, <2>2
  <2>4. PICK f : PackedUpTo(k - 1, f)
    BY <2>1, <2>3
  <2> DEFINE g == [t \in 0..k |-> IF t = k THEN Grown(f[k - 1], k) ELSE f[t]]
  <2>5. \A t \in 0..(k - 1) : f[t] = IF t = 0 THEN Unpacked ELSE Grown(f[t - 1], t)
    BY <2>4, Zenon DEF PackedUpTo
  <2>6. ASSUME NEW t \in 0..k PROVE g[t] = IF t = 0 THEN Unpacked ELSE Grown(g[t - 1], t)
    <3>1. CASE t = k
      <4>1. g[t] = Grown(f[k - 1], k) /\ g[k - 1] = f[k - 1]
        BY <2>3, <3>1
      <4> HIDE DEF g
      <4> QED
        BY <2>2, <3>1, <4>1
    <3>2. CASE t # k
      <4>1. t \in 0..(k - 1) /\ (t # 0 => t - 1 \in 0..(k - 1) /\ t - 1 # k)
        BY <2>3, <3>2
      <4>2. g[t] = f[t] /\ (t # 0 => g[t - 1] = f[t - 1])
        BY <2>3, <3>2, <4>1
      <4> HIDE DEF g
      <4> QED
        BY <2>5, <4>1, <4>2
    <3> QED
      BY <3>1, <3>2
  <2>7. g = [t \in 0..k |-> g[t]]
    OBVIOUS
  <2> HIDE DEF g
  <2>8. PackedUpTo(k, g)
    BY <2>6, <2>7 DEF PackedUpTo
  <2> QED
    BY <2>1, <2>8
<1> QED
  BY <1>1

LEMMA PackedIs ==
  \A t \in 0..Len(Sizes) : Packed[t] = IF t = 0 THEN Unpacked ELSE Grown(Packed[t - 1], t)
<1>1. PICK f : PackedUpTo(Len(Sizes), f)
  BY PackedExists, TransferAssumption, LenProperties
<1>2. PackedUpTo(Len(Sizes), Packed)
  <2>1. PackedUpTo(Len(Sizes), CHOOSE g : PackedUpTo(Len(Sizes), g))
    BY <1>1, Zenon
  <2>2. Packed = CHOOSE g : PackedUpTo(Len(Sizes), g)
    BY Zenon DEF Packed, PackedUpTo, Grown, Unpacked
  <2> QED
    BY <2>1, <2>2, Zenon
<1> QED
  BY <1>2, Zenon DEF PackedUpTo

Buckets == Seq(Seq(Tensor)) \ {<<>>}

(* A tensor is put into a bucket, and none is taken out of one. *)
LEMMA GrownKeeps ==
  ASSUME NEW packed \in [ActorRank -> Buckets], NEW t \in Tensor
  PROVE  /\ Grown(packed, t) \in [ActorRank -> Buckets]
         /\ \E a \in ActorRank : \E k \in 1..Len(Grown(packed, t)[a]) : t \in Range(Grown(packed, t)[a][k])
         /\ \A a \in ActorRank : \A k \in 1..Len(packed[a]) :
               /\ k \in 1..Len(Grown(packed, t)[a])
               /\ Range(packed[a][k]) \subseteq Range(Grown(packed, t)[a][k])
<1> DEFINE a == (t - 1) % Actors
           b == packed[a]
           fits == SizeOf(Last(b)) + Sizes[t] <= BucketSize
           c == IF fits THEN Append(Front(b), Append(Last(b), t)) ELSE Append(b, <<t>>)
<1>1. a \in ActorRank
  <2>1. t - 1 \in Nat
    BY TransferAssumption, LenProperties DEF Tensor
  <2> QED
    BY <2>1, SourceIsActor DEF Source
<1>2. Grown(packed, t) = [packed EXCEPT ![a] = c]
  BY Zenon DEF Grown
<1>3. b \in Seq(Seq(Tensor)) /\ Len(b) \in Nat /\ Len(b) >= 1
  <2>1. b \in Buckets
    BY <1>1
  <2> HIDE DEF b
  <2> QED
    BY <2>1, LenProperties, EmptySeq DEF Buckets
<1> HIDE DEF a, b, fits
<1>4. /\ c \in Seq(Seq(Tensor)) /\ Len(c) >= Len(b)
      /\ \A k \in 1..Len(b) : Range(b[k]) \subseteq Range(c[k])
      /\ t \in Range(c[Len(c)])
  <2>1. CASE fits
    <3> DEFINE last == Last(b)
               more == Append(last, t)
               front == Front(b)
    <3>1. last = b[Len(b)] /\ last \in Seq(Tensor)
      BY <1>3 DEF Last
    <3>2. /\ front \in Seq(Seq(Tensor)) /\ Len(front) = Len(b) - 1
          /\ \A k \in 1..(Len(b) - 1) : front[k] = b[k]
      <4>1. \A i \in 1..(Len(b) - 1) : b[i] \in Seq(Tensor)
        BY <1>3
      <4>2. front = SubSeq(b, 1, Len(b) - 1)
        BY DEF Front
      <4> HIDE DEF front
      <4>3. /\ front \in Seq(Seq(Tensor))
            /\ Len(front) = IF 1 <= Len(b) - 1 THEN Len(b) - 1 - 1 + 1 ELSE 0
            /\ \A i \in 1..(Len(b) - 1 - 1 + 1) : front[i] = b[1 + i - 1]
        BY <1>3, <4>1, <4>2, SubSeqProperties
      <4>4. Len(front) = Len(b) - 1
        <5> DEFINE n == Len(b)
        <5>1. n \in Nat /\ n >= 1 /\ Len(front) = IF 1 <= n - 1 THEN n - 1 - 1 + 1 ELSE 0
          BY <1>3, <4>3
        <5> HIDE DEF n
        <5>2. Len(front) = n - 1
          BY <5>1
        <5> QED
          BY <5>2 DEF n
      <4>5. ASSUME NEW k \in 1..(Len(b) - 1) PROVE front[k] = b[k]
        <5>1. k \in 1..(Len(b) - 1 - 1 + 1) /\ 1 + k - 1 = k
          BY <1>3
        <5> QED
          BY <4>3, <5>1
      <4> QED
        BY <4>3, <4>4, <4>5
    <3>3. c = Append(front, more)
      BY <2>1
    <3> HIDE DEF last, front, c
    <3>4. /\ more \in Seq(Tensor) /\ Len(more) = Len(last) + 1
          /\ \A j \in 1..Len(last) : more[j] = last[j]
          /\ more[Len(last) + 1] = t
      BY <3>1, AppendProperties
    <3>5. Range(last) \subseteq Range(more) /\ t \in Range(more)
      <4>1. DOMAIN last = 1..Len(last) /\ DOMAIN more = 1..(Len(last) + 1) /\ Len(last) \in Nat
        BY <3>1, <3>4, LenProperties
      <4>2. \A j \in 1..Len(last) : j \in 1..(Len(last) + 1)
        BY <4>1
      <4>3. Len(last) + 1 \in 1..(Len(last) + 1)
        BY <4>1
      <4> HIDE DEF more
      <4> QED
        BY <3>4, <4>1, <4>2, <4>3 DEF Range
    <3> HIDE DEF more
    <3>6. /\ c \in Seq(Seq(Tensor)) /\ Len(c) = Len(b) /\ c[Len(b)] = more
          /\ \A k \in 1..(Len(b) - 1) : c[k] = b[k]
      BY <1>3, <3>2, <3>3, <3>4, AppendProperties
    <3>7. ASSUME NEW k \in 1..Len(b) PROVE Range(b[k]) \subseteq Range(c[k])
      <4>1. CASE k = Len(b)
        BY <3>1, <3>5, <3>6, <4>1
      <4>2. CASE k \in 1..(Len(b) - 1)
        BY <3>6, <4>2
      <4> QED
        BY <1>3, <4>1, <4>2
    <3>8. t \in Range(c[Len(c)])
      BY <3>5, <3>6
    <3>9. c \in Seq(Seq(Tensor)) /\ Len(c) >= Len(b)
      BY <1>3, <3>6
    <3> QED
      BY <3>7, <3>8, <3>9, Zenon
  <2>2. CASE ~fits
    <3>1. c = Append(b, <<t>>) /\ <<t>> \in Seq(Tensor)
      BY <2>2
    <3> HIDE DEF c
    <3>2. /\ c \in Seq(Seq(Tensor)) /\ Len(c) = Len(b) + 1 /\ c[Len(b) + 1] = <<t>>
          /\ \A k \in 1..Len(b) : c[k] = b[k]
      BY <1>3, <3>1, AppendProperties
    <3>3. t \in Range(<<t>>)
      BY DEF Range
    <3> QED
      BY <1>3, <3>2, <3>3
  <2> QED
    BY <2>1, <2>2
<1> HIDE DEF c
<1>5. c \in Buckets
  <2>1. Len(c) # 0
    BY <1>3, <1>4, LenProperties
  <2> QED
    BY <1>4, <2>1 DEF Buckets
<1> DEFINE g == Grown(packed, t)
<1>6. g \in [ActorRank -> Buckets] /\ g[a] = c /\ \A e \in ActorRank : e # a => g[e] = packed[e]
  BY <1>1, <1>2, <1>5
<1> HIDE DEF g
<1>7. Len(c) \in 1..Len(c)
  BY <1>3, <1>4, LenProperties
<1>8. ASSUME NEW e \in ActorRank, NEW k \in 1..Len(packed[e])
      PROVE  k \in 1..Len(g[e]) /\ Range(packed[e][k]) \subseteq Range(g[e][k])
  <2>1. CASE e = a
    <3>1. k \in 1..Len(b)
      BY <1>8, <2>1 DEF b
    <3>2. k \in 1..Len(c)
      BY <1>3, <1>4, <3>1, LenProperties
    <3> QED
      BY <1>4, <1>6, <2>1, <3>1, <3>2 DEF b
  <2>2. CASE e # a
    BY <1>6, <1>8, <2>2
  <2> QED
    BY <2>1, <2>2
<1> QED
  BY <1>1, <1>4, <1>6, <1>7, <1>8 DEF g

Holds(packed, s) == \E a \in ActorRank : \E k \in 1..Len(packed[a]) : s \in Range(packed[a][k])

LEMMA AllPacked ==
  /\ GlobalBuckets \in [ActorRank -> Buckets]
  /\ \A s \in Tensor : Holds(GlobalBuckets, s)
<1> DEFINE L == Len(Sizes)
           Good(t) == Packed[t] \in [ActorRank -> Buckets] /\ \A s \in 1..t : Holds(Packed[t], s)
           Bad == {t \in 0..L : ~Good(t)}
<1>1. L \in Nat
  BY TransferAssumption, LenProperties
<1>2. ASSUME Bad # {} PROVE FALSE
  <2>1. PICK t \in Bad : \A j \in Bad : t <= j
    <3>1. Bad \in SUBSET Nat
      BY <1>1
    <3> HIDE DEF Bad
    <3> QED
      BY <1>2, <3>1, LeastExists
  <2>2. t \in 0..L /\ ~Good(t) /\ (t # 0 => t - 1 \in 0..L /\ ~(t <= t - 1))
    BY <1>1, <2>1
  <2>3. t # 0 => Good(t - 1)
    BY <2>1, <2>2
  <2> HIDE DEF Bad
  <2>4. CASE t = 0
    <3>1. Packed[t] = Unpacked
      BY <2>2, <2>4, PackedIs
    <3>2. << <<>> >> \in Buckets
      BY DEF Buckets
    <3> QED
      BY <2>2, <2>4, <3>1, <3>2 DEF Unpacked
  <2>5. CASE t # 0
    <3> DEFINE packed == Packed[t - 1]
    <3>1. Packed[t] = Grown(packed, t)
      BY <2>2, <2>5, PackedIs
    <3>2. packed \in [ActorRank -> Buckets] /\ \A s \in 1..(t - 1) : Holds(packed, s)
      BY <2>3, <2>5
    <3>3. t \in Tensor
      BY <1>1, <2>2, <2>5 DEF Tensor
    <3> HIDE DEF packed
    <3>4. Grown(packed, t) \in [ActorRank -> Buckets]
      BY <3>2, <3>3, GrownKeeps
    <3>5. Holds(Grown(packed, t), t)
      BY <3>2, <3>3, GrownKeeps, Zenon DEF Holds
    <3>6. ASSUME NEW s \in 1..(t - 1) PROVE Holds(Grown(packed, t), s)
      <4>0. PICK a \in ActorRank : \E k \in 1..Len(packed[a]) : s \in Range(packed[a][k])
        BY <3>2, Zenon DEF Holds
      <4>1. PICK k \in 1..Len(packed[a]) : s \in Range(packed[a][k])
        BY <4>0
      <4>2. k \in 1..Len(Grown(packed, t)[a]) /\ s \in Range(Grown(packed, t)[a][k])
        <5>1. Range(packed[a][k]) \subseteq Range(Grown(packed, t)[a][k]) /\ k \in 1..Len(Grown(packed, t)[a])
          BY <3>2, <3>3, GrownKeeps, Zenon
        <5> QED
          BY <4>1, <5>1, Zenon
      <4> QED
        BY <4>2, Zenon DEF Holds
    <3>7. \A s \in 1..t : s = t \/ s \in 1..(t - 1)
      BY <2>2
    <3>8. \A s \in 1..t : Holds(Packed[t], s)
      BY <3>1, <3>5, <3>6, <3>7, Zenon
    <3> QED
      BY <2>2, <3>1, <3>4, <3>8, Zenon
  <2> QED
    BY <2>4, <2>5
<1>3. Good(L)
  BY <1>1, <1>2
<1> QED
  BY <1>3, Zenon DEF GlobalBuckets, Tensor


-----------------------------------------------------------------------------
(* The turns *)

LEMMA Divided ==
  ASSUME NEW n \in Nat
  PROVE  \E d \in Nat, m \in 0..(Actors - 1) :
            d = n \div Actors /\ m = n % Actors /\ n = Actors * d + m
<1>1. Actors \in Nat \ {0}
  BY TransferAssumption
<1> DEFINE d == n \div Actors
           m == n % Actors
<1>2. d \in Nat /\ m \in 0..(Actors - 1)
  BY <1>1
<1>3. n - Actors * d = m
  BY <1>1, Z3
<1>4. Actors * d \in Int
  BY <1>1, <1>2
<1>6. d = n \div Actors /\ m = n % Actors
  OBVIOUS
<1> HIDE DEF d, m
<1>5. n = Actors * d + m
  BY <1>2, <1>3, <1>4
<1> QED
  BY <1>2, <1>5, <1>6, Zenon

LEMMA Products ==
  ASSUME NEW i \in Int, NEW j \in Int, i < j
  PROVE  Actors * i + Actors <= Actors * j
<1> DEFINE d == j - i - 1
<1>1. d \in Nat /\ j = i + 1 + d /\ Actors \in Nat
  BY TransferAssumption
<1>2. Actors * d \in Nat
  BY <1>1
<1>3. Actors * j = Actors * i + Actors + Actors * d
  BY <1>1
<1> HIDE DEF d
<1> QED
  BY <1>1, <1>2, <1>3

(* Actor a broadcasts its k-th bucket in this turn. *)
LEMMA TurnOfBucket ==
  ASSUME NEW a \in ActorRank, NEW k \in Nat \ {0}
  PROVE  \E n \in Nat : Source(n) = a /\ Round(n) = k
<1> DEFINE x == Actors * (k - 1)
           n == x + a
<1>1. a \in 0..(Actors - 1) /\ Actors \in Nat \ {0} /\ k - 1 \in Nat
  BY TransferAssumption DEF ActorRank
<1>2. x \in Nat
  BY <1>1
<1>3. n \in Nat
  <2> HIDE DEF x
  <2> QED
    BY <1>1, <1>2
<1> HIDE DEF n
<1>4. PICK d \in Nat, m \in 0..(Actors - 1) : d = n \div Actors /\ m = n % Actors /\ n = Actors * d + m
  BY <1>3, Divided
<1> DEFINE y == Actors * d
<1>5. y \in Nat
  BY <1>1
<1>6. x + a = y + m
  BY <1>4 DEF n
<1>7. ~(d < k - 1)
  <2> SUFFICES ASSUME d < k - 1 PROVE FALSE
    OBVIOUS
  <2>1. y + Actors <= x
    BY <1>1, Products
  <2> HIDE DEF x, y
  <2> QED
    BY <1>1, <1>2, <1>5, <1>6, <2>1
<1>8. ~(k - 1 < d)
  <2> SUFFICES ASSUME k - 1 < d PROVE FALSE
    OBVIOUS
  <2>1. x + Actors <= y
    BY <1>1, Products
  <2> HIDE DEF x, y
  <2> QED
    BY <1>1, <1>2, <1>5, <1>6, <2>1
<1>9. d = k - 1
  BY <1>7, <1>8
<1>10. m = a
  <2>1. x = y
    BY <1>9
  <2> HIDE DEF x, y
  <2> QED
    BY <1>1, <1>2, <1>5, <1>6, <2>1
<1>11. Source(n) = a
  BY <1>4, <1>10, Zenon DEF Source
<1>12. Round(n) = k
  <2>1. Round(n) = d + 1
    BY <1>4, Zenon DEF Round
  <2> QED
    BY <1>9, <2>1
<1> QED
  BY <1>3, <1>11, <1>12

LEMMA LaterRound ==
  ASSUME NEW n \in Nat, NEW p \in Nat, Round(n) < Round(p)
  PROVE  n < p
<1>1. PICK i \in Nat, u \in 0..(Actors - 1) : i = n \div Actors /\ u = n % Actors /\ n = Actors * i + u
  BY Divided
<1>2. PICK j \in Nat, v \in 0..(Actors - 1) : j = p \div Actors /\ v = p % Actors /\ p = Actors * j + v
  BY Divided
<1>3. i < j
  <2>1. Round(n) = i + 1 /\ Round(p) = j + 1
    BY <1>1, <1>2, Zenon DEF Round
  <2> QED
    BY <2>1
<1> DEFINE x == Actors * i
           y == Actors * j
<1>4. Actors \in Nat \ {0}
  BY TransferAssumption
<1>5. x + Actors <= y /\ x \in Nat /\ y \in Nat
  BY <1>3, <1>4, Products
<1>6. n = x + u /\ p = y + v
  BY <1>1, <1>2, Zenon
<1> HIDE DEF x, y
<1> QED
  BY <1>4, <1>5, <1>6

(* get_max_buckets_num_per_rank is the number of buckets of the actor with most. *)
LEMMA RoundsEnough ==
  /\ Rounds \in Nat
  /\ \A a \in ActorRank : Len(GlobalBuckets[a]) <= Rounds
<1> DEFINE N(a) == Len(GlobalBuckets[a])
           Greatest(m) == \E a \in 0..m : \A e \in 0..m : N(e) <= N(a)
           Bad == {m \in 0..(Actors - 1) : ~Greatest(m)}
<1>1. Actors \in Nat \ {0} /\ \A a \in 0..(Actors - 1) : N(a) \in Nat
  BY AllPacked, LenProperties, TransferAssumption DEF ActorRank, Buckets
<1> HIDE DEF N
<1>2. ASSUME Bad # {} PROVE FALSE
  <2>1. PICK m \in Bad : \A j \in Bad : m <= j
    <3>1. Bad \in SUBSET Nat
      BY <1>1
    <3> HIDE DEF Bad
    <3> QED
      BY <1>2, <3>1, LeastExists
  <2>2. m \in 0..(Actors - 1) /\ ~Greatest(m)
    BY <2>1
  <2>3. CASE m = 0
    <3>1. 0 \in 0..m /\ \A e \in 0..m : N(e) <= N(0)
      BY <1>1, <2>3
    <3> QED
      BY <2>2, <3>1
  <2>4. CASE m # 0
    <3>1. m - 1 \in 0..(Actors - 1) /\ ~(m <= m - 1)
      BY <1>1, <2>2, <2>4
    <3>5. Greatest(m - 1)
      BY <2>1, <3>1
    <3>2. PICK a \in 0..(m - 1) : \A e \in 0..(m - 1) : N(e) <= N(a)
      BY <3>5
    <3>3. CASE N(m) <= N(a)
      <4>1. a \in 0..m /\ \A e \in 0..m : e = m \/ e \in 0..(m - 1)
        BY <2>2
      <4>2. \A e \in 0..m : N(e) <= N(a)
        BY <3>2, <3>3, <4>1
      <4> QED
        BY <2>2, <4>1, <4>2
    <3>4. CASE ~(N(m) <= N(a))
      <4>1. /\ m \in 0..m /\ a \in 0..(Actors - 1)
            /\ \A e \in 0..m : e \in 0..(Actors - 1) /\ (e = m \/ e \in 0..(m - 1))
        <5>1. m \in Int /\ Actors \in Int /\ 0 <= m /\ m <= Actors - 1
          BY <1>1, <2>2
        <5> QED
          BY <5>1
      <4>2. \A e \in 0..m : N(e) <= N(m)
        BY <1>1, <2>2, <3>2, <3>4, <4>1
      <4> QED
        BY <2>2, <4>1, <4>2
    <3> QED
      BY <3>3, <3>4
  <2> QED
    BY <2>3, <2>4
<1>3. PICK a \in ActorRank : \A e \in ActorRank : N(e) <= N(a)
  <2>1. Actors - 1 \in 0..(Actors - 1)
    BY <1>1
  <2>2. Greatest(Actors - 1)
    BY <1>2, <2>1
  <2> QED
    BY <2>2 DEF ActorRank
<1> DEFINE S == {N(e) : e \in ActorRank}
<1>4. \E x \in S : \A y \in S : x >= y
  <2>1. \A e \in ActorRank : N(a) >= N(e)
    BY <1>1, <1>3 DEF ActorRank
  <2> QED
    BY <2>1
<1>5. Rounds = CHOOSE x \in S : \A y \in S : x >= y
  BY Zenon DEF Rounds, Max, N
<1> HIDE DEF S
<1>6. Rounds \in S /\ \A y \in S : Rounds >= y
  BY <1>4, <1>5, Zenon
<1>7. \A e \in ActorRank : N(e) \in Nat
  BY <1>1 DEF ActorRank
<1>8. Rounds \in Nat
  BY <1>6, <1>7 DEF S
<1>9. \A e \in ActorRank : Rounds >= N(e)
  BY <1>6 DEF S
<1> QED
  BY <1>7, <1>8, <1>9 DEF N

(* Every tensor is in the bucket of some turn, and that turn is not left out. *)
LEMMA EveryTensorHasTurn ==
  ASSUME NEW t \in Tensor
  PROVE  \E n \in Nat : HasBucket(n) /\ ~Over(n) /\ t \in Range(BucketOf(n))
<1>1. PICK a \in ActorRank : \E k \in 1..Len(GlobalBuckets[a]) : t \in Range(GlobalBuckets[a][k])
  BY AllPacked, Zenon DEF Holds
<1>2. PICK k \in 1..Len(GlobalBuckets[a]) : t \in Range(GlobalBuckets[a][k])
  BY <1>1
<1>3. Len(GlobalBuckets[a]) \in Nat
  BY AllPacked, LenProperties DEF Buckets
<1>4. k \in Nat \ {0}
  BY <1>3
<1>5. PICK n \in Nat : Source(n) = a /\ Round(n) = k
  BY <1>4, TurnOfBucket
<1>6. HasBucket(n) /\ BucketOf(n) = GlobalBuckets[a][k]
  BY <1>3, <1>5 DEF HasBucket, BucketOf
<1>7. ~Over(n)
  BY <1>3, <1>4, <1>5, RoundsEnough DEF Over
<1> QED
  BY <1>2, <1>5, <1>6, <1>7

LEMMA BucketType ==
  ASSUME NEW n \in Nat, HasBucket(n)
  PROVE  BucketOf(n) \in Seq(Tensor) /\ \A t \in Range(BucketOf(n)) : t \in Tensor
<1>1. Source(n) \in ActorRank /\ Round(n) \in Nat \ {0}
  <2>1. PICK d \in Nat, m \in 0..(Actors - 1) : d = n \div Actors /\ m = n % Actors /\ n = Actors * d + m
    BY Divided
  <2>2. Round(n) = d + 1
    BY <2>1, Zenon DEF Round
  <2> QED
    BY <2>2, SourceIsActor
<1>2. GlobalBuckets[Source(n)] \in Seq(Seq(Tensor))
  BY <1>1, AllPacked DEF Buckets
<1>3. Round(n) \in 1..Len(GlobalBuckets[Source(n)])
  BY <1>1, <1>2, LenProperties DEF HasBucket
<1>4. BucketOf(n) \in Seq(Tensor)
  BY <1>2, <1>3 DEF BucketOf
<1>5. DOMAIN BucketOf(n) = 1..Len(BucketOf(n))
  BY <1>4, LenProperties
<1> QED
  BY <1>4, <1>5 DEF Range


-----------------------------------------------------------------------------
(* What a rollout worker has loaded *)

(* A tensor of a bucket is in the model, or the thread is still to load it. *)
Loaded(r, n) ==
  \A t \in Range(BucketOf(n)) : model[r][t] = published \/ t \in Range(loader[r].tensors)

ThreadLoads(r) ==
  /\ loader[r].tensors \in Seq(Tensor)
  /\ loader[r].tensors # <<>> =>
        /\ loader[r].busy /\ r \in RolloutRank
        /\ loader[r].turn \in Nat /\ HasBucket(loader[r].turn)
        /\ Range(loader[r].tensors) \subseteq Range(BucketOf(loader[r].turn))

(* The buckets of the turns behind a rank are loaded, and a rank that leaves has *)
(* no turn before it.                                                             *)
TurnsLoaded(r) ==
  /\ pc[r] \in {"cache", "registered"} => turn[r] = 0
  /\ pc[r] = "leave" => Over(turn[r])
  /\ r \in RolloutRank => \A n \in Nat : n < turn[r] /\ HasBucket(n) => Loaded(r, n)
  /\ r \in RolloutRank /\ pc[r] = "done" => \A t \in Tensor : model[r][t] = published

CoverInv ==
  /\ model \in [RolloutRank -> [Tensor -> Int]]
  /\ \A r \in Rank : ThreadLoads(r) /\ TurnsLoaded(r)

LEMMA LoadedWhole == TransferInv => LoadsWhole
<1> SUFFICES ASSUME TransferInv, NEW r \in Rank
             PROVE  /\ loader[r].busy /\ loader[r].tensors # <<>>
                         => buffer[r][loader[r].slot] = [turn |-> loader[r].turn, version |-> published]
                    /\ pc[r] = "load" => buffer[r][0] = [turn |-> turn[r], version |-> published]
  BY DEF LoadsWhole
<1>1. pc[r] = "load" => Slot(gidx[r]) = 0
  BY DEF TransferInv, PlaceInv, Slot
<1> QED
  BY <1>1 DEF TransferInv, PlaceInv, ThreadInv, Received

LEMMA NoneIsEmpty == Range(<<>>) = {}
BY DEF Range

LEMMA CoverStart == TransferInit => CoverInv
<1> SUFFICES ASSUME TransferInit PROVE CoverInv
  OBVIOUS
<1>1. model \in [RolloutRank -> [Tensor -> Int]]
  BY DEF TransferInit, Nothing
<1>2. ASSUME NEW r \in Rank PROVE ThreadLoads(r)
  <2>1. loader[r].tensors = <<>>
    BY DEF TransferInit, Resting
  <2> QED
    BY <2>1 DEF ThreadLoads
<1>3. ASSUME NEW r \in Rank PROVE TurnsLoaded(r)
  <2>1. pc[r] = "done" /\ turn[r] = 0
    BY DEF TransferInit
  <2>2. r \in RolloutRank => \A t \in Tensor : model[r][t] = published
    BY DEF TransferInit
  <2> QED
    BY <2>1, <2>2 DEF TurnsLoaded
<1> QED
  BY <1>1, <1>2, <1>3 DEF CoverInv

(* A rank whose turns, tensors and model stay as they are *)
LEMMA Unmoved ==
  ASSUME CoverInv, NEW s \in Rank, published' = published, turn'[s] = turn[s],
         loader'[s].tensors = loader[s].tensors, loader'[s].turn = loader[s].turn,
         loader[s].tensors # <<>> => loader'[s].busy,
         s \in RolloutRank => model'[s] = model[s],
         pc'[s] \in {"cache", "registered"} => pc[s] \in {"cache", "registered"},
         pc'[s] = "leave" => Over(turn[s]),
         pc'[s] = "done" => pc[s] = "done"
  PROVE  ThreadLoads(s)' /\ TurnsLoaded(s)'
<1>1. ThreadLoads(s) /\ TurnsLoaded(s)
  BY DEF CoverInv
<1>2. ThreadLoads(s)'
  BY <1>1 DEF ThreadLoads
<1>3. s \in RolloutRank => \A n \in Nat : Loaded(s, n) => Loaded(s, n)'
  BY DEF Loaded
<1>4. TurnsLoaded(s)'
  BY <1>1, <1>3 DEF TurnsLoaded
<1> QED
  BY <1>2, <1>4

LEMMA StartCovers ==
  ASSUME CoverInv, NEW version \in Nat, StartTransfer(version)
  PROVE  CoverInv'
<1>1. UNCHANGED <<loader, model>> /\ \A r \in Rank : pc'[r] = "cache" /\ turn'[r] = 0
  BY DEF StartTransfer, Everywhere
<1>2. ASSUME NEW r \in Rank PROVE ThreadLoads(r)' /\ TurnsLoaded(r)'
  <2>1. ThreadLoads(r)'
    BY <1>1 DEF CoverInv, ThreadLoads
  <2>2. \A n \in Nat : ~(n < turn'[r])
    BY <1>1
  <2>3. TurnsLoaded(r)'
    BY <1>1, <2>2 DEF TurnsLoaded
  <2> QED
    BY <2>1, <2>3
<1> QED
  BY <1>1, <1>2 DEF CoverInv

LEMMA StartThreadsCovers ==
  ASSUME CoverInv, StartThreads
  PROVE  CoverInv'
<1>1. /\ UNCHANGED <<turn, model>>
      /\ \A r \in Rank : pc[r] = "registered" /\ pc'[r] = "turn" /\ loader'[r].tensors = <<>>
  BY DEF StartThreads, All, Everywhere, Resting
<1>2. ASSUME NEW r \in Rank PROVE ThreadLoads(r)' /\ TurnsLoaded(r)'
  <2>1. turn'[r] = 0
    BY <1>1 DEF CoverInv, TurnsLoaded
  <2>2. ThreadLoads(r)'
    BY <1>1, EmptySeq DEF ThreadLoads
  <2>3. \A n \in Nat : ~(n < turn'[r])
    BY <2>1
  <2> QED
    BY <1>1, <2>2, <2>3 DEF TurnsLoaded
<1> QED
  BY <1>1, <1>2 DEF CoverInv

(* A turn whose actor has no bucket has none to load. *)
LEMMA SkipCovers ==
  ASSUME TransferInv, CoverInv, NEW r \in Rank, Skip(r)
  PROVE  CoverInv'
<1>1. /\ UNCHANGED <<pc, loader, model, published>> /\ pc[r] = "turn" /\ ~HasBucket(turn[r])
      /\ turn' = [turn EXCEPT ![r] = @ + 1] /\ turn \in [Rank -> Nat]
  BY DEF Skip, TransferInv, TransferType
<1>2. ASSUME NEW s \in Rank PROVE ThreadLoads(s)' /\ TurnsLoaded(s)'
  <2>1. CASE s = r
    <3>1. turn'[s] = turn[s] + 1 /\ turn[s] \in Nat
      BY <1>1, <2>1
    <3>2. \A n \in Nat : n < turn'[s] => n = turn[s] \/ n < turn[s]
      BY <3>1
    <3>3. \A n \in Nat : Loaded(s, n) => Loaded(s, n)'
      BY <1>1 DEF Loaded
    <3>4. TurnsLoaded(s)'
      BY <1>1, <2>1, <3>2, <3>3 DEF CoverInv, TurnsLoaded
    <3> QED
      BY <1>1, <3>4 DEF CoverInv, ThreadLoads
  <2>2. CASE s # r
    <3>1. turn'[s] = turn[s] /\ (pc[s] = "leave" => Over(turn[s])) /\ (loader[s].tensors # <<>> => loader[s].busy)
      BY <1>1, <2>2 DEF CoverInv, TurnsLoaded, ThreadLoads
    <3> QED
      BY <1>1, <3>1, Unmoved
  <2> QED
    BY <2>1, <2>2
<1> QED
  BY <1>1, <1>2 DEF CoverInv

(* Steps that move a rank on, but neither its turn nor its model *)
LEMMA MovesCover ==
  ASSUME TransferInv, CoverInv, NEW r \in Rank,
         Register(r) \/ Broadcast(r) \/ Receive(r) \/ Answer(r) \/ Drain(r)
  PROVE  CoverInv'
<1>1. /\ UNCHANGED <<published, turn, loader, model>> /\ pc \in [Rank -> Places]
      /\ \/ pc[r] = "cache" /\ pc' = [pc EXCEPT ![r] = "registered"]
         \/ Over(turn[r]) /\ pc' = [pc EXCEPT ![r] = "leave"]
         \/ \E p \in {"receive", "answer", "load", "barrier"} : pc' = [pc EXCEPT ![r] = p]
  BY DEF Register, Broadcast, Receive, Answer, Drain, TransferInv, TransferType
<1>2. ASSUME NEW s \in Rank PROVE ThreadLoads(s)' /\ TurnsLoaded(s)'
  <2>1. /\ pc'[s] \in {"cache", "registered"} => pc[s] \in {"cache", "registered"}
        /\ pc'[s] = "leave" => pc[s] = "leave" \/ Over(turn[s])
        /\ pc'[s] = "done" => pc[s] = "done"
    BY <1>1
  <2>2. (pc[s] = "leave" => Over(turn[s])) /\ (loader[s].tensors # <<>> => loader[s].busy)
    BY DEF CoverInv, TurnsLoaded, ThreadLoads
  <2> QED
    BY <1>1, <2>1, <2>2, Unmoved
<1> QED
  BY <1>1, <1>2 DEF CoverInv

LEMMA ReplyCovers ==
  ASSUME TransferInv, CoverInv, NEW r \in Rank, Reply(r)
  PROVE  CoverInv'
<1>1. /\ UNCHANGED <<published, turn, pc, model>> /\ loader[r].tensors = <<>>
      /\ loader' = [s \in Rank |-> IF s = r THEN [loader[r] EXCEPT !.busy = FALSE] ELSE loader[s]]
      /\ \A s \in Rank : ThreadType(loader[s])
  BY DEF Reply, TransferInv, TransferType
<1>2. /\ loader'[r] = [loader[r] EXCEPT !.busy = FALSE]
      /\ \A s \in Rank : s # r => loader'[s] = loader[s]
  BY <1>1
<1>3. loader'[r].tensors = loader[r].tensors /\ loader'[r].turn = loader[r].turn
  BY <1>1, <1>2, BusyChanged
<1>4. ASSUME NEW s \in Rank PROVE ThreadLoads(s)' /\ TurnsLoaded(s)'
  <2>1. loader'[s].tensors = loader[s].tensors /\ loader'[s].turn = loader[s].turn
    BY <1>2, <1>3
  <2>2. loader[s].tensors # <<>> => loader'[s].busy
    BY <1>1, <1>2 DEF CoverInv, ThreadLoads
  <2>3. pc[s] = "leave" => Over(turn[s])
    BY DEF CoverInv, TurnsLoaded
  <2> QED
    BY <1>1, <2>1, <2>2, <2>3, Unmoved
<1> QED
  BY <1>1, <1>4 DEF CoverInv

(* Not overlapped: the rank itself puts the tensors of its bucket into the model. *)
LEMMA LoadDirectlyCovers ==
  ASSUME TransferInv, CoverInv, NEW r \in Rank, LoadDirectly(r)
  PROVE  CoverInv'
<1> DEFINE bucket == BucketOf(turn[r])
<1>1. /\ UNCHANGED <<published, loader>> /\ pc[r] = "load"
      /\ turn' = [turn EXCEPT ![r] = @ + 1] /\ turn \in [Rank -> Nat]
      /\ pc' = [pc EXCEPT ![r] = "turn"] /\ pc \in [Rank -> Places]
      /\ published \in Int /\ model \in [RolloutRank -> [Tensor -> Int]]
  BY DEF LoadDirectly, TransferInv, TransferType, CoverInv
<1>2. loader[r].tensors = <<>>
  <2>1. ~loader[r].busy
    BY <1>1 DEF TransferInv, PlaceInv, ThreadInv
  <2> QED
    BY <2>1 DEF CoverInv, ThreadLoads
<1>3. \A t \in Range(bucket) : Extracted(r, 0, t) = published
  <2>1. buffer[r][0] = [turn |-> turn[r], version |-> published]
    BY <1>1, LoadedWhole DEF LoadsWhole
  <2>2. buffer[r][0] # Garbage /\ buffer[r][0].turn = turn[r] /\ buffer[r][0].version = published
    BY <1>1, <2>1 DEF Garbage, Nothing
  <2> QED
    BY <2>2, Zenon DEF Extracted
<1>4. /\ model' \in [RolloutRank -> [Tensor -> Int]]
      /\ \A s \in RolloutRank : s # r => model'[s] = model[s]
      /\ r \in RolloutRank => \A t \in Tensor : model'[r][t] = IF t \in Range(bucket) THEN published ELSE model[r][t]
  <2>1. CASE r \in ActorRank
    <3>1. model' = model /\ r \notin RolloutRank
      BY <2>1, TransferAssumption DEF LoadDirectly, ActorRank, RolloutRank
    <3> QED
      BY <1>1, <3>1
  <2>2. CASE r \notin ActorRank
    <3> DEFINE new == [t \in Tensor |-> IF t \in Range(bucket) THEN Extracted(r, 0, t) ELSE model[r][t]]
    <3>1. model' = [model EXCEPT ![r] = new]
      BY <2>2 DEF LoadDirectly
    <3>2. r \in RolloutRank
      BY <2>2 DEF Rank
    <3>3. \A t \in Tensor : new[t] = IF t \in Range(bucket) THEN published ELSE model[r][t]
      BY <1>3
    <3>4. new \in [Tensor -> Int]
      BY <1>1, <1>3, <3>2
    <3> HIDE DEF new, bucket
    <3> QED
      BY <1>1, <3>1, <3>2, <3>3, <3>4
  <2> QED
    BY <2>1, <2>2
<1>5. ASSUME NEW s \in Rank PROVE ThreadLoads(s)' /\ TurnsLoaded(s)'
  <2>1. CASE s = r
    <3>1. turn'[s] = turn[s] + 1 /\ turn[s] \in Nat /\ pc'[s] = "turn"
      BY <1>1, <2>1
    <3>2. ASSUME NEW n \in Nat, n < turn'[s], HasBucket(n), s \in RolloutRank PROVE Loaded(s, n)'
      <4>1. BucketOf(n) \in Seq(Tensor) /\ \A t \in Range(BucketOf(n)) : t \in Tensor
        BY <3>2, BucketType
      <4>2. CASE n = turn[s]
        <5>1. \A t \in Range(BucketOf(n)) : model'[s][t] = published
          BY <1>4, <2>1, <3>2, <4>1, <4>2
        <5> QED
          BY <1>1, <5>1 DEF Loaded
      <4>3. CASE n < turn[s]
        <5>1. \A t \in Range(BucketOf(n)) : model[s][t] = published
          BY <1>2, <2>1, <3>2, <4>3, NoneIsEmpty DEF CoverInv, TurnsLoaded, Loaded
        <5>2. \A t \in Range(BucketOf(n)) : model'[s][t] = published
          BY <1>4, <2>1, <3>2, <4>1, <5>1
        <5> QED
          BY <1>1, <5>2 DEF Loaded
      <4> QED
        BY <3>1, <3>2, <4>2, <4>3
    <3>3. TurnsLoaded(s)'
      BY <3>1, <3>2 DEF TurnsLoaded
    <3>4. ThreadLoads(s)'
      BY <1>1 DEF CoverInv, ThreadLoads
    <3> QED
      BY <3>3, <3>4
  <2>2. CASE s # r
    <3>1. turn'[s] = turn[s] /\ pc'[s] = pc[s] /\ (s \in RolloutRank => model'[s] = model[s])
      BY <1>1, <1>4, <2>2
    <3>2. (pc[s] = "leave" => Over(turn[s])) /\ (loader[s].tensors # <<>> => loader[s].busy)
      BY DEF CoverInv, TurnsLoaded, ThreadLoads
    <3> QED
      BY <1>1, <3>1, <3>2, Unmoved
  <2> QED
    BY <2>1, <2>2
<1> QED
  BY <1>4, <1>5 DEF CoverInv

(* Overlapped: the thread, through with the last bucket, gets the next one. *)
LEMMA HandOverCovers ==
  ASSUME TransferInv, CoverInv, HandOver
  PROVE  CoverInv'
<1>1. /\ UNCHANGED <<published, model>>
      /\ \A r \in Rank : /\ pc[r] = "barrier" /\ pc'[r] = "turn"
                         /\ turn'[r] = turn[r] + 1 /\ turn[r] \in Nat
                         /\ loader'[r].turn = turn[r] /\ loader'[r].busy = TRUE
                         /\ loader'[r].tensors = IF r \in ActorRank THEN <<>> ELSE BucketOf(turn[r])
  BY DEF HandOver, All, Everywhere, TransferInv, TransferType
<1>2. ASSUME NEW r \in Rank PROVE ThreadLoads(r)' /\ TurnsLoaded(r)'
  <2>1. loader[r].tensors = <<>>
    <3>1. ~loader[r].busy
      BY <1>1 DEF TransferInv, ThreadInv
    <3> QED
      BY <3>1 DEF CoverInv, ThreadLoads
  <2>2. HasBucket(turn[r])
    <3>1. gidx[r] < Len(sent) /\ sent[gidx[r] + 1].turn = turn[r]
      BY <1>1 DEF TransferInv, PlaceInv, Received
    <3>2. gidx[r] + 1 \in 1..Len(sent)
      BY <3>1 DEF TransferInv, TransferType
    <3> QED
      BY <3>1, <3>2 DEF TransferInv, SentInv
  <2>3. BucketOf(turn[r]) \in Seq(Tensor)
    BY <1>1, <2>2, BucketType
  <2>4. ThreadLoads(r)'
    <3>1. CASE r \in ActorRank
      BY <1>1, <3>1, EmptySeq DEF ThreadLoads
    <3>2. CASE r \notin ActorRank
      <4>1. r \in RolloutRank
        BY <3>2 DEF Rank
      <4> QED
        BY <1>1, <2>2, <2>3, <3>2, <4>1 DEF ThreadLoads
    <3> QED
      BY <3>1, <3>2
  <2>5. ASSUME NEW n \in Nat, n < turn'[r], HasBucket(n), r \in RolloutRank PROVE Loaded(r, n)'
    <3>1. CASE n = turn[r]
      <4>1. r \notin ActorRank
        BY <2>5, TransferAssumption DEF ActorRank, RolloutRank
      <4>2. loader'[r].tensors = BucketOf(n)
        BY <1>1, <3>1, <4>1
      <4> QED
        BY <4>2 DEF Loaded
    <3>2. CASE n < turn[r]
      <4>1. \A t \in Range(BucketOf(n)) : model[r][t] = published
        BY <2>1, <2>5, <3>2, NoneIsEmpty DEF CoverInv, TurnsLoaded, Loaded
      <4> QED
        BY <1>1, <4>1 DEF Loaded
    <3> QED
      BY <1>1, <2>5, <3>1, <3>2
  <2>6. TurnsLoaded(r)'
    BY <1>1, <2>5 DEF TurnsLoaded
  <2> QED
    BY <2>4, <2>6
<1> QED
  BY <1>1, <1>2 DEF CoverInv

(* A thread finds the next tensor of its bucket in its half of the buffer. *)
LEMMA LoadTensorCovers ==
  ASSUME TransferInv, CoverInv, NEW r \in Rank, LoadTensor(r)
  PROVE  CoverInv'
<1> DEFINE ts == loader[r].tensors
           t == Head(ts)
<1>1. /\ UNCHANGED <<published, turn, pc>> /\ loader[r].busy /\ ts # <<>>
      /\ loader' = [loader EXCEPT ![r].tensors = Tail(@)]
      /\ model' = [model EXCEPT ![r][t] = Extracted(r, loader[r].slot, t)]
      /\ published \in Int /\ model \in [RolloutRank -> [Tensor -> Int]]
  BY DEF LoadTensor, TransferInv, TransferType, CoverInv
<1>2. /\ ts \in Seq(Tensor) /\ r \in RolloutRank
      /\ loader[r].turn \in Nat /\ HasBucket(loader[r].turn)
      /\ Range(ts) \subseteq Range(BucketOf(loader[r].turn))
  BY <1>1 DEF CoverInv, ThreadLoads
<1>3. /\ t \in Tensor /\ t \in Range(ts) /\ Tail(ts) \in Seq(Tensor)
      /\ Range(Tail(ts)) \subseteq Range(ts)
      /\ \A u \in Range(ts) : u = t \/ u \in Range(Tail(ts))
  <2> HIDE DEF ts
  <2> DEFINE rest == Tail(ts)
  <2>1. /\ t \in Tensor /\ t = ts[1] /\ rest \in Seq(Tensor) /\ Len(rest) = Len(ts) - 1
        /\ \A i \in 1..Len(rest) : rest[i] = ts[i + 1]
    BY <1>1, <1>2, HeadTailProperties
  <2>2. /\ DOMAIN ts = 1..Len(ts) /\ Len(ts) \in Nat /\ Len(ts) >= 1
        /\ DOMAIN rest = 1..Len(rest)
    BY <1>1, <1>2, <2>1, EmptySeq, LenProperties
  <2> HIDE DEF t, rest
  <2>3. t \in Range(ts)
    BY <2>1, <2>2 DEF Range
  <2>4. ASSUME NEW u \in Range(rest) PROVE u \in Range(ts)
    <3>1. PICK i \in 1..Len(rest) : u = rest[i]
      BY <2>2 DEF Range
    <3>2. i + 1 \in 1..Len(ts) /\ u = ts[i + 1]
      BY <2>1, <2>2, <3>1
    <3> QED
      BY <2>2, <3>2 DEF Range
  <2>5. ASSUME NEW u \in Range(ts), u # t PROVE u \in Range(rest)
    <3>1. PICK i \in 1..Len(ts) : u = ts[i]
      BY <2>2 DEF Range
    <3>2. i - 1 \in 1..Len(rest)
      BY <2>1, <2>2, <2>5, <3>1
    <3>3. rest[i - 1] = u
      <4>1. rest[i - 1] = ts[i - 1 + 1] /\ i - 1 + 1 = i
        BY <2>1, <3>2
      <4> QED
        BY <3>1, <4>1
    <3> QED
      BY <2>2, <3>2, <3>3 DEF Range
  <2> QED
    BY <2>1, <2>3, <2>4, <2>5 DEF rest
<1>4. Extracted(r, loader[r].slot, t) = published
  <2> DEFINE held == buffer[r][loader[r].slot]
  <2>1. held = [turn |-> loader[r].turn, version |-> published]
    BY <1>1, LoadedWhole DEF LoadsWhole
  <2>2. held # Garbage /\ held.turn = loader[r].turn /\ held.version = published
    BY <1>2, <2>1 DEF Garbage, Nothing
  <2>3. t \in Range(BucketOf(held.turn))
    BY <1>2, <1>3, <2>2
  <2> HIDE DEF t
  <2> QED
    BY <2>2, <2>3, Zenon DEF Extracted
<1>5. /\ loader'[r].tensors = Tail(ts) /\ loader'[r].turn = loader[r].turn
      /\ loader'[r].busy = loader[r].busy
      /\ \A s \in Rank : s # r => loader'[s] = loader[s]
  <2>1. /\ loader' = [s \in Rank |-> IF s = r THEN [loader[r] EXCEPT !.tensors = Tail(@)] ELSE loader[s]]
        /\ \A s \in Rank : ThreadType(loader[s])
    BY <1>1 DEF TransferInv, TransferType
  <2>2. /\ loader'[r] = [loader[r] EXCEPT !.tensors = Tail(@)]
        /\ \A s \in Rank : s # r => loader'[s] = loader[s]
    BY <2>1
  <2> DEFINE l == loader[r]
             tail == Tail(l.tensors)
  <2>3. loader'[r] = [l EXCEPT !.tensors = tail] /\ ThreadType(l)
    BY <2>1, <2>2
  <2>4. tail = Tail(ts)
    OBVIOUS
  <2> HIDE DEF l, tail
  <2>5. /\ [l EXCEPT !.tensors = tail].tensors = tail /\ [l EXCEPT !.tensors = tail].turn = l.turn
        /\ [l EXCEPT !.tensors = tail].busy = l.busy
    BY <2>3, TensorsChanged
  <2>6. loader'[r].tensors = tail /\ loader'[r].turn = l.turn /\ loader'[r].busy = l.busy
    BY <2>3, <2>5, Zenon
  <2> QED
    BY <2>2, <2>4, <2>6 DEF l
<1>6. /\ model' \in [RolloutRank -> [Tensor -> Int]]
      /\ \A s \in RolloutRank : s # r => model'[s] = model[s]
      /\ \A u \in Tensor : model'[r][u] = IF u = t THEN published ELSE model[r][u]
  <2>1. t \in Tensor
    BY <1>3
  <2> HIDE DEF t
  <2> QED
    BY <1>1, <1>2, <1>4, <2>1
<1> HIDE DEF t, ts
<1>7. ASSUME NEW s \in Rank PROVE ThreadLoads(s)' /\ TurnsLoaded(s)'
  <2>1. CASE s = r
    <3>1. ThreadLoads(s)'
      BY <1>1, <1>2, <1>3, <1>5, <2>1 DEF ThreadLoads
    <3>2. ASSUME NEW n \in Nat, n < turn'[s], HasBucket(n) PROVE Loaded(s, n)'
      <4>1. \A u \in Range(BucketOf(n)) : u \in Tensor
        BY <3>2, BucketType
      <4>2. \A u \in Range(BucketOf(n)) : model[s][u] = published \/ u \in Range(ts)
        BY <1>1, <1>2, <2>1, <3>2 DEF CoverInv, TurnsLoaded, Loaded, ts
      <4>3. \A u \in Range(BucketOf(n)) : model'[s][u] = published \/ u \in Range(Tail(ts))
        BY <1>3, <1>6, <2>1, <4>1, <4>2
      <4> QED
        BY <1>1, <1>5, <2>1, <4>3 DEF Loaded
    <3>3. pc[s] # "done" /\ pc'[s] = pc[s] /\ turn'[s] = turn[s]
      BY <1>1, <2>1 DEF TransferInv, ThreadInv
    <3>4. TurnsLoaded(s)'
      BY <3>2, <3>3 DEF TurnsLoaded, CoverInv
    <3> QED
      BY <3>1, <3>4
  <2>2. CASE s # r
    <3>1. loader'[s] = loader[s] /\ (s \in RolloutRank => model'[s] = model[s])
      BY <1>5, <1>6, <2>2
    <3>2. (pc[s] = "leave" => Over(turn[s])) /\ (loader[s].tensors # <<>> => loader[s].busy)
      BY DEF CoverInv, TurnsLoaded, ThreadLoads
    <3> QED
      BY <1>1, <3>1, <3>2, Unmoved
  <2> QED
    BY <2>1, <2>2
<1> QED
  BY <1>6, <1>7 DEF CoverInv

(* A rank leaves when the turns are over and its thread is through: every tensor *)
(* was in the bucket of one of them.                                              *)
LEMMA LeaveCovers ==
  ASSUME TransferInv, CoverInv, Leave
  PROVE  CoverInv'
<1>1. /\ UNCHANGED <<published, turn, loader, model>>
      /\ \A r \in Rank : pc[r] = "leave" /\ pc'[r] = "done" /\ turn[r] \in Nat
  BY DEF Leave, All, Everywhere, TransferInv, TransferType
<1>2. ASSUME NEW r \in Rank PROVE ThreadLoads(r)' /\ TurnsLoaded(r)'
  <2>1. Over(turn[r]) /\ ThreadLoads(r)
    BY <1>1 DEF CoverInv, TurnsLoaded
  <2>2. loader[r].tensors = <<>>
    <3>1. ~loader[r].busy
      BY <1>1 DEF TransferInv, ThreadInv
    <3> QED
      BY <2>1, <3>1 DEF ThreadLoads
  <2>3. ASSUME r \in RolloutRank, NEW t \in Tensor PROVE model[r][t] = published
    <3>1. PICK n \in Nat : HasBucket(n) /\ ~Over(n) /\ t \in Range(BucketOf(n))
      BY EveryTensorHasTurn
    <3>2. Round(n) < Round(turn[r])
      <4>1. PICK d \in Nat, m \in 0..(Actors - 1) : d = n \div Actors /\ m = n % Actors /\ n = Actors * d + m
        BY Divided
      <4>2. PICK e \in Nat, k \in 0..(Actors - 1) :
               e = turn[r] \div Actors /\ k = turn[r] % Actors /\ turn[r] = Actors * e + k
        BY <1>1, Divided
      <4>3. Round(n) = d + 1 /\ Round(turn[r]) = e + 1
        BY <4>1, <4>2, Zenon DEF Round
      <4> QED
        BY <2>1, <3>1, <4>3, RoundsEnough DEF Over
    <3>3. n < turn[r]
      BY <1>1, <3>2, LaterRound
    <3>4. Loaded(r, n)
      BY <1>1, <2>3, <3>1, <3>3 DEF CoverInv, TurnsLoaded
    <3> QED
      BY <2>2, <3>1, <3>4, NoneIsEmpty DEF Loaded
  <2>4. r \in RolloutRank => \A n \in Nat : n < turn[r] /\ HasBucket(n) => Loaded(r, n)'
    BY <1>1 DEF CoverInv, TurnsLoaded, Loaded
  <2>5. TurnsLoaded(r)'
    BY <1>1, <2>3, <2>4 DEF TurnsLoaded
  <2>6. ThreadLoads(r)'
    BY <1>1, <2>1 DEF ThreadLoads
  <2> QED
    BY <2>5, <2>6
<1> QED
  BY <1>1, <1>2 DEF CoverInv

LEMMA CoverStutter == CoverInv /\ UNCHANGED transferVars => CoverInv'
BY DEF CoverInv, ThreadLoads, TurnsLoaded, Loaded, transferVars

LEMMA CoverStep == TransferInv /\ CoverInv /\ [TransferNext]_transferVars => CoverInv'
<1> SUFFICES ASSUME TransferInv, CoverInv, [TransferNext]_transferVars PROVE CoverInv'
  OBVIOUS
<1>1. CASE \E version \in Nat : StartTransfer(version)
  BY <1>1, StartCovers
<1>2. CASE StartThreads \/ HandOver \/ Leave
  BY <1>2, StartThreadsCovers, HandOverCovers, LeaveCovers
<1>3. ASSUME NEW r \in Rank, RankStep(r) PROVE CoverInv'
  BY <1>3, MovesCover, SkipCovers, LoadDirectlyCovers, LoadTensorCovers, ReplyCovers DEF RankStep
<1>4. CASE UNCHANGED transferVars
  BY <1>4, CoverStutter
<1> QED
  BY <1>1, <1>2, <1>3, <1>4 DEF TransferNext, TransferStep

LEMMA CoveredIsDelivered == CoverInv => Delivered
<1> SUFFICES ASSUME CoverInv, All("done"), NEW r \in RolloutRank, NEW t \in Tensor
             PROVE  model[r][t] = published
  BY DEF Delivered
<1> QED
  BY DEF CoverInv, TurnsLoaded, All, Rank

(* Whatever a rank or its thread loads is the bucket of its turn, whole and of *)
(* the version transferred: no broadcast reaches the half a thread still loads  *)
(* from, and none is taken for another.  When all ranks have left, every         *)
(* inference model has every tensor of that version (update_checkpoint).         *)
THEOREM AlwaysWeightsWhole == TransferSpec => []WeightsWhole
<1>1. TransferInv /\ CoverInv => WeightsWhole
  BY LoadedWhole, CoveredIsDelivered DEF WeightsWhole
<1> QED
  BY <1>1, InitHolds, StepKeeps, CoverStart, CoverStep, PTL DEF TransferSpec

-----------------------------------------------------------------------------
(* The old log probabilities: ActorWeights in the fit() of Synchronization *)

(* The saved weights lie where no update writes: outside of the CPU's offloaded *)
(* copy, or every step is the first after a synchronization.                    *)
SnapshotApart == Offload = FALSE \/ \A m \in Modes : m.trigger = 1

Weights == [heap : [Storage -> Nat], param : Storage,
            saved : [1..MaxTrigger -> {NotSaved} \cup Storage]]

(* The first step after a synchronization finds the weights synchronized; later *)
(* ones find them in cpu_saved_models.                                           *)
PolicyInv ==
  /\ actor \in Weights /\ updates \in Nat /\ synced \in Nat
  /\ mode \in Modes /\ step \in 1..mode.trigger
  /\ actor.heap[actor.param] = updates
  /\ updates > synced => proximal = synced
  /\ Offload = FALSE => \A n \in 1..MaxTrigger : actor.saved[n] # actor.param
  /\ fit \in {"starting", "sync", "lastSync"} => step = 1
  /\ step = 1 /\ fit \notin {"sync", "lastSync", "raised"} => updates = synced
  /\ step > 1 => actor.saved[1] # NotSaved /\ actor.heap[actor.saved[1]] = synced

LEMMA FreshExists ==
  ASSUME NEW w \in Weights
  PROVE  /\ Fresh(w) \in Storage /\ Fresh(w) # w.param
         /\ \A n \in 1..MaxTrigger : w.saved[n] # Fresh(w)
<1>1. MaxTrigger \in Nat /\ w.param \in Storage /\ w.saved \in [1..MaxTrigger -> {NotSaved} \cup Storage]
  BY ActorAssumption DEF Weights
<1> DEFINE Saves(s, n) == n \in 1..MaxTrigger /\ w.saved[n] = s
           Place == [s \in Storage |-> IF s = w.param THEN 0 ELSE CHOOSE n : Saves(s, n)]
<1>2. \E s \in Storage : s # w.param /\ s \notin Range(w.saved)
  <2> SUFFICES ASSUME \A s \in Storage : s = w.param \/ s \in Range(w.saved) PROVE FALSE
    OBVIOUS
  <2>1. ASSUME NEW s \in Storage, s # w.param PROVE Saves(s, Place[s])
    <3>1. PICK n : Saves(s, n)
      BY <1>1, <2>1 DEF Range
    <3>2. Place[s] = CHOOSE k : Saves(s, k)
      BY <2>1
    <3> HIDE DEF Place, Saves
    <3> QED
      BY <3>1, <3>2, Zenon
  <2>2. Place \in [Storage -> 0..MaxTrigger]
    <3>1. \A s \in Storage : s # w.param => Place[s] \in 1..MaxTrigger
      BY <2>1
    <3>2. Place[w.param] = 0
      BY <1>1
    <3>3. Place = [s \in Storage |-> Place[s]]
      OBVIOUS
    <3> HIDE DEF Place
    <3> QED
      BY <1>1, <3>1, <3>2, <3>3
  <2>3. IsFiniteSet(Storage) /\ IsFiniteSet(0..MaxTrigger)
    BY <1>1, FS_Interval DEF Storage
  <2>4. Cardinality(0..MaxTrigger) = MaxTrigger + 1
    BY <1>1, FS_Interval
  <2>5. Cardinality(Storage) = MaxTrigger + 2
    BY <1>1, FS_Interval DEF Storage
  <2>6. Cardinality(0..MaxTrigger) < Cardinality(Storage)
    BY <1>1, <2>4, <2>5
  <2>7. PICK x \in Storage, y \in Storage : x # y /\ Place[x] = Place[y]
    <3> HIDE DEF Place
    <3> QED
      BY <2>2, <2>3, <2>6, FS_PigeonHole
  <2>8. (x # w.param => Place[x] # 0) /\ (y # w.param => Place[y] # 0) /\ Place[w.param] = 0
    BY <1>1, <2>1
  <2>9. x # w.param /\ y # w.param
    BY <2>7, <2>8
  <2> QED
    BY <2>1, <2>7, <2>9
<1>3. Fresh(w) \in Storage /\ Fresh(w) # w.param /\ Fresh(w) \notin Range(w.saved)
  <2> HIDE DEF Place, Saves
  <2> QED
    BY <1>2, Zenon DEF Fresh
<1> QED
  BY <1>1, <1>3 DEF Range

LEMMA PolicyStart == SyncInit => PolicyInv
<1> SUFFICES ASSUME SyncInit PROVE PolicyInv
  OBVIOUS
<1>1. MaxTrigger \in Nat \ {0} /\ 1 \in Storage
  BY ActorAssumption DEF Storage
<1>2. actor \in Weights /\ actor.heap[actor.param] = 0 /\ \A n \in 1..MaxTrigger : actor.saved[n] # actor.param
  BY <1>1 DEF SyncInit, ActorInit, Weights, NotSaved
<1>3. mode \in Modes /\ mode.trigger \in Nat \ {0}
  BY ModesAssumption DEF SyncInit, ValInit
<1> QED
  BY <1>2, <1>3 DEF SyncInit, ActorInit, ValInit, PolicyInv

(* What becomes of the weights *)
LEMMA ReloadedKeeps ==
  ASSUME NEW w \in Weights
  PROVE  /\ Reloaded(w) \in Weights
         /\ Reloaded(w).heap[Reloaded(w).param] = w.heap[w.param]
         /\ Offload = FALSE => Reloaded(w) = w
<1>1. CASE Offload = TRUE
  <2> DEFINE v == [w EXCEPT !.param = Fresh(w), !.heap[Fresh(w)] = w.heap[w.param]]
             H == [w.heap EXCEPT ![Fresh(w)] = w.heap[w.param]]
  <2>1. Reloaded(w) = v
    BY <1>1 DEF Reloaded
  <2>2. Fresh(w) \in Storage /\ w.heap[w.param] \in Nat
    BY FreshExists DEF Weights
  <2>3. v = [w EXCEPT !.param = Fresh(w), !.heap = H]
    BY DEF Weights
  <2>4. H \in [Storage -> Nat] /\ H[Fresh(w)] = w.heap[w.param]
    BY <2>2 DEF Weights
  <2> HIDE DEF v, H
  <2>5. v = [heap |-> H, param |-> Fresh(w), saved |-> w.saved]
    BY <2>3 DEF Weights
  <2>6. v \in Weights
    BY <2>2, <2>4, <2>5 DEF Weights
  <2> QED
    BY <1>1, <2>1, <2>4, <2>5, <2>6
<1>2. CASE Offload = FALSE
  BY <1>2 DEF Reloaded
<1> QED
  BY <1>1, <1>2, ActorAssumption

(* v is w with its model's weights saved in the n-th place. *)
SavedAs(v, w, n) ==
  /\ v \in Weights /\ v.param = w.param /\ v.heap[w.param] = w.heap[w.param]
  /\ v.saved[n] \in Storage /\ v.heap[v.saved[n]] = w.heap[w.param]
  /\ \A k \in 1..MaxTrigger : k # n => v.saved[k] = w.saved[k]
  /\ Offload = FALSE => v.saved[n] # w.param
  /\ \A k \in 1..MaxTrigger : w.saved[k] # NotSaved => v.heap[w.saved[k]] = w.heap[w.saved[k]]

LEMMA SavedKeeps ==
  ASSUME NEW w \in Weights, NEW n \in 1..MaxTrigger
  PROVE  SavedAs(Saved(w, n), w, n)
<1>1. CASE Offload = TRUE
  <2> DEFINE v == [w EXCEPT !.saved[n] = w.param]
  <2>1. Saved(w, n) = v
    BY <1>1 DEF Saved
  <2>2. v.param = w.param /\ v.heap = w.heap /\ v.saved = [w.saved EXCEPT ![n] = w.param]
    BY DEF Weights
  <2>3. v = [heap |-> v.heap, param |-> v.param, saved |-> v.saved]
    BY DEF Weights
  <2> HIDE DEF v
  <2>4. v \in Weights
    BY <2>2, <2>3 DEF Weights
  <2> QED
    BY <1>1, <2>1, <2>2, <2>4 DEF Weights, SavedAs
<1>2. CASE Offload = FALSE
  <2> DEFINE v == [w EXCEPT !.saved[n] = Fresh(w), !.heap[Fresh(w)] = w.heap[w.param]]
             S == [w.saved EXCEPT ![n] = Fresh(w)]
             H == [w.heap EXCEPT ![Fresh(w)] = w.heap[w.param]]
  <2>1. Saved(w, n) = v
    BY <1>2 DEF Saved
  <2>2. /\ Fresh(w) \in Storage /\ Fresh(w) # w.param /\ w.heap[w.param] \in Nat
        /\ \A k \in 1..MaxTrigger : w.saved[k] # Fresh(w)
    BY FreshExists DEF Weights
  <2>3. v = [w EXCEPT !.saved = S, !.heap = H]
    BY DEF Weights
  <2>4. /\ H \in [Storage -> Nat] /\ H[Fresh(w)] = w.heap[w.param]
        /\ \A s \in Storage : s # Fresh(w) => H[s] = w.heap[s]
    BY <2>2 DEF Weights
  <2>5. /\ S \in [1..MaxTrigger -> {NotSaved} \cup Storage] /\ S[n] = Fresh(w)
        /\ \A k \in 1..MaxTrigger : k # n => S[k] = w.saved[k]
    BY <2>2 DEF Weights
  <2> HIDE DEF v, S, H
  <2>6. v = [heap |-> H, param |-> w.param, saved |-> S]
    BY <2>3 DEF Weights
  <2>7. v \in Weights
    BY <2>4, <2>5, <2>6 DEF Weights
  <2>8. \A k \in 1..MaxTrigger : w.saved[k] # NotSaved => w.saved[k] \in Storage
    BY DEF Weights
  <2>9. w.param \in Storage
    BY DEF Weights
  <2> QED
    BY <1>2, <2>1, <2>2, <2>4, <2>5, <2>6, <2>7, <2>8, <2>9 DEF SavedAs
<1> QED
  BY <1>1, <1>2, ActorAssumption

LEMMA RestoredKeeps ==
  ASSUME NEW w \in Weights, NEW n \in 1..MaxTrigger, w.saved[n] \in Storage
  PROVE  /\ RestoredFrom(w, n) \in Weights
         /\ RestoredFrom(w, n).param = w.param /\ RestoredFrom(w, n).saved = w.saved
         /\ RestoredFrom(w, n).heap[w.param] = w.heap[w.saved[n]]
         /\ \A s \in Storage : s # w.param => RestoredFrom(w, n).heap[s] = w.heap[s]
<1> DEFINE v == [w EXCEPT !.heap[w.param] = w.heap[w.saved[n]]]
           H == [w.heap EXCEPT ![w.param] = w.heap[w.saved[n]]]
<1>1. w.saved[n] # NotSaved
  BY ActorAssumption DEF Storage, NotSaved
<1>2. RestoredFrom(w, n) = v
  BY <1>1 DEF RestoredFrom
<1>3. v = [w EXCEPT !.heap = H]
  BY DEF Weights
<1>4. w.param \in Storage /\ w.heap[w.saved[n]] \in Nat /\ w.heap \in [Storage -> Nat]
  BY DEF Weights
<1>5. /\ H \in [Storage -> Nat] /\ H[w.param] = w.heap[w.saved[n]]
      /\ \A s \in Storage : s # w.param => H[s] = w.heap[s]
  BY <1>4
<1> HIDE DEF v, H
<1>6. v = [heap |-> H, param |-> w.param, saved |-> w.saved]
  BY <1>3 DEF Weights
<1>7. v \in Weights
  BY <1>5, <1>6 DEF Weights
<1> QED
  BY <1>2, <1>5, <1>6, <1>7

LEMMA UpdatedKeeps ==
  ASSUME NEW w \in Weights
  PROVE  LET v == [w EXCEPT !.heap[w.param] = @ + 1]
         IN  /\ v \in Weights /\ v.param = w.param /\ v.saved = w.saved
             /\ v.heap[w.param] = w.heap[w.param] + 1
             /\ \A s \in Storage : s # w.param => v.heap[s] = w.heap[s]
<1> DEFINE v == [w EXCEPT !.heap[w.param] = @ + 1]
<1>1. v.param = w.param /\ v.saved = w.saved /\ v.heap = [w.heap EXCEPT ![w.param] = @ + 1]
  BY DEF Weights
<1>2. v = [heap |-> v.heap, param |-> v.param, saved |-> v.saved]
  BY DEF Weights
<1> HIDE DEF v
<1>3. w.param \in Storage /\ w.heap \in [Storage -> Nat]
  BY DEF Weights
<1>4. v.heap \in [Storage -> Nat]
  BY <1>1, <1>3
<1>5. v \in Weights
  BY <1>1, <1>2, <1>4 DEF Weights
<1> QED
  BY <1>1, <1>3, <1>5 DEF v

LEMMA ClearedKeeps ==
  ASSUME NEW w \in Weights, NEW n \in 1..MaxTrigger
  PROVE  /\ Cleared(w, n) \in Weights
         /\ Cleared(w, n).param = w.param /\ Cleared(w, n).heap = w.heap
         /\ \A k \in 1..MaxTrigger : k # n => Cleared(w, n).saved[k] = w.saved[k]
         /\ Cleared(w, n).saved[n] = NotSaved
<1> DEFINE S == [w.saved EXCEPT ![n] = NotSaved]
<1>1. Cleared(w, n) = [w EXCEPT !.saved = S]
  BY DEF Cleared, Weights
<1>2. /\ S \in [1..MaxTrigger -> {NotSaved} \cup Storage] /\ S[n] = NotSaved
      /\ \A k \in 1..MaxTrigger : k # n => S[k] = w.saved[k]
  BY DEF Weights
<1> HIDE DEF S
<1>3. Cleared(w, n) = [heap |-> w.heap, param |-> w.param, saved |-> S]
  BY <1>1 DEF Weights
<1>4. Cleared(w, n) \in Weights
  BY <1>2, <1>3 DEF Weights
<1> QED
  BY <1>2, <1>3, <1>4

(* A step computes the old log probabilities by the weights synchronized, and    *)
(* goes on from its own.                                                         *)
LEMMA TrainKeeps == PolicyInv /\ SnapshotApart /\ TrainStep => PolicyInv'
<1> SUFFICES ASSUME PolicyInv, SnapshotApart, TrainStep PROVE PolicyInv'
  OBVIOUS
<1> DEFINE before == Proximal(actor, step)
           rest == AfterProximal(before, step)
           after == Reloaded(rest)
           next == [after EXCEPT !.heap[after.param] = @ + 1]
<1>1. /\ proximal' = before.heap[before.param] /\ actor' = next
      /\ updates' = updates + 1 /\ synced' = synced
  BY DEF TrainStep, TrainWeights
<1>2. /\ fit = "train" /\ mode' = mode
      /\ \/ step < mode.trigger /\ step' = step + 1 /\ fit' = "log"
         \/ step >= mode.trigger /\ step' = 1 /\ fit' = "sync"
  <2>1. mode.trigger \in Nat /\ step \in Nat
    BY ModesAssumption DEF PolicyInv
  <2> QED
    BY <2>1 DEF TrainStep, Train
<1>3. /\ actor \in Weights /\ updates \in Nat /\ synced \in Nat /\ mode \in Modes
      /\ step \in 1..mode.trigger /\ mode.trigger \in Nat /\ mode.trigger <= MaxTrigger
      /\ MaxTrigger \in Nat \ {0}
      /\ actor.heap[actor.param] = updates
  BY ModesAssumption, TriggerAssumption, ActorAssumption DEF PolicyInv
<1>4. step \in 1..MaxTrigger /\ 1 \in 1..MaxTrigger
  BY <1>3
<1> HIDE DEF before, rest, after, next
<1>5. /\ rest \in Weights /\ before.heap[before.param] = synced
      /\ rest.heap[rest.param] = updates
      /\ Offload = FALSE => \A n \in 1..MaxTrigger : rest.saved[n] # rest.param
      /\ Offload = FALSE => rest.saved[1] # NotSaved /\ rest.heap[rest.saved[1]] = synced
  <2>1. CASE step = 1
    <3>1. updates = synced
      BY <1>2, <2>1 DEF PolicyInv
    <3>2. before = Saved(actor, 1)
      BY <2>1, Zenon DEF before, Proximal, Snapshot
    <3>3. rest = Reloaded(before)
      BY <2>1, Zenon DEF rest, AfterProximal
    <3>4. /\ before \in Weights /\ before.param = actor.param
          /\ before.heap[before.param] = updates
          /\ before.saved[1] \in Storage /\ before.heap[before.saved[1]] = updates
          /\ \A k \in 1..MaxTrigger : k # 1 => before.saved[k] = actor.saved[k]
          /\ Offload = FALSE => before.saved[1] # before.param
      <4>1. SavedAs(before, actor, 1)
        BY <1>3, <1>4, <3>2, SavedKeeps
      <4> QED
        BY <1>3, <4>1 DEF SavedAs
    <3>5. /\ rest \in Weights /\ rest.heap[rest.param] = updates
          /\ Offload = FALSE => rest = before
      BY <3>3, <3>4, ReloadedKeeps
    <3>6. Offload = FALSE => \A n \in 1..MaxTrigger : rest.saved[n] # rest.param
      BY <3>4, <3>5 DEF PolicyInv
    <3>7. before.saved[1] # NotSaved
      BY <3>4 DEF Storage, NotSaved
    <3> QED
      BY <3>1, <3>4, <3>5, <3>6, <3>7
  <2>2. CASE step # 1
    <3>1. step > 1 /\ Offload = FALSE
      BY <1>3, <2>2 DEF SnapshotApart
    <3> DEFINE kept == Saved(actor, step)
               reloaded == Reloaded(before)
               restored == RestoredFrom(reloaded, step)
    <3>2. before = RestoredFrom(kept, 1) /\ rest = Cleared(restored, step)
      BY <2>2, Zenon DEF before, rest, Proximal, AfterProximal
    <3> HIDE DEF kept, reloaded, restored
    <3>3. /\ actor.saved[1] \in Storage /\ actor.heap[actor.saved[1]] = synced /\ actor.saved[1] # NotSaved
          /\ \A n \in 1..MaxTrigger : actor.saved[n] # actor.param
      BY <1>3, <1>4, <3>1 DEF PolicyInv, Weights
    <3>4. /\ kept \in Weights /\ kept.param = actor.param
          /\ kept.saved[step] \in Storage /\ kept.heap[kept.saved[step]] = updates
          /\ \A k \in 1..MaxTrigger : k # step => kept.saved[k] = actor.saved[k]
          /\ kept.saved[step] # kept.param
          /\ kept.heap[actor.saved[1]] = synced
      <4>1. SavedAs(kept, actor, step)
        BY <1>3, <1>4, SavedKeeps, Zenon DEF kept
      <4> QED
        BY <1>3, <1>4, <3>1, <3>3, <4>1 DEF SavedAs
    <3>5. kept.saved[1] = actor.saved[1] /\ \A n \in 1..MaxTrigger : kept.saved[n] # kept.param
      BY <1>4, <2>2, <3>3, <3>4
    <3>6. /\ before \in Weights /\ before.param = kept.param /\ before.saved = kept.saved
          /\ before.heap[before.param] = synced
          /\ before.heap[kept.saved[1]] = synced /\ before.heap[kept.saved[step]] = updates
      BY <1>4, <3>2, <3>3, <3>4, <3>5, RestoredKeeps
    <3>7. reloaded = before
      BY <3>1, <3>6, ReloadedKeeps DEF reloaded
    <3>8. /\ restored \in Weights /\ restored.param = kept.param /\ restored.saved = kept.saved
          /\ restored.heap[restored.param] = updates /\ restored.heap[kept.saved[1]] = synced
      BY <1>4, <3>3, <3>4, <3>5, <3>6, <3>7, RestoredKeeps DEF restored
    <3>9. /\ rest \in Weights /\ rest.param = restored.param /\ rest.heap = restored.heap
          /\ rest.saved[1] = kept.saved[1] /\ rest.saved[step] = NotSaved
          /\ \A k \in 1..MaxTrigger : k # step => rest.saved[k] = kept.saved[k]
      <4>1. rest = Cleared(restored, step) /\ restored \in Weights /\ step \in 1..MaxTrigger
        BY <1>4, <3>2, <3>8
      <4>2. /\ rest \in Weights /\ rest.param = restored.param /\ rest.heap = restored.heap
            /\ \A k \in 1..MaxTrigger : k # step => rest.saved[k] = restored.saved[k]
            /\ rest.saved[step] = NotSaved
        BY <4>1, ClearedKeeps, SMT
      <4> QED
        BY <1>4, <2>2, <3>8, <4>2
    <3>10. rest.param # NotSaved
      BY <3>9 DEF Weights, Storage, NotSaved
    <3>11. \A n \in 1..MaxTrigger : rest.saved[n] # rest.param
      BY <3>5, <3>8, <3>9, <3>10
    <3> QED
      BY <3>3, <3>5, <3>6, <3>8, <3>9, <3>11
  <2> QED
    BY <2>1, <2>2
<1>6. /\ after \in Weights /\ after.heap[after.param] = updates
      /\ Offload = FALSE => after = rest
  BY <1>5, ReloadedKeeps DEF after
<1>7. /\ next \in Weights /\ next.param = after.param /\ next.saved = after.saved
      /\ next.heap[after.param] = updates + 1
      /\ \A s \in Storage : s # after.param => next.heap[s] = after.heap[s]
  <2>1. next.heap[after.param] = after.heap[after.param] + 1
    BY <1>6, UpdatedKeeps DEF next
  <2> QED
    BY <1>6, <2>1, UpdatedKeeps DEF next
<1>8. Offload = FALSE => \A n \in 1..MaxTrigger : next.saved[n] # next.param
  BY <1>5, <1>6, <1>7
<1>9. Offload = FALSE => next.saved[1] # NotSaved /\ next.heap[next.saved[1]] = synced
  <2> SUFFICES ASSUME Offload = FALSE PROVE next.saved[1] # NotSaved /\ next.heap[next.saved[1]] = synced
    OBVIOUS
  <2>1. after = rest /\ next.saved = rest.saved
    BY <1>6, <1>7
  <2>2. rest.saved[1] \in Storage /\ rest.saved[1] # rest.param
    BY <1>4, <1>5 DEF Weights
  <2> QED
    BY <1>5, <1>7, <2>1, <2>2
<1>10. step' > 1 => Offload = FALSE
  BY <1>2, <1>3 DEF SnapshotApart
<1>11. /\ actor' \in Weights /\ updates' \in Nat /\ synced' \in Nat
       /\ mode' \in Modes /\ step' \in 1..mode'.trigger
       /\ actor'.heap[actor'.param] = updates'
       /\ proximal' = synced'
  BY <1>1, <1>2, <1>3, <1>5, <1>7
<1>12. /\ fit' \in {"starting", "sync", "lastSync"} => step' = 1
       /\ ~(step' = 1 /\ fit' \notin {"sync", "lastSync", "raised"})
  BY <1>2, <1>3
<1> QED
  BY <1>1, <1>8, <1>9, <1>10, <1>11, <1>12 DEF PolicyInv

LEMMA EndKeeps == PolicyInv /\ EndTransfer => PolicyInv'
<1> SUFFICES ASSUME PolicyInv, EndTransfer PROVE PolicyInv'
  OBVIOUS
<1>1. synced' = actor.heap[actor.param] /\ actor' = Reloaded(actor) /\ updates' = updates /\ proximal' = proximal
  BY DEF EndTransfer, Synced
<1>2. /\ mode' = mode /\ step' = step /\ step = 1
      /\ fit' \in {"before", "validating", "log", "validatingLast", "lastWait"}
  BY DEF EndTransfer, FirstSync, TriggerSync, LastSync, Sync, PolicyInv
<1>3. /\ actor' \in Weights /\ actor'.heap[actor'.param] = updates /\ synced' = updates
      /\ Offload = FALSE => actor' = actor
  BY <1>1, ReloadedKeeps DEF PolicyInv
<1> QED
  BY <1>1, <1>2, <1>3 DEF PolicyInv

LEMMA PolicyStep == PolicyInv /\ SnapshotApart /\ [SyncNext]_syncVars => PolicyInv'
<1> SUFFICES ASSUME PolicyInv, SnapshotApart, [SyncNext]_syncVars PROVE PolicyInv'
  OBVIOUS
<1>1. CASE TrainStep
  BY <1>1, TrainKeeps
<1>2. CASE EndTransfer
  BY <1>2, EndKeeps
<1>3. ASSUME UNCHANGED <<actorVars, mode, step, fit>> PROVE PolicyInv'
  BY <1>3 DEF PolicyInv, actorVars
<1>4. CASE BeginTransfer \/ Transfer
  BY <1>3, <1>4 DEF BeginTransfer, Transfer, valVars
<1>5. CASE Remote(UpdateParamVersion) \/ Remote(DoValidate) \/ Remote(ValidateProcess)
  BY <1>3, <1>5 DEF Remote, UpdateParamVersion, DoValidate, ValidateProcess
<1>6. CASE UNCHANGED syncVars
  BY <1>3, <1>6 DEF syncVars, valVars
<1>7. CASE (LastTrigger \/ Raise) /\ UNCHANGED actorVars
  BY <1>7, ModesAssumption DEF LastTrigger, Raise, PolicyInv, actorVars
<1>8. CASE (Begin \/ OwnValidation \/ Log \/ Finish \/ Remaining \/ LastLog) /\ UNCHANGED actorVars
  <2>1. /\ fit \notin {"sync", "lastSync", "raised"} /\ fit' \notin {"starting", "sync", "lastSync"}
        /\ step' = step /\ mode' = mode
    BY <1>8 DEF Begin, OwnValidation, Log, Finish, Remaining, LastLog, LogValidation
  <2> QED
    BY <1>8, <2>1 DEF PolicyInv, actorVars
<1> QED
  BY <1>1, <1>2, <1>4, <1>5, <1>6, <1>7, <1>8 DEF SyncNext, FitStep

(* The trainer's weights are those of its last update, and the old log          *)
(* probabilities of every batch come from the weights the Rollouter has, unless  *)
(* the saved weights share their storage with the offloaded ones (ray_trainer.py, *)
(* _process_batch_common; fsdp2_utils.py).                                        *)
THEOREM OldFromRollouter ==
  ASSUME SnapshotApart
  PROVE  SyncSpec => []OldPolicy
<1>1. PolicyInv => OldPolicy
  BY DEF PolicyInv, OldPolicy
<1> QED
  BY <1>1, PolicyStart, PolicyStep, PTL DEF SyncSpec

-----------------------------------------------------------------------------
(* The reports of the versions: Validation in the fit() of Synchronization *)

(* Beside the rollout every version is validated; otherwise one that is not is   *)
(* reported at once, before a validation begun earlier.                           *)
InTurn == \A m \in Modes : m.parallel => m.freq = 1

Report == [version : Int, metrics : BOOLEAN]
Update == [state : {"submitted", "done", "failed"}, version : Int, validate : BOOLEAN]
Validating == IF valTask = Absent THEN 0 ELSE 1      \* the reports still to come
Submitted == IF update.state = "submitted" THEN 1 ELSE 0
Waiting == Len(valQueue) + Submitted

ReportType ==
  /\ mode \in Modes /\ valQueue \in Seq(Report) /\ logged \in Seq(Int)
  /\ update \in Update /\ queueVersion \in Nat /\ current \in Nat /\ valTask \in Int

(* The versions logged, queued, being validated and being reported are all versions *)
(* so far, in this order.                                                            *)
SequenceInv ==
  /\ \A i \in 1..Len(logged) : logged[i] = i - 1
  /\ \A i \in 1..Len(valQueue) : valQueue[i].version = Len(logged) + i - 1
  /\ valTask # Absent => valTask = Len(logged) + Len(valQueue)
  /\ update.state = "submitted" => update.version = Len(logged) + Len(valQueue) + Validating
  /\ fit = "starting" => update.state = "done" /\ logged = <<>> /\ valQueue = <<>> /\ valTask = Absent
  /\ fit # "starting" => LET Made == Len(logged) + Len(valQueue) + Validating + Submitted
                         IN  Made = IF update.state = "failed" THEN queueVersion ELSE queueVersion + 1
  /\ fit \in {"sync", "lastSync"} => current = queueVersion + 1
  /\ fit \notin {"sync", "lastSync", "raised"} => current = queueVersion
  /\ fit = "starting" => current = 0

(* Unless the validation is beside the rollout, the log is at most one report behind *)
(* when a step begins, and not behind once the last one is waited for.                *)
BehindInv ==
  mode.parallel = FALSE =>
    /\ valTask = Absent /\ update.state # "failed"
    /\ fit \in {"before", "train", "sync", "remaining", "validatingLast", "lastWait"} => Waiting <= 1
    /\ fit \in {"validating", "log"} => Waiting <= 2
    /\ fit \in {"lastTrigger", "lastSync", "ended"} => Waiting = 0

ReportInv == ReportType /\ SequenceInv /\ BehindInv

LEMMA ReportStart == SyncInit => ReportInv
<1> SUFFICES ASSUME SyncInit PROVE ReportInv
  OBVIOUS
<1>1. /\ mode \in Modes /\ valQueue = <<>> /\ logged = <<>> /\ queueVersion = 0 /\ current = 0
      /\ update = NoUpdate /\ valTask = Absent /\ fit = "starting"
  BY DEF SyncInit, ValInit
<1>2. ReportType
  BY <1>1 DEF ReportType, Update, NoUpdate, Absent
<1>3. SequenceInv
  BY <1>1 DEF SequenceInv, NoUpdate
<1>4. BehindInv
  BY <1>1 DEF BehindInv, NoUpdate
<1> QED
  BY <1>2, <1>3, <1>4 DEF ReportInv

(* Where neither a report nor a version changes, the invariant is about fit(). *)
LEMMA FitMoves ==
  ASSUME ReportInv, UNCHANGED <<mode, valQueue, logged, update, queueVersion, valTask>>,
         current' = (IF fit' \in {"sync", "lastSync"} THEN queueVersion + 1 ELSE queueVersion) \/ fit' = "raised",
         current' \in Nat, fit # "starting", fit' # "starting",
         mode.parallel = FALSE =>
            /\ fit' \in {"before", "train", "sync", "remaining", "validatingLast", "lastWait"} => Waiting <= 1
            /\ fit' \in {"validating", "log"} => Waiting <= 2
            /\ fit' \in {"lastTrigger", "lastSync", "ended"} => Waiting = 0
  PROVE  ReportInv'
<1>1. ReportType'
  BY DEF ReportInv, ReportType
<1>2. Validating' = Validating /\ Submitted' = Submitted /\ Waiting' = Waiting
  BY DEF Validating, Submitted, Waiting
<1>3. SequenceInv'
  BY <1>2 DEF ReportInv, SequenceInv
<1>4. BehindInv'
  BY <1>2 DEF ReportInv, BehindInv
<1> QED
  BY <1>1, <1>3, <1>4 DEF ReportInv

(* A report put at the end of the queue *)
LEMMA ReportPut ==
  ASSUME ReportType, NEW v \in Int, NEW m \in BOOLEAN, PutValidate(v, m)
  PROVE  /\ valQueue' \in Seq(Report) /\ Len(valQueue') = Len(valQueue) + 1
         /\ \A i \in 1..Len(valQueue) : valQueue'[i] = valQueue[i]
         /\ valQueue'[Len(valQueue) + 1].version = v
<1>1. valQueue \in Seq(Report) /\ [version |-> v, metrics |-> m] \in Report
  BY DEF ReportType, Report
<1> QED
  BY <1>1, AppendProperties DEF PutValidate

LEMMA ReportsKept ==
  ASSUME ReportInv, InTurn, UpdateParamVersion
  PROVE  ReportInv'
<1> DEFINE need == TestDue(update.version) \/ update.validate
           clash == need /\ mode.parallel /\ valTask # Absent
           N == Len(logged)
           Q == Len(valQueue)
<1>1. /\ update.state = "submitted"
      /\ update' = [update EXCEPT !.state = IF clash THEN "failed" ELSE "done"]
      /\ Reports(need) => PutValidate(update.version, need)
      /\ ~Reports(need) => valQueue' = valQueue
      /\ valTask' = IF need /\ mode.parallel /\ ~clash THEN update.version ELSE valTask
      /\ UNCHANGED <<mode, queueVersion, fit, current, logged>>
  BY Zenon DEF UpdateParamVersion
<1>2. need \in BOOLEAN
  OBVIOUS
<1>3. /\ N \in Nat /\ Q \in Nat /\ update.version \in Int /\ update \in Update /\ valTask \in Int
      /\ queueVersion \in Nat
  BY LenProperties DEF ReportInv, ReportType, Update
<1>4. /\ fit # "starting" /\ update.version = N + Q + Validating
      /\ N + Q + Validating + 1 = queueVersion + 1
  BY <1>1 DEF ReportInv, SequenceInv, Submitted
<1>5. mode.parallel \in BOOLEAN
  BY ModesAssumption DEF ReportInv, ReportType
<1>6. CASE clash
  <2>1. /\ mode.parallel = TRUE /\ valTask # Absent /\ ~Reports(need)
        /\ update' = [update EXCEPT !.state = "failed"] /\ valQueue' = valQueue /\ valTask' = valTask
    BY <1>1, <1>5, <1>6, Zenon DEF Reports
  <2> HIDE DEF need, clash
  <2>2. update'.state = "failed" /\ update' \in Update
    BY <1>3, <2>1 DEF Update
  <2>3. Validating' = Validating /\ Submitted' = 0
    BY <2>1, <2>2 DEF Validating, Submitted
  <2>4. ReportType'
    BY <1>1, <2>1, <2>2 DEF ReportInv, ReportType
  <2>5. SequenceInv'
    BY <1>1, <1>3, <1>4, <2>1, <2>2, <2>3 DEF ReportInv, SequenceInv
  <2>6. BehindInv'
    BY <1>1, <2>1 DEF BehindInv
  <2> QED
    BY <2>4, <2>5, <2>6 DEF ReportInv
<1>7. CASE ~clash /\ need /\ mode.parallel
  <2>1. /\ mode.parallel = TRUE /\ valTask = Absent /\ ~Reports(need)
        /\ update' = [update EXCEPT !.state = "done"] /\ valQueue' = valQueue /\ valTask' = update.version
    BY <1>1, <1>5, <1>7, Zenon DEF Reports
  <2> HIDE DEF need, clash
  <2>2. update'.state = "done" /\ update' \in Update
    BY <1>3, <2>1 DEF Update
  <2>3. Validating = 0 /\ update.version = N + Q /\ valTask' # Absent /\ Validating' = 1 /\ Submitted' = 0
    BY <1>3, <1>4, <2>1, <2>2 DEF Validating, Submitted, Absent
  <2>4. ReportType'
    BY <1>1, <1>3, <2>1, <2>2 DEF ReportInv, ReportType
  <2>5. SequenceInv'
    BY <1>1, <1>3, <1>4, <2>1, <2>2, <2>3 DEF ReportInv, SequenceInv
  <2>6. BehindInv'
    BY <1>1, <2>1 DEF BehindInv
  <2> QED
    BY <2>4, <2>5, <2>6 DEF ReportInv
<1>8. CASE ~need \/ ~mode.parallel
  <2>1. /\ PutValidate(update.version, need) /\ valTask' = valTask
        /\ update' = [update EXCEPT !.state = "done"]
    BY <1>1, <1>8, Zenon DEF Reports
  <2>2. valTask = Absent
    <3>1. CASE mode.parallel = FALSE
      BY <3>1 DEF ReportInv, BehindInv
    <3>2. CASE mode.parallel = TRUE
      <4>1. ~TestDue(update.version) /\ mode.freq = 1
        BY <1>8, <3>2, Zenon DEF InTurn, ReportInv, ReportType
      <4>2. ~(update.version > 0)
        BY <1>3, <4>1 DEF TestDue
      <4> QED
        BY <1>3, <1>4, <4>2 DEF Validating
    <3> QED
      BY <1>5, <3>1, <3>2
  <2>3. /\ valQueue' \in Seq(Report) /\ Len(valQueue') = Q + 1
        /\ \A i \in 1..Q : valQueue'[i] = valQueue[i]
        /\ valQueue'[Q + 1].version = update.version
    BY <1>2, <1>3, <2>1, ReportPut DEF ReportInv
  <2> HIDE DEF need, clash
  <2>4. update'.state = "done" /\ update' \in Update
    BY <1>3, <2>1 DEF Update
  <2>5. Validating = 0 /\ Validating' = 0 /\ Submitted = 1 /\ Submitted' = 0 /\ update.version = N + Q
    BY <1>1, <1>3, <1>4, <2>1, <2>2, <2>4 DEF Validating, Submitted
  <2>6. ReportType'
    BY <1>1, <2>1, <2>3, <2>4 DEF ReportInv, ReportType
  <2>7. \A i \in 1..(Q + 1) : valQueue'[i].version = N + i - 1
    <3>1. \A i \in 1..Q : valQueue[i].version = N + i - 1
      BY DEF ReportInv, SequenceInv
    <3> QED
      BY <1>3, <2>3, <2>5, <3>1
  <2>8. SequenceInv'
    BY <1>1, <1>3, <1>4, <2>1, <2>2, <2>3, <2>4, <2>5, <2>7 DEF ReportInv, SequenceInv
  <2>9. Waiting' = Waiting
    BY <1>3, <2>3, <2>5 DEF Waiting
  <2>10. BehindInv'
    BY <1>1, <2>1, <2>4, <2>9 DEF ReportInv, BehindInv
  <2> QED
    BY <2>6, <2>8, <2>10 DEF ReportInv
<1> QED
  BY <1>5, <1>6, <1>7, <1>8

LEMMA ValidatedKeeps ==
  ASSUME ReportInv, DoValidate
  PROVE  ReportInv'
<1> DEFINE N == Len(logged)
           Q == Len(valQueue)
<1>1. /\ valTask # Absent /\ PutValidate(valTask, TRUE) /\ valTask' = Absent
      /\ UNCHANGED <<mode, queueVersion, update, fit, current, logged>>
  BY DEF DoValidate
<1>2. N \in Nat /\ Q \in Nat /\ valTask \in Int /\ queueVersion \in Nat /\ update \in Update
  BY LenProperties DEF ReportInv, ReportType
<1>3. /\ valQueue' \in Seq(Report) /\ Len(valQueue') = Q + 1
      /\ \A i \in 1..Q : valQueue'[i] = valQueue[i]
      /\ valQueue'[Q + 1].version = valTask
  BY <1>1, <1>2, ReportPut DEF ReportInv
<1>4. Validating = 1 /\ Validating' = 0 /\ Submitted' = Submitted /\ valTask = N + Q /\ Submitted \in 0..1
  BY <1>1 DEF Validating, Submitted, ReportInv, SequenceInv
<1>5. ReportType'
  BY <1>1, <1>3 DEF ReportInv, ReportType, Absent
<1>6. \A i \in 1..(Q + 1) : valQueue'[i].version = N + i - 1
  <2>1. \A i \in 1..Q : valQueue[i].version = N + i - 1
    BY DEF ReportInv, SequenceInv
  <2> QED
    BY <1>2, <1>3, <1>4, <2>1
<1>7. fit # "starting"
  BY <1>1 DEF ReportInv, SequenceInv
<1>8. SequenceInv'
  BY <1>1, <1>2, <1>3, <1>4, <1>6, <1>7 DEF ReportInv, SequenceInv
<1>9. BehindInv'
  BY <1>1 DEF ReportInv, BehindInv
<1> QED
  BY <1>5, <1>8, <1>9 DEF ReportInv

(* The trainer takes at most one report of the queue. *)
LEMMA Logs ==
  ASSUME ReportInv, NEW p, LogValidation(p),
         p \notin {"starting", "sync", "lastSync", "raised"},
         fit \notin {"starting", "sync", "lastSync", "raised"}
  PROVE  /\ ReportType' /\ SequenceInv'
         /\ Waiting' = IF valQueue = <<>> THEN Waiting ELSE Waiting - 1
         /\ update' = update /\ mode' = mode /\ valTask' = valTask /\ fit' = p
<1> DEFINE N == Len(logged)
           Q == Len(valQueue)
<1>1. /\ fit' = p /\ UNCHANGED <<mode, queueVersion, update, valTask, current>>
      /\ valQueue = <<>> => UNCHANGED <<valQueue, logged>>
      /\ valQueue # <<>> => valQueue' = Tail(valQueue) /\ logged' = Append(logged, Head(valQueue).version)
  BY DEF LogValidation
<1>2. /\ N \in Nat /\ Q \in Nat /\ valTask \in Int /\ queueVersion \in Nat /\ update \in Update
      /\ valQueue \in Seq(Report) /\ logged \in Seq(Int) /\ Submitted \in 0..1
  BY LenProperties DEF ReportInv, ReportType, Submitted
<1>3. Validating' = Validating /\ Submitted' = Submitted /\ Validating \in 0..1
  BY <1>1 DEF Validating, Submitted
<1>4. CASE valQueue = <<>>
  <2>1. ReportType'
    BY <1>1, <1>4 DEF ReportInv, ReportType
  <2>2. SequenceInv'
    BY <1>1, <1>3, <1>4 DEF ReportInv, SequenceInv
  <2>3. Waiting' = Waiting
    BY <1>1, <1>3, <1>4 DEF Waiting
  <2> QED
    BY <1>1, <1>4, <2>1, <2>2, <2>3
<1>5. CASE valQueue # <<>>
  <2>1. /\ Q >= 1 /\ Tail(valQueue) \in Seq(Report) /\ Len(Tail(valQueue)) = Q - 1
        /\ \A i \in 1..(Q - 1) : Tail(valQueue)[i] = valQueue[i + 1]
        /\ Head(valQueue) = valQueue[1] /\ Head(valQueue) \in Report
    BY <1>2, <1>5, HeadTailProperties, LenProperties, EmptySeq
  <2>2. \A i \in 1..Q : valQueue[i].version = N + i - 1
    BY DEF ReportInv, SequenceInv
  <2>3. Head(valQueue).version = N
    BY <1>2, <2>1, <2>2
  <2>4. /\ logged' \in Seq(Int) /\ Len(logged') = N + 1
        /\ \A i \in 1..N : logged'[i] = logged[i]
        /\ logged'[N + 1] = N
    <3>1. logged' = Append(logged, N)
      BY <1>1, <1>5, <2>3
    <3> QED
      BY <1>2, <3>1, AppendProperties
  <2>5. ReportType'
    BY <1>1, <1>5, <2>1, <2>4 DEF ReportInv, ReportType
  <2>6. \A i \in 1..(N + 1) : logged'[i] = i - 1
    <3>1. \A i \in 1..N : logged[i] = i - 1
      BY DEF ReportInv, SequenceInv
    <3>2. ASSUME NEW i \in 1..(N + 1) PROVE logged'[i] = i - 1
      <4>1. CASE i \in 1..N
        BY <2>4, <3>1, <4>1
      <4>2. CASE i = N + 1
        <5>1. i - 1 = N
          BY <1>2, <4>2
        <5> QED
          BY <2>4, <4>2, <5>1
      <4> HIDE DEF N
      <4> QED
        BY <1>2, <4>1, <4>2
    <3> QED
      BY <3>2
  <2>7. Len(valQueue') = Q - 1 /\ \A i \in 1..(Q - 1) : valQueue'[i].version = N + 1 + i - 1
    <3>1. valQueue' = Tail(valQueue)
      BY <1>1, <1>5
    <3> HIDE DEF N, Q
    <3> QED
      BY <1>2, <2>1, <2>2, <3>1
  <2>8. SequenceInv'
    <3>1. /\ valTask # Absent => valTask = N + Q
          /\ update.state = "submitted" => update.version = N + Q + Validating
          /\ N + Q + Validating + Submitted = IF update.state = "failed" THEN queueVersion ELSE queueVersion + 1
          /\ current = queueVersion
      BY DEF ReportInv, SequenceInv
    <3>2. Len(logged') + Len(valQueue') = N + Q /\ N + 1 = Len(logged')
      BY <1>2, <2>4, <2>7
    <3>3. /\ \A i \in 1..Len(logged') : logged'[i] = i - 1
          /\ \A i \in 1..Len(valQueue') : valQueue'[i].version = Len(logged') + i - 1
      BY <2>4, <2>6, <2>7
    <3> HIDE DEF N, Q
    <3> QED
      BY <1>1, <1>3, <3>1, <3>2, <3>3 DEF SequenceInv
  <2>9. Waiting' = Waiting - 1
    BY <1>2, <1>3, <2>7 DEF Waiting
  <2> QED
    BY <1>1, <1>5, <2>5, <2>8, <2>9
<1> QED
  BY <1>4, <1>5

LEMMA LogsKeep ==
  ASSUME ReportInv, Begin \/ Log \/ Remaining \/ LastLog
  PROVE  ReportInv'
<1>1. \/ fit = "before" /\ update.state = "done" /\ LogValidation("train")
      \/ fit = "log" /\ LogValidation("train")
      \/ fit = "remaining" /\ update.state = "done" /\ LogValidation("lastTrigger")
      \/ fit = "remaining" /\ update.state = "done" /\ LogValidation("ended")
      \/ fit = "lastWait" /\ update.state = "done" /\ LogValidation("ended")
  BY Zenon DEF Begin, Log, Remaining, LastLog, LastValid
<1>2. PICK p \in {"train", "lastTrigger", "ended"} :
        /\ LogValidation(p)
        /\ \/ p = "train" /\ fit \in {"before", "log"}
           \/ p # "train" /\ update.state = "done" /\ fit \in {"remaining", "lastWait"}
  BY <1>1
<1>3. /\ ReportType' /\ SequenceInv'
      /\ Waiting' = IF valQueue = <<>> THEN Waiting ELSE Waiting - 1
      /\ update' = update /\ mode' = mode /\ valTask' = valTask /\ fit' = p
  BY <1>2, Logs
<1>4. BehindInv'
  <2> SUFFICES ASSUME mode.parallel = FALSE PROVE BehindInv'
    BY <1>3 DEF BehindInv
  <2>1. valTask = Absent /\ update.state # "failed"
    BY DEF ReportInv, BehindInv
  <2>2. Len(valQueue) \in Nat /\ Submitted \in 0..1 /\ (valQueue = <<>> => Len(valQueue) = 0)
    BY LenProperties DEF ReportInv, ReportType, Submitted
  <2>3. CASE p = "train"
    <3>1. Waiting <= 2
      BY <1>2, <2>2, <2>3 DEF ReportInv, BehindInv, Waiting
    <3>2. Waiting' <= 1
      BY <1>3, <2>2, <3>1 DEF Waiting
    <3> QED
      BY <1>3, <2>1, <2>3, <3>2 DEF BehindInv
  <2>4. CASE p # "train"
    <3>1. Waiting <= 1 /\ Submitted = 0
      BY <1>2, <2>4 DEF ReportInv, BehindInv, Submitted
    <3>2. Waiting' = 0
      <4>1. CASE valQueue = <<>>
        BY <1>3, <2>2, <3>1, <4>1 DEF Waiting
      <4>2. CASE valQueue # <<>>
        <5>1. Len(valQueue) # 0
          BY <4>2, EmptySeq DEF ReportInv, ReportType
        <5> QED
          BY <1>3, <2>2, <3>1, <4>2, <5>1 DEF Waiting
      <4> QED
        BY <4>1, <4>2
    <3> QED
      BY <1>3, <2>1, <2>4, <3>2 DEF BehindInv
  <2> QED
    BY <2>3, <2>4
<1> QED
  BY <1>3, <1>4 DEF ReportInv

(* A synchronization makes a version, whose report is the last so far. *)
LEMMA SyncKeeps ==
  ASSUME ReportInv, EndTransfer
  PROVE  ReportInv'
<1> DEFINE N == Len(logged)
           Q == Len(valQueue)
<1>0. PICK validate \in BOOLEAN :
        /\ SyncWeights(current, validate)
        /\ UNCHANGED <<mode, valQueue, valTask, current, logged>>
        /\ update.state = "done"
        /\ \/ fit = "starting" /\ fit' = "before"
           \/ fit = "sync" /\ fit' \in {"validating", "log"}
           \/ fit = "lastSync" /\ fit' \in {"validatingLast", "lastWait"}
  <2>1. mode.before \in BOOLEAN
    BY ModesAssumption DEF ReportInv, ReportType
  <2>2. fit = "starting" => current = 0 /\ update.state = "done"
    BY DEF ReportInv, SequenceInv
  <2>3. CASE FirstSync
    BY <2>1, <2>2, <2>3 DEF FirstSync
  <2>4. CASE TriggerSync \/ LastSync
    BY <2>4 DEF TriggerSync, LastSync, Sync, LastValid
  <2> QED
    BY <2>3, <2>4 DEF EndTransfer
<1>1. /\ queueVersion' = current
      /\ update' = [state |-> "submitted", version |-> current, validate |-> validate]
  BY <1>0 DEF SyncWeights
<1>2. /\ N \in Nat /\ Q \in Nat /\ valTask \in Int /\ queueVersion \in Nat /\ update \in Update
      /\ current \in Nat /\ Validating \in 0..1
  BY LenProperties DEF ReportInv, ReportType, Validating
<1>3. /\ Submitted = 0 /\ Submitted' = 1 /\ Validating' = Validating
      /\ update'.state = "submitted" /\ update'.version = current /\ update' \in Update
  BY <1>0, <1>1, <1>2 DEF Submitted, Validating, Update
<1>4. N + Q + Validating = current
  <2>1. CASE fit = "starting"
    <3>1. N = 0 /\ Q = 0 /\ Validating = 0 /\ current = 0
      BY <2>1 DEF ReportInv, SequenceInv, Validating
    <3> QED
      BY <3>1
  <2>2. CASE fit # "starting"
    BY <1>0, <1>2, <1>3, <2>2 DEF ReportInv, SequenceInv
  <2> QED
    BY <2>1, <2>2
<1>5. ReportType'
  BY <1>0, <1>1, <1>2, <1>3 DEF ReportInv, ReportType
<1>6. SequenceInv'
  BY <1>0, <1>1, <1>2, <1>3, <1>4 DEF ReportInv, SequenceInv
<1>7. BehindInv'
  <2> SUFFICES ASSUME mode.parallel = FALSE PROVE BehindInv'
    BY <1>0 DEF BehindInv
  <2>1. Waiting' = Waiting + 1
    BY <1>0, <1>2, <1>3 DEF Waiting
  <2>2. fit = "starting" => Waiting = 0
    BY <1>3 DEF ReportInv, SequenceInv, Waiting
  <2>3. Waiting \in Nat
    BY <1>2, <1>3 DEF Waiting
  <2> QED
    BY <1>0, <1>3, <2>1, <2>2, <2>3 DEF ReportInv, BehindInv
<1> QED
  BY <1>5, <1>6, <1>7 DEF ReportInv

LEMMA ReportStep ==
  ASSUME ReportInv, InTurn, [SyncNext]_syncVars
  PROVE  ReportInv'
<1>1. CASE Remote(UpdateParamVersion)
  BY <1>1, ReportsKept DEF Remote
<1>2. CASE Remote(DoValidate)
  BY <1>2, ValidatedKeeps DEF Remote
<1>3. CASE EndTransfer
  BY <1>3, SyncKeeps
<1>4. CASE Begin \/ Log \/ Remaining \/ LastLog
  BY <1>4, LogsKeep
<1>5. ASSUME UNCHANGED <<mode, valQueue, logged, update, queueVersion, valTask, current, fit>>
      PROVE  ReportInv'
  <2>1. Validating' = Validating /\ Submitted' = Submitted /\ Waiting' = Waiting
    BY <1>5 DEF Validating, Submitted, Waiting
  <2> QED
    BY <1>5, <2>1 DEF ReportInv, ReportType, SequenceInv, BehindInv
<1>6. CASE BeginTransfer \/ Transfer \/ Remote(ValidateProcess) \/ UNCHANGED syncVars
  BY <1>5, <1>6 DEF BeginTransfer, Transfer, Remote, ValidateProcess, syncVars, valVars
<1>7. CASE Train
  <2>1. /\ fit = "train" /\ UNCHANGED <<mode, valQueue, logged, update, queueVersion, valTask>>
        /\ \/ fit' = "log" /\ current' = current
           \/ fit' = "sync" /\ current' = current + 1
    BY <1>7 DEF Train
  <2>2. current \in Nat /\ current = queueVersion
    BY <2>1 DEF ReportInv, ReportType, SequenceInv
  <2>3. mode.parallel = FALSE => Waiting <= 1 /\ Waiting \in Nat
    BY <2>1, LenProperties DEF ReportInv, ReportType, BehindInv, Waiting, Submitted
  <2>4. mode.parallel = FALSE => Waiting <= 1 /\ Waiting <= 2
    BY <2>3
  <2>5. CASE fit' = "log"
    <3>1. current' = queueVersion /\ current' \in Nat
      BY <2>1, <2>2, <2>5
    <3> QED
      BY <2>1, <2>4, <2>5, <3>1, FitMoves
  <2>6. CASE fit' = "sync"
    <3>1. current' = queueVersion + 1 /\ current' \in Nat
      BY <2>1, <2>2, <2>6
    <3> QED
      BY <2>1, <2>4, <2>6, <3>1, FitMoves
  <2> QED
    BY <2>1, <2>5, <2>6
<1>8. CASE OwnValidation \/ Finish
  <2>1. /\ UNCHANGED <<mode, valQueue, logged, update, queueVersion, valTask, current>>
        /\ \/ fit = "validating" /\ fit' = "log"
           \/ fit = "validatingLast" /\ fit' = "lastWait"
           \/ fit = "train" /\ fit' = "remaining"
    BY <1>8 DEF OwnValidation, Finish
  <2>2. current \in Nat /\ current = queueVersion
    BY <2>1 DEF ReportInv, ReportType, SequenceInv
  <2>3. mode.parallel = FALSE => (fit = "validating" => Waiting <= 2) /\ (fit # "validating" => Waiting <= 1)
    BY <2>1 DEF ReportInv, BehindInv
  <2>4. /\ current' = queueVersion /\ current' \in Nat
        /\ fit # "starting" /\ fit' \in {"log", "lastWait", "remaining"}
        /\ mode.parallel = FALSE => (fit' # "log" => Waiting <= 1) /\ (fit' = "log" => Waiting <= 2)
    <3>1. mode.parallel = FALSE => (fit' # "log" => Waiting <= 1) /\ (fit' = "log" => Waiting <= 2)
      BY <2>1, <2>3
    <3> QED
      BY <2>1, <2>2, <3>1
  <2> QED
    BY <2>1, <2>4, FitMoves
<1>9. CASE LastTrigger
  <2>1. /\ fit = "lastTrigger" /\ fit' = "lastSync" /\ current' = current + 1
        /\ UNCHANGED <<mode, valQueue, logged, update, queueVersion, valTask>>
    BY <1>9 DEF LastTrigger
  <2>2. current \in Nat /\ current = queueVersion
    BY <2>1 DEF ReportInv, ReportType, SequenceInv
  <2>3. mode.parallel = FALSE => Waiting = 0
    BY <2>1 DEF ReportInv, BehindInv
  <2>4. current' = queueVersion + 1 /\ current' \in Nat
    BY <2>1, <2>2
  <2> QED
    BY <2>1, <2>3, <2>4, FitMoves
<1>10. CASE Raise
  <2>1. /\ fit # "starting" /\ fit' = "raised"
        /\ UNCHANGED <<mode, valQueue, logged, update, queueVersion, valTask, current>>
    BY <1>10 DEF Raise
  <2>2. current \in Nat
    BY DEF ReportInv, ReportType
  <2> QED
    BY <2>1, <2>2, FitMoves
<1> QED
  BY <1>1, <1>2, <1>3, <1>4, <1>6, <1>7, <1>8, <1>9, <1>10 DEF SyncNext, FitStep, TrainStep

(* The reports of all versions are logged, each once and in order, and none is   *)
(* left when fit() returns, although the trainer takes at most one after a step   *)
(* and waits for few of them (fully_async_trainer.py, _log_validation_data).      *)
THEOREM AllReported ==
  ASSUME InTurn
  PROVE  SyncSpec => []Reported
<1>1. ReportInv => Reported
  <2> SUFFICES ASSUME ReportInv PROVE Reported
    OBVIOUS
  <2>1. /\ Len(logged) \in Nat /\ Len(valQueue) \in Nat /\ queueVersion \in Nat /\ current \in Nat
        /\ valQueue \in Seq(Report) /\ Validating \in 0..1 /\ Submitted \in 0..1
    BY LenProperties DEF ReportInv, ReportType, Validating, Submitted
  <2>2. \A i \in 1..Len(logged) : logged[i] = i - 1
    BY DEF ReportInv, SequenceInv
  <2>3. ASSUME fit = "ended", mode.parallel = FALSE
        PROVE  Len(logged) = current + 1 /\ valQueue = <<>>
    <3>1. Waiting = 0 /\ valTask = Absent /\ update.state # "failed"
      BY <2>3 DEF ReportInv, BehindInv
    <3>2. Len(valQueue) = 0 /\ Submitted = 0
      BY <2>1, <3>1 DEF Waiting
    <3>3. Validating = 0
      BY <3>1 DEF Validating
    <3>4. Len(logged) + Len(valQueue) + Validating + Submitted = queueVersion + 1 /\ current = queueVersion
      BY <2>3, <3>1 DEF ReportInv, SequenceInv
    <3> QED
      BY <2>1, <3>2, <3>3, <3>4, EmptySeq
  <2>4. ASSUME NEW i \in 1..Len(valQueue) PROVE valQueue[i].version <= queueVersion
    <3>1. valQueue[i].version = Len(logged) + i - 1 /\ fit # "starting"
      BY <2>1, <2>4 DEF ReportInv, SequenceInv
    <3>2. Len(logged) + Len(valQueue) + Validating + Submitted <= queueVersion + 1
      BY <2>1, <3>1 DEF ReportInv, SequenceInv
    <3> QED
      BY <2>1, <3>1, <3>2
  <2>5. mode.parallel \in BOOLEAN
    BY ModesAssumption DEF ReportInv, ReportType
  <2>6. fit = "ended" /\ ~mode.parallel => Len(logged) = current + 1 /\ valQueue = <<>>
    BY <2>3, <2>5, Zenon
  <2> QED
    BY <2>2, <2>4, <2>6 DEF Reported
<1> QED
  BY <1>1, ReportStart, ReportStep, PTL DEF SyncSpec

-----------------------------------------------------------------------------
(* The transfers of fit(): the version is a number, so they are transfers of   *)
(* WeightTransfer.                                                              *)

ActorInv == actor \in Weights /\ mode \in Modes /\ step \in 1..mode.trigger

LEMMA TrainTyped ==
  ASSUME ActorInv, TrainStep
  PROVE  ActorInv'
<1> DEFINE before == Proximal(actor, step)
           rest == AfterProximal(before, step)
           after == Reloaded(rest)
           next == [after EXCEPT !.heap[after.param] = @ + 1]
<1>1. actor' = next /\ mode' = mode
  BY DEF TrainStep, TrainWeights, Train
<1>2. /\ mode.trigger \in Nat \ {0} /\ mode.trigger <= MaxTrigger /\ MaxTrigger \in Nat \ {0}
      /\ step \in 1..MaxTrigger /\ 1 \in 1..MaxTrigger /\ actor \in Weights
  BY ModesAssumption, TriggerAssumption, ActorAssumption DEF ActorInv
<1>3. step' \in 1..mode'.trigger
  <2>1. step' = IF step < mode.trigger THEN step + 1 ELSE 1
    BY DEF TrainStep, Train
  <2> QED
    BY <1>1, <1>2, <2>1 DEF ActorInv
<1>4. ASSUME NEW w \in Weights, NEW n \in 1..MaxTrigger PROVE RestoredFrom(w, n) \in Weights
  <2>1. CASE w.saved[n] = NotSaved
    BY <2>1 DEF RestoredFrom
  <2>2. CASE w.saved[n] \in Storage
    BY <2>2, RestoredKeeps
  <2> QED
    BY <2>1, <2>2 DEF Weights
<1>5. ASSUME NEW w \in Weights, NEW n \in 1..MaxTrigger PROVE Saved(w, n) \in Weights
  BY SavedKeeps, Zenon DEF SavedAs
<1> HIDE DEF before, rest, after, next
<1>6. before \in Weights
  <2>1. CASE step = 1
    BY <1>2, <1>5, <2>1 DEF before, Proximal, Snapshot
  <2>2. CASE step # 1
    <3>1. before = RestoredFrom(Saved(actor, step), 1)
      BY <2>2, Zenon DEF before, Proximal
    <3> QED
      BY <1>2, <1>4, <1>5, <3>1, Zenon
  <2> QED
    BY <2>1, <2>2
<1>7. rest \in Weights
  <2>1. Reloaded(before) \in Weights
    BY <1>6, ReloadedKeeps, Zenon
  <2>2. CASE step = 1
    BY <2>1, <2>2 DEF rest, AfterProximal
  <2>3. CASE step # 1
    <3>1. rest = Cleared(RestoredFrom(Reloaded(before), step), step)
      BY <2>3, Zenon DEF rest, AfterProximal
    <3>2. RestoredFrom(Reloaded(before), step) \in Weights
      BY <1>2, <1>4, <2>1, Zenon
    <3> QED
      BY <1>2, <3>1, <3>2, ClearedKeeps, Zenon
  <2> QED
    BY <2>2, <2>3
<1>8. after \in Weights
  BY <1>7, ReloadedKeeps, Zenon DEF after
<1>9. next \in Weights
  BY <1>8, UpdatedKeeps DEF next
<1> QED
  BY <1>1, <1>3, <1>9 DEF ActorInv

LEMMA ActorStep == ActorInv /\ [SyncNext]_syncVars => ActorInv'
<1> SUFFICES ASSUME ActorInv, [SyncNext]_syncVars PROVE ActorInv'
  OBVIOUS
<1>1. CASE TrainStep
  BY <1>1, TrainTyped
<1>2. CASE EndTransfer
  <2>1. UNCHANGED <<mode, step>> /\ actor' = Reloaded(actor)
    BY <1>2 DEF EndTransfer, Synced, FirstSync, TriggerSync, LastSync, Sync
  <2> QED
    BY <2>1, ReloadedKeeps DEF ActorInv
<1>3. CASE UNCHANGED <<actor, mode, step>>
  BY <1>3 DEF ActorInv
<1>4. CASE BeginTransfer \/ Transfer \/ UNCHANGED syncVars
  BY <1>3, <1>4 DEF BeginTransfer, Transfer, valVars, actorVars, syncVars
<1>5. CASE Remote(UpdateParamVersion) \/ Remote(DoValidate) \/ Remote(ValidateProcess)
  BY <1>3, <1>5 DEF Remote, UpdateParamVersion, DoValidate, ValidateProcess, actorVars
<1>6. CASE /\ Begin \/ OwnValidation \/ Log \/ Finish \/ Remaining \/ LastLog \/ Raise
           /\ UNCHANGED actorVars
  BY <1>3, <1>6 DEF Begin, OwnValidation, Log, Finish, Remaining, LastLog, Raise, LogValidation, actorVars
<1>7. CASE LastTrigger /\ UNCHANGED actorVars
  BY <1>7, ModesAssumption DEF LastTrigger, ActorInv, actorVars
<1> QED
  BY <1>1, <1>2, <1>4, <1>5, <1>6, <1>7 DEF SyncNext, FitStep

LEMMA FitTransfers == ActorInv /\ [SyncNext]_syncVars => [TransferNext]_transferVars
<1> SUFFICES ASSUME ActorInv, [SyncNext]_syncVars PROVE [TransferNext]_transferVars
  OBVIOUS
<1>1. CASE BeginTransfer
  <2>1. actor.heap[actor.param] \in Nat
    BY DEF ActorInv, Weights
  <2> QED
    BY <1>1, <2>1 DEF BeginTransfer, TransferNext
<1>2. CASE Transfer
  BY <1>2 DEF Transfer, TransferNext
<1>3. CASE UNCHANGED transferVars
  BY <1>3
<1>4. CASE EndTransfer \/ TrainStep \/ UNCHANGED syncVars
  BY <1>3, <1>4 DEF EndTransfer, TrainStep, syncVars
<1> QED
  BY <1>1, <1>2, <1>3, <1>4 DEF SyncNext, FitStep, Remote

(* So it is with every transfer of the trainer's fit(), at the first             *)
(* synchronization, those triggered and the last one (sync_weights): they are     *)
(* begun when the last one is through.                                            *)
THEOREM FitDelivers == SyncSpec => []WeightsWhole
<1>1. SyncInit => TransferInv /\ CoverInv /\ ActorInv
  BY InitHolds, CoverStart, PolicyStart DEF SyncInit, PolicyInv, ActorInv
<1>2. TransferInv /\ CoverInv => WeightsWhole
  BY LoadedWhole, CoveredIsDelivered DEF WeightsWhole
<1>3. /\ TransferInv /\ CoverInv /\ ActorInv
      /\ [SyncNext]_syncVars
      => (TransferInv /\ CoverInv /\ ActorInv)'
  BY FitTransfers, StepKeeps, CoverStep, ActorStep
<1> QED
  BY <1>1, <1>2, <1>3, PTL DEF SyncSpec
=============================================================================
