--------------------------- MODULE ResponsesProofs ---------------------------
(* Theorems about RewardLoop, for any requests, limiters, processes and        *)
(* containers: the rate of every limiter, and the existence of every container *)
(* a program runs in; and about DataDispatch, for any ranks, batches and       *)
(* limits: the rows of a call come back, no worker waits in vain for another,  *)
(* and every token has the advantage that is due to it.                        *)
EXTENDS RewardLoop, DataDispatch, PartitionProofs

(* What a limiter may let through at once. *)
Burst(l) == IF Oversize(l) THEN Limits[l].cost ELSE Limits[l].max

LimiterType ==
  /\ bucket \in [Limiters -> [tokens : Int, elapsed : Nat]]
  /\ sleep \in [Requests -> [left : Nat, paid : SUBSET Limiters]]
  /\ level \in [Limiters -> Nat]

(* What the bucket has is not in the level; a bucket for small requests does *)
(* not go into debt.                                                          *)
BucketInv(l) ==
  /\ bucket[l].tokens <= Limits[l].max
  /\ ~Oversize(l) => bucket[l].tokens >= 0
  /\ level[l] <= Burst(l)
  /\ level[l] <= Burst(l) - Refilled(l)

(* Who sleeps off a payment sleeps until the balance is back at zero, or     *)
(* less long; by then nothing of the level is left; and two of them are let   *)
(* through a whole cost apart.                                                *)
Pays(r, l) == sleep[r].paid = {l}
DebtInv(l) ==
  /\ \A r \in Requests : Pays(r, l) =>
       /\ Oversize(l)
       /\ Refilled(l) <= -sleep[r].left
       /\ level[l] <= sleep[r].left
  /\ \A r, s \in Requests : r # s /\ Pays(r, l) /\ Pays(s, l) =>
       \/ sleep[r].left - sleep[s].left >= Limits[l].cost
       \/ sleep[s].left - sleep[r].left >= Limits[l].cost

LimiterInv == LimiterType /\ \A l \in Limiters : BucketInv(l) /\ DebtInv(l)
-----------------------------------------------------------------------------
(* A limiter's numbers are numbers. *)
LEMMA LimitsType ==
  ASSUME NEW l \in Limiters
  PROVE  Limits[l].max \in Nat \ {0} /\ Limits[l].cost \in Nat \ {0}
BY LimitsAssumption

LEMMA InitHolds == LimiterInit => LimiterInv
<1> SUFFICES ASSUME LimiterInit PROVE LimiterInv
  OBVIOUS
<1>1. LimiterType
  BY LimitsAssumption DEF LimiterInit, LimiterType, Awake
<1>2. ASSUME NEW l \in Limiters PROVE BucketInv(l) /\ DebtInv(l)
  <2>1. bucket[l] = [tokens |-> Limits[l].max, elapsed |-> 0] /\ level[l] = 0
    BY DEF LimiterInit
  <2>2. BucketInv(l)
    BY <2>1, LimitsType DEF BucketInv, Burst, Oversize, Refilled, Lesser
  <2>3. \A r \in Requests : ~Pays(r, l)
    BY DEF LimiterInit, Awake, Pays
  <2> QED
    BY <2>2, <2>3 DEF DebtInv
<1> QED
  BY <1>1, <1>2 DEF LimiterInv

(* A request within the capacity that pays takes from the bucket what it adds *)
(* to the level.                                                              *)
LEMMA PayNowKeeps ==
  ASSUME LimiterInv, NEW r \in Requests, NEW l \in Limiters, PayNow(r, l)
  PROVE  LimiterInv'
<1> USE DEF PayNow, Counted, Through
<1>1. LimiterType'
  BY LimitsType DEF LimiterInv, LimiterType, Refilled, Lesser, Awake
<1>2. ASSUME NEW k \in Limiters PROVE BucketInv(k)'
  <2>1. CASE k = l
    BY <2>1, LimitsType DEF LimiterInv, LimiterType, BucketInv, Burst, Refilled, Lesser, Oversize, Missing
  <2>2. CASE k # l
    BY <2>2 DEF LimiterInv, LimiterType, BucketInv, Burst, Refilled, Lesser, Oversize
  <2> QED BY <2>1, <2>2
<1>3. ASSUME NEW k \in Limiters PROVE DebtInv(k)'
  <2>1. \A s \in Requests : Pays(s, k)' => s # r /\ Pays(s, k) /\ sleep'[s] = sleep[s]
    BY DEF Pays, Awake, LimiterInv, LimiterType
  <2>2. CASE k = l
    BY <2>1, <2>2 DEF DebtInv, LimiterInv
  <2>3. CASE k # l
    BY <2>1, <2>3 DEF DebtInv, LimiterInv, LimiterType, Refilled, Lesser, Oversize
  <2> QED BY <2>2, <2>3
<1> QED
  BY <1>1, <1>2, <1>3 DEF LimiterInv

(* One that sleeps first changes no number. *)
LEMMA SleepFirstKeeps ==
  ASSUME LimiterInv, NEW r \in Requests, NEW l \in Limiters, SleepFirst(r, l)
  PROVE  LimiterInv'
<1> USE DEF SleepFirst, Counted, Sleeps
<1>1. LimiterType'
  BY LimitsType DEF LimiterInv, LimiterType, Refilled, Lesser, Missing
<1>2. \A k \in Limiters : Refilled(k)' = Refilled(k)
  BY LimitsType DEF LimiterInv, LimiterType, Refilled, Lesser
<1>3. ASSUME NEW k \in Limiters PROVE BucketInv(k)'
  BY <1>2, LimitsType DEF LimiterInv, LimiterType, BucketInv, Burst, Oversize, Refilled, Lesser
<1>4. ASSUME NEW k \in Limiters PROVE DebtInv(k)'
  <2>1. \A s \in Requests : Pays(s, k)' => s # r /\ Pays(s, k) /\ sleep'[s] = sleep[s]
    BY DEF Pays, LimiterInv, LimiterType
  <2> QED
    BY <2>1, <1>2 DEF DebtInv, LimiterInv, Oversize
<1> QED
  BY <1>1, <1>3, <1>4 DEF LimiterInv

(* A larger one goes to the end of those that sleep off their payment. *)
LEMMA PayAheadKeeps ==
  ASSUME LimiterInv, NEW r \in Requests, NEW l \in Limiters, PayAhead(r, l)
  PROVE  LimiterInv'
<1> USE DEF PayAhead, Counted, Sleeps
<1>1. LimiterType'
  BY LimitsType DEF LimiterInv, LimiterType, Refilled, Lesser, Missing, Debt, Oversize
<1>2. Refilled(l)' = Refilled(l) - Limits[l].cost /\ Refilled(l) \in Int
  BY LimitsType DEF LimiterInv, LimiterType, Refilled, Lesser, Debt
<1>3. \A k \in Limiters \ {l} : Refilled(k)' = Refilled(k) /\ bucket'[k] = bucket[k]
  BY DEF LimiterInv, LimiterType, Refilled, Lesser
<1>4. ASSUME NEW k \in Limiters PROVE BucketInv(k)'
  <2>1. CASE k = l
    BY <2>1, <1>2, LimitsType DEF LimiterInv, LimiterType, BucketInv, Burst, Oversize, Refilled, Lesser, Debt
  <2>2. CASE k # l
    BY <2>2, <1>3 DEF LimiterInv, BucketInv, Burst, Oversize
  <2> QED BY <2>1, <2>2
<1>5. ASSUME NEW k \in Limiters PROVE DebtInv(k)'
  <2>1. CASE k # l
    <3>1. \A s \in Requests : Pays(s, k)' => Pays(s, k) /\ sleep'[s] = sleep[s]
      BY <2>1 DEF Pays, LimiterInv, LimiterType
    <3> QED
      BY <2>1, <3>1, <1>3 DEF DebtInv, LimiterInv, Oversize
  <2>2. CASE k = l
    <3>1. sleep'[r].left = Limits[l].cost - Refilled(l)
      BY DEF Missing, LimiterInv, LimiterType
    <3>2. \A s \in Requests : s # r /\ Pays(s, l)' =>
            Pays(s, l) /\ sleep'[s] = sleep[s] /\ Refilled(l) <= -sleep[s].left
      BY DEF Pays, LimiterInv, LimiterType, DebtInv
    <3>3. \A s \in Requests : sleep[s].left \in Nat
      BY DEF LimiterInv, LimiterType
    <3>4. \A s \in Requests : s # r /\ Pays(s, l)' =>
            sleep'[r].left - sleep'[s].left >= Limits[l].cost
      BY <3>1, <3>2, <3>3, <1>2, LimitsType
    <3>5. \A s \in Requests : Pays(s, l)' =>
            Refilled(l)' <= -sleep'[s].left /\ level'[l] <= sleep'[s].left
      <4>1. level[l] \in Nat /\ level[l] <= Limits[l].cost - Refilled(l)
        BY DEF LimiterInv, LimiterType, BucketInv, Burst
      <4>2. ASSUME NEW s \in Requests, Pays(s, l)', s # r
            PROVE  Refilled(l)' <= -sleep'[s].left /\ level'[l] <= sleep'[s].left
        BY <4>2, <3>2, <3>3, <1>2, LimitsType DEF LimiterInv, DebtInv
      <4> QED
        BY <4>1, <4>2, <3>1, <1>2, LimitsType
    <3>6. \A s, t \in Requests : s # t /\ Pays(s, l)' /\ Pays(t, l)' =>
            \/ sleep'[s].left - sleep'[t].left >= Limits[l].cost
            \/ sleep'[t].left - sleep'[s].left >= Limits[l].cost
      BY <3>2, <3>4 DEF LimiterInv, DebtInv
    <3> QED
      BY <2>2, <3>5, <3>6 DEF DebtInv, Oversize
  <2> QED BY <2>1, <2>2
<1> QED
  BY <1>1, <1>4, <1>5 DEF LimiterInv

(* Who has slept off a payment finds a level of zero, and those behind him    *)
(* sleep at least as long as it takes to fall again.                          *)
LEMMA SleptOffKeeps ==
  ASSUME LimiterInv, NEW r \in Requests, NEW l \in Limiters, SleptOff(r, l)
  PROVE  LimiterInv'
<1> USE DEF SleptOff, Through
<1>1. LimiterType'
  BY LimitsType DEF LimiterInv, LimiterType, Awake
<1>2. \A k \in Limiters : Refilled(k)' = Refilled(k) /\ Refilled(k) \in Int
  BY LimitsType DEF LimiterInv, LimiterType, Refilled, Lesser
<1>3. Pays(r, l) /\ Oversize(l) /\ level[l] = 0 /\ Refilled(l) <= 0
  <2>1. Pays(r, l) /\ sleep[r].left = 0
    BY DEF Pays
  <2>2. level[l] \in Nat /\ DebtInv(l)
    BY DEF LimiterInv, LimiterType
  <2>3. Oversize(l) /\ Refilled(l) <= -sleep[r].left /\ level[l] <= sleep[r].left
    BY <2>1, <2>2 DEF DebtInv
  <2> QED
    BY <2>1, <2>2, <2>3, <1>2
<1>4. level'[l] = Limits[l].cost /\ \A k \in Limiters \ {l} : level'[k] = level[k]
  BY <1>3, LimitsType DEF LimiterInv, LimiterType
<1>5. ASSUME NEW k \in Limiters PROVE BucketInv(k)'
  <2>1. CASE k = l
    BY <2>1, <1>2, <1>3, <1>4, LimitsType DEF LimiterInv, BucketInv, Burst, Oversize
  <2>2. CASE k # l
    BY <2>2, <1>2, <1>4 DEF LimiterInv, BucketInv, Burst, Oversize
  <2> QED BY <2>1, <2>2
<1>6. ASSUME NEW k \in Limiters PROVE DebtInv(k)'
  <2>1. \A s \in Requests : Pays(s, k)' => s # r /\ Pays(s, k) /\ sleep'[s] = sleep[s]
    BY DEF Pays, Awake, LimiterInv, LimiterType
  <2>2. CASE k = l
    <3>1. \A s \in Requests : Pays(s, l)' => sleep[s].left >= Limits[l].cost
      <4> SUFFICES ASSUME NEW s \in Requests, Pays(s, l)'
                   PROVE  sleep[s].left >= Limits[l].cost
        OBVIOUS
      <4>1. s # r /\ Pays(s, l)
        BY <2>1, <2>2
      <4>2. sleep[r].left = 0 /\ sleep[s].left \in Nat
        BY DEF LimiterInv, LimiterType
      <4> QED
        BY <4>1, <4>2, <1>3, LimitsType DEF LimiterInv, DebtInv
    <3> QED
      BY <2>1, <2>2, <3>1, <1>2, <1>3, <1>4 DEF LimiterInv, DebtInv, Oversize
  <2>3. CASE k # l
    BY <2>1, <2>3, <1>2, <1>4 DEF LimiterInv, DebtInv, Oversize
  <2> QED BY <2>2, <2>3
<1> QED
  BY <1>1, <1>5, <1>6 DEF LimiterInv

(* In a tick the level falls by as much as the bucket gains, and everybody    *)
(* that sleeps off a payment comes closer by as much.                         *)
LEMMA TickKeeps ==
  ASSUME LimiterInv, Tick
  PROVE  LimiterInv'
<1> USE DEF Tick
<1>1. LimiterType'
  <2>1. bucket' \in [Limiters -> [tokens : Int, elapsed : Nat]]
    <3> SUFFICES ASSUME NEW l \in Limiters
                 PROVE  [bucket[l] EXCEPT !.elapsed = IF Full(l) THEN @ ELSE @ + 1]
                          \in [tokens : Int, elapsed : Nat]
      OBVIOUS
    <3>1. bucket[l] \in [tokens : Int, elapsed : Nat]
      BY DEF LimiterInv, LimiterType
    <3> QED BY <3>1
  <2>2. sleep' \in [Requests -> [left : Nat, paid : SUBSET Limiters]]
    <3> SUFFICES ASSUME NEW r \in Requests
                 PROVE  [sleep[r] EXCEPT !.left = IF @ > 0 THEN @ - 1 ELSE 0]
                          \in [left : Nat, paid : SUBSET Limiters]
      OBVIOUS
    <3>1. sleep[r] \in [left : Nat, paid : SUBSET Limiters]
      BY DEF LimiterInv, LimiterType
    <3> QED BY <3>1
  <2>3. level' \in [Limiters -> Nat]
    BY DEF LimiterInv, LimiterType
  <2> QED
    BY <2>1, <2>2, <2>3 DEF LimiterType
<1>2. ASSUME NEW l \in Limiters
      PROVE  /\ Refilled(l) \in Int
             /\ Refilled(l)' = IF Refilled(l) < Limits[l].max THEN Refilled(l) + 1
                                                             ELSE Limits[l].max
             /\ Refilled(l) <= Limits[l].max
             /\ bucket'[l].tokens = bucket[l].tokens
             /\ level'[l] = IF level[l] > 0 THEN level[l] - 1 ELSE 0
  <2>1. bucket[l] \in [tokens : Int, elapsed : Nat]
    BY DEF LimiterInv, LimiterType
  <2>2. /\ bucket'[l].tokens = bucket[l].tokens
        /\ bucket'[l].elapsed = IF Full(l) THEN bucket[l].elapsed ELSE bucket[l].elapsed + 1
    BY <2>1
  <2>3. level'[l] = IF level[l] > 0 THEN level[l] - 1 ELSE 0
    OBVIOUS
  <2> HIDE DEF Tick
  <2>4. CASE Full(l)
    BY <2>1, <2>2, <2>3, <2>4, LimitsType DEF Refilled, Lesser, Full
  <2>5. CASE ~Full(l)
    BY <2>1, <2>2, <2>3, <2>5, LimitsType DEF Refilled, Lesser, Full
  <2> QED
    BY <2>4, <2>5
<1>3. ASSUME NEW l \in Limiters PROVE BucketInv(l)'
  <2>1. level[l] \in Nat
    BY DEF LimiterInv, LimiterType
  <2> QED
    BY <1>2, <2>1, LimitsType DEF LimiterInv, BucketInv, Burst, Oversize
<1>4. ASSUME NEW l \in Limiters PROVE DebtInv(l)'
  <2>1. \A r \in Requests : Pays(r, l)' =>
          Pays(r, l) /\ sleep[r].left > 0 /\ sleep'[r].left = sleep[r].left - 1
    <3> SUFFICES ASSUME NEW r \in Requests, Pays(r, l)'
                 PROVE  Pays(r, l) /\ sleep[r].left > 0 /\ sleep'[r].left = sleep[r].left - 1
      OBVIOUS
    <3>1. sleep[r] \in [left : Nat, paid : SUBSET Limiters]
      BY DEF LimiterInv, LimiterType
    <3>2. /\ sleep'[r].paid = sleep[r].paid
          /\ sleep'[r].left = IF sleep[r].left > 0 THEN sleep[r].left - 1 ELSE 0
      BY <3>1
    <3>3. Pays(r, l)
      BY <3>2 DEF Pays
    <3>4. sleep[r].left # 0
      BY <3>3 DEF Pays, Due
    <3> QED
      BY <3>1, <3>2, <3>3, <3>4
  <2>2. ASSUME NEW r \in Requests, Pays(r, l)'
        PROVE  Oversize(l) /\ Refilled(l)' <= -sleep'[r].left /\ level'[l] <= sleep'[r].left
    <3>1. /\ Oversize(l) /\ Refilled(l) <= -sleep[r].left /\ level[l] <= sleep[r].left
          /\ sleep[r].left \in Nat /\ level[l] \in Nat
      BY <2>1, <2>2 DEF LimiterInv, LimiterType, DebtInv
    <3> QED
      BY <2>1, <2>2, <3>1, <1>2, LimitsType
  <2>3. ASSUME NEW r \in Requests, NEW s \in Requests, r # s, Pays(r, l)', Pays(s, l)'
        PROVE  \/ sleep'[r].left - sleep'[s].left >= Limits[l].cost
               \/ sleep'[s].left - sleep'[r].left >= Limits[l].cost
    <3>1. sleep[r].left \in Nat /\ sleep[s].left \in Nat
      BY DEF LimiterInv, LimiterType
    <3> QED
      BY <2>1, <2>3, <3>1, LimitsType DEF LimiterInv, DebtInv
  <2> QED
    BY <2>2, <2>3 DEF DebtInv, Oversize
<1> QED
  BY <1>1, <1>3, <1>4 DEF LimiterInv

(* Steps that leave the limiters alone. *)
LEMMA LimitersIdle == LimiterInv /\ UNCHANGED limiterVars => LimiterInv'
BY DEF limiterVars, LimiterInv, LimiterType, BucketInv, DebtInv, Pays, Burst, Refilled, Oversize

(* A request never counts beyond the limiters of its process. *)
PassedInv == passed \in [Requests -> Nat]

LEMMA PassedStep == PassedInv /\ [Next]_vars => PassedInv'
BY DEF PassedInv, Next, vars, Throttle, Acquire, Start, Answer, Timeout, Score, Time

(* The requests of RewardLoop change the limiters only by the steps above. *)
LEMMA LimiterStep == PassedInv /\ LimiterInv /\ [Next]_vars => LimiterInv'
<1> SUFFICES ASSUME PassedInv, LimiterInv, [Next]_vars PROVE LimiterInv'
  OBVIOUS
<1>1. ASSUME NEW r \in Requests, Throttle(r) PROVE LimiterInv'
  <2> DEFINE l == Order(r)[passed[r] + 1]
  <2>1. l \in Limiters
    <3>1. Order(r) \in Seq(Limiters)
      BY PoolAssumption, RequestsAssumption DEF Order
    <3>2. passed[r] + 1 \in 1..Len(Order(r))
      BY <1>1, <3>1 DEF Throttle, PassedInv
    <3> QED
      BY <3>1, <3>2
  <2>2. SleepFirst(r, l) \/ PayAhead(r, l) \/ PayNow(r, l) \/ SleptOff(r, l)
    BY <1>1 DEF Throttle
  <2> HIDE DEF l
  <2> QED
    BY <2>1, <2>2, PayNowKeeps, SleepFirstKeeps, PayAheadKeeps, SleptOffKeeps
<1>2. ASSUME Time PROVE LimiterInv'
  BY <1>2, TickKeeps DEF Time
<1>3. ASSUME UNCHANGED limiterVars PROVE LimiterInv'
  BY <1>3, LimitersIdle
<1> QED
  BY <1>1, <1>2, <1>3 DEF Next, Acquire, Start, Answer, Timeout, Score, vars

(* The rate bound for every window: whatever the capacities, the costs, the   *)
(* processes and the order of their limiters (AsyncTokenBucket.acquire).      *)
THEOREM RateKept == Spec => []RateBound
<1>1. Init => PassedInv /\ LimiterInv
  BY InitHolds DEF Init, PassedInv
<1>2. LimiterInv => RateBound
  BY DEF LimiterInv, BucketInv, Burst, RateBound
<1> QED
  BY <1>1, <1>2, PassedStep, LimiterStep, PTL DEF Spec
-----------------------------------------------------------------------------
Places == {"idle", "choose", "look", "lock", "create", "setup", "check", "wait", "run", "ended"}

PoolType ==
  /\ container \in [Indices -> {"absent", "created", "ready"}]
  /\ known \in [Processes -> SUBSET Indices]
  /\ counter \in [Processes -> Indices]
  /\ index \in [Threads -> Indices]
  /\ at \in [Threads -> Places]
  /\ errors \in Nat

(* What a process notes, and what a thread goes on with, is there, or was found *)
(* in another's name after a call that failed.                                  *)
There(i) == container[i] # "absent"
Justified(i) == There(i) \/ (errors > 0 /\ FoundInAnother(i))
KnownInv == \A p \in Processes : \A i \in known[p] : Justified(i)
AtInv == \A t \in Threads :
  /\ at[t] = "setup" => There(index[t])
  /\ at[t] = "check" => errors > 0
  /\ at[t] \in {"wait", "run"} => Justified(index[t])

PoolInv == PoolType /\ KnownInv /\ AtInv

\* No step takes a container away or an error back, so what was sound stays so.
Grows ==
  /\ \A i \in Indices : There(i) => There(i)'
  /\ errors > 0 => errors' > 0

LEMMA JustifiedStays ==
  ASSUME Grows, NEW i \in Indices, Justified(i)
  PROVE  Justified(i)'
<1>1. CASE There(i)
  BY <1>1 DEF Grows, Justified
<1>2. CASE errors > 0 /\ FoundInAnother(i)
  BY <1>2 DEF Grows, Justified, FoundInAnother, There
<1> QED
  BY <1>1, <1>2 DEF Justified

\* Every step of a thread lets containers and errors grow.
LEMMA StepGrows ==
  ASSUME PoolType, NEW t \in Threads, PoolStep(t)
  PROVE  Grows /\ errors' \in Nat
<1> USE DEF PoolType, Grows, There
<1>1. CASE Choose(t) \/ Look(t) \/ Lock(t) \/ Check(t) \/ Run(t) \/ RunEnds(t)
  BY <1>1 DEF Choose, Look, Lock, Check, Run, RunEnds
<1>2. CASE Create(t)
  BY <1>2 DEF Create
<1>3. CASE CreateFails(t)
  BY <1>3 DEF CreateFails
<1>4. CASE Setup(t)
  BY <1>4 DEF Setup
<1>5. CASE SetupFails(t)
  BY <1>5 DEF SetupFails
<1> QED
  BY <1>1, <1>2, <1>3, <1>4, <1>5 DEF PoolStep, ThreadStep

\* What a thread of its process notes or goes on with is sound: it created the
\* container, was told of it, or found its name in the list after an error.
LEMMA PoolStepKeeps ==
  ASSUME PoolInv, NEW t \in Threads, PoolStep(t)
  PROVE  PoolInv'
<1>1. Grows /\ errors' \in Nat
  BY StepGrows DEF PoolInv
<1>2. \A i \in Indices : Justified(i) => Justified(i)'
  BY <1>1, JustifiedStays
<1>3. PICK i \in Indices : i = index[t]
  BY DEF PoolInv, PoolType
<1>4. PoolType'
  <2> USE PoolAssumption DEF PoolInv, PoolType, Goes, Places
  <2>1. CASE Choose(t)
    <3>1. (counter[ProcessOf[t]] + 1) % PoolSize \in Indices
      BY DEF Indices
    <3> QED
      BY <1>1, <2>1, <3>1 DEF Choose
  <2>2. CASE Look(t) BY <1>1, <2>2 DEF Look
  <2>3. CASE Lock(t) BY <1>1, <2>3 DEF Lock
  <2>4. CASE Create(t) BY <1>1, <2>4 DEF Create, Notes
  <2>5. CASE CreateFails(t) BY <1>1, <2>5 DEF CreateFails
  <2>6. CASE Setup(t) BY <1>1, <2>6 DEF Setup, Notes
  <2>7. CASE SetupFails(t) BY <1>1, <2>7 DEF SetupFails, Notes
  <2>8. CASE Check(t) BY <1>1, <2>8 DEF Check, Notes
  <2>9. CASE Run(t) \/ RunEnds(t) BY <1>1, <2>9 DEF Run, RunEnds
  <2> QED
    BY <2>1, <2>2, <2>3, <2>4, <2>5, <2>6, <2>7, <2>8, <2>9 DEF PoolStep, ThreadStep
<1>5. \A s \in Threads \ {t} : at'[s] = at[s] /\ index'[s] = index[s]
  <2> USE DEF PoolInv, PoolType, Goes
  <2>1. CASE Choose(t) BY <2>1 DEF Choose
  <2>2. CASE Look(t) BY <2>2 DEF Look
  <2>3. CASE Lock(t) BY <2>3 DEF Lock
  <2>4. CASE Create(t) BY <2>4 DEF Create
  <2>5. CASE CreateFails(t) BY <2>5 DEF CreateFails
  <2>6. CASE Setup(t) \/ Check(t) BY <2>6 DEF Setup, Check
  <2>7. CASE SetupFails(t) BY <2>7 DEF SetupFails
  <2>8. CASE Run(t) \/ RunEnds(t) BY <2>8 DEF Run, RunEnds
  <2> QED
    BY <2>1, <2>2, <2>3, <2>4, <2>5, <2>6, <2>7, <2>8 DEF PoolStep, ThreadStep
<1> DEFINE Noted == known' = known \/ (Notes(t) /\ Justified(i)')
<1> DEFINE Arrived ==
       /\ at'[t] = "setup" => There(i)'
       /\ at'[t] = "check" => errors' > 0
       /\ at'[t] \in {"wait", "run"} => Justified(i)'
<1>6. i \in known[ProcessOf[t]] => Justified(i)'
  BY <1>2, PoolAssumption DEF PoolInv, PoolType, KnownInv
<1>7. CASE Choose(t)
  <2>1. known' = known /\ at'[t] = "look"
    BY <1>7 DEF Choose, Goes, PoolInv, PoolType
  <2>2. KnownInv'
    <3>1. SUFFICES ASSUME NEW p \in Processes, NEW k \in known'[p] PROVE Justified(k)'
      BY DEF KnownInv
    <3>2. k \in known[p] /\ k \in Indices
      BY <2>1 DEF PoolInv, PoolType
    <3> QED
      BY <1>2, <3>2 DEF PoolInv, KnownInv
  <2>3. AtInv'
    <3>1. SUFFICES ASSUME NEW s \in Threads, NEW k \in Indices, k = index'[s]
                   PROVE  /\ at'[s] = "setup" => There(k)'
                          /\ at'[s] = "check" => errors' > 0
                          /\ at'[s] \in {"wait", "run"} => Justified(k)'
      BY <1>4 DEF AtInv, PoolType, There, Justified, FoundInAnother
    <3>2. CASE s = t
      BY <2>1, <3>2
    <3>3. CASE s # t
      <4>1. at'[s] = at[s] /\ index[s] = k
        BY <1>5, <3>1, <3>3
      <4> QED
        BY <1>1, <1>2, <4>1 DEF PoolInv, AtInv, Grows
    <3> QED
      BY <3>2, <3>3
  <2> QED
    BY <1>4, <2>2, <2>3 DEF PoolInv
<1>8. ASSUME index' = index, Noted, Arrived PROVE PoolInv'
  <2>1. KnownInv'
    <3>1. SUFFICES ASSUME NEW p \in Processes, NEW k \in known'[p] PROVE Justified(k)'
      BY DEF KnownInv
    <3>2. k \in known[p] \/ (k = i /\ Justified(i)')
      BY <1>3, <1>8, PoolAssumption DEF Notes, PoolInv, PoolType
    <3> QED
      BY <1>2, <3>2 DEF PoolInv, PoolType, KnownInv
  <2>2. AtInv'
    <3>1. SUFFICES ASSUME NEW s \in Threads, NEW k \in Indices, k = index'[s]
                   PROVE  /\ at'[s] = "setup" => There(k)'
                          /\ at'[s] = "check" => errors' > 0
                          /\ at'[s] \in {"wait", "run"} => Justified(k)'
      BY <1>8 DEF AtInv, PoolInv, PoolType, There, Justified, FoundInAnother
    <3>2. CASE s = t
      BY <1>3, <1>8, <3>1, <3>2
    <3>3. CASE s # t
      <4>1. at'[s] = at[s] /\ index[s] = k
        BY <1>5, <1>8, <3>1, <3>3
      <4> QED
        BY <1>1, <1>2, <4>1 DEF PoolInv, AtInv, Grows
    <3> QED
      BY <3>2, <3>3
  <2> QED
    BY <1>4, <2>1, <2>2 DEF PoolInv
<1> HIDE DEF Noted, Arrived
<1>9. CASE Look(t)
  <2>1. known' = known /\ (at'[t] = "lock" \/ (at'[t] = "wait" /\ i \in known[ProcessOf[t]]))
    BY <1>3, <1>9 DEF Look, Known, Goes, PoolInv, PoolType
  <2> QED
    BY <1>6, <1>8, <1>9, <2>1 DEF Look, Noted, Arrived
<1>10. CASE Lock(t)
  <2>1. known' = known /\ (at'[t] = "create" \/ (at'[t] = "wait" /\ i \in known[ProcessOf[t]]))
    BY <1>3, <1>10 DEF Lock, Known, Goes, PoolInv, PoolType
  <2> QED
    BY <1>6, <1>8, <1>10, <2>1 DEF Lock, Noted, Arrived
<1>11. CASE Create(t)
  <2>1. CASE container[i] = "absent"
    <3>1. known' = known /\ at'[t] = "setup" /\ There(i)'
      BY <1>3, <1>11, <2>1 DEF Create, Goes, There, PoolInv, PoolType
    <3> QED
      BY <1>8, <1>11, <3>1 DEF Create, Noted, Arrived
  <2>2. CASE container[i] # "absent"
    <3>1. Notes(t) /\ at'[t] = "wait"
      BY <1>3, <1>11, <2>2 DEF Create, Goes, PoolInv, PoolType
    <3>2. Justified(i)'
      BY <1>2, <2>2 DEF Justified, There
    <3> QED
      BY <1>8, <1>11, <3>1, <3>2 DEF Create, Noted, Arrived
  <2> QED
    BY <2>1, <2>2
<1>12. CASE CreateFails(t)
  <2>1. known' = known /\ at'[t] = "check" /\ errors' > 0
    BY <1>12 DEF CreateFails, Goes, PoolInv, PoolType
  <2> QED
    BY <1>8, <1>12, <2>1 DEF CreateFails, Noted, Arrived
<1>13. CASE Setup(t)
  <2>1. Notes(t) /\ at'[t] = "wait" /\ There(i)'
    BY <1>3, <1>13 DEF Setup, Goes, There, PoolInv, PoolType
  <2>2. Justified(i)'
    BY <2>1 DEF Justified
  <2> QED
    BY <1>8, <1>13, <2>1, <2>2 DEF Setup, Noted, Arrived
<1>14. CASE SetupFails(t)
  <2>1. There(i) /\ errors' > 0
    BY <1>3, <1>14 DEF SetupFails, PoolInv, PoolType, AtInv
  <2>2. Justified(i)'
    BY <1>2, <2>1 DEF Justified
  <2>3. \/ Notes(t) /\ at'[t] = "wait"
        \/ known' = known /\ at'[t] = "check"
    BY <1>14 DEF SetupFails, Goes, PoolInv, PoolType
  <2> QED
    BY <1>8, <1>14, <2>1, <2>2, <2>3 DEF SetupFails, Noted, Arrived
<1>15. CASE Check(t)
  <2>1. errors > 0
    BY <1>15 DEF Check, PoolInv, AtInv
  <2>2. \/ Listed(i) /\ Notes(t) /\ at'[t] = "wait"
        \/ known' = known /\ at'[t] = "ended"
    BY <1>3, <1>15 DEF Check, Goes, PoolInv, PoolType
  <2>3. Listed(i) => Justified(i)'
    BY <1>2, <2>1 DEF Listed, Justified, There, FoundInAnother
  <2> QED
    BY <1>8, <1>15, <2>2, <2>3 DEF Check, Noted, Arrived
<1>16. CASE Run(t)
  <2>1. known' = known /\ at'[t] = "run" /\ at[t] = "wait"
    BY <1>16 DEF Run, Goes, PoolInv, PoolType
  <2>2. Justified(i)'
    BY <1>2, <1>3, <2>1 DEF PoolInv, AtInv
  <2> QED
    BY <1>8, <1>16, <2>1, <2>2 DEF Run, Noted, Arrived
<1>17. CASE RunEnds(t)
  <2>1. known' = known /\ at'[t] = "ended"
    BY <1>17 DEF RunEnds, Goes, PoolInv, PoolType
  <2> QED
    BY <1>8, <1>17, <2>1 DEF RunEnds, Noted, Arrived
<1> QED
  BY <1>7, <1>9, <1>10, <1>11, <1>12, <1>13, <1>14, <1>15, <1>16, <1>17
     DEF PoolStep, ThreadStep

LEMMA PoolKept == PoolInv /\ [Next]_vars => PoolInv'
<1> SUFFICES ASSUME PoolInv, [Next]_vars PROVE PoolInv'
  OBVIOUS
<1>1. ASSUME NEW r \in Requests, Score(r) PROVE PoolInv'
  BY <1>1, PoolStepKeeps, RequestsAssumption DEF Score
<1>2. ASSUME NEW r \in Requests, Start(r) PROVE PoolInv'
  BY <1>2, RequestsAssumption
     DEF Start, Goes, PoolInv, PoolType, KnownInv, AtInv, Justified, There, FoundInAnother, Places
<1>3. ASSUME UNCHANGED poolVars PROVE PoolInv'
  BY <1>3 DEF poolVars, PoolInv, PoolType, KnownInv, AtInv, Justified, There, FoundInAnother
<1> QED
  BY <1>1, <1>2, <1>3 DEF Next, Throttle, Acquire, Answer, Timeout, Time, vars

(* For any number of processes, threads, containers and failing calls, a     *)
(* program only runs in a container that exists, or under a name that        *)
(* udocker's list showed within another's after a failed call                *)
(* (_ensure_container).                                                       *)
THEOREM ContainerThere == Spec => []ExistsWhenUsed
<1>1. Init => PoolInv
  BY PoolAssumption
     DEF Init, PoolInit, PoolInv, PoolType, KnownInv, AtInv, Places, Indices
<1>2. PoolInv => ExistsWhenUsed
  BY RequestsAssumption DEF PoolInv, AtInv, Justified, There, ExistsWhenUsed
<1> QED
  BY <1>1, <1>2, PoolKept, PTL DEF Spec

-----------------------------------------------------------------------------
(* The workers, their ranks and their chunks *)

\* Ranks are numbered from 0, and each has a worker that returns its output.
LEMMA RankFacts ==
  /\ \A w \in Worker : RankOf(w) \in 0..(Ranks - 1)
  /\ \A i \in 1..Ranks : \E w \in Worker : Collects(w) /\ RankOf(w) = i - 1
<1>0. Ranks \in Nat \ {0} /\ Parallel \in Nat \ {0}
  BY DispatchAssumption
<1>1. PICK last \in Nat : last + 1 = Ranks
  <2>1. Ranks - 1 \in Nat /\ (Ranks - 1) + 1 = Ranks
    BY <1>0
  <2> QED
    BY <2>1
<1>2. PICK a \in Nat : a = last * Parallel
  BY <1>0
<1>3. Ranks * Parallel = a + Parallel
  BY <1>0, <1>1, <1>2
<1>4. ASSUME NEW w \in Worker PROVE RankOf(w) \in 0..(Ranks - 1)
  <2>1. w \in Nat /\ w < a + Parallel
    BY <1>0, <1>3 DEF Worker
  <2>2. PICK q \in Nat : q = w \div Parallel
    BY <1>0, <2>1, DivMod
  <2>3. PICK r \in 0..(Parallel - 1) : r = w % Parallel
    BY <1>0, <2>1, DivMod
  <2>4. PICK b \in Nat : b = q * Parallel
    BY <1>0
  <2>5. w = b + r
    BY <1>0, <2>1, <2>2, <2>3, <2>4, DivMod
  <2>6. ASSUME last < q PROVE FALSE
    <3>1. last * Parallel + Parallel <= q * Parallel
      BY <1>0, <2>6, Groups
    <3>2. a + Parallel <= b
      BY <1>2, <2>4, <3>1
    <3> QED
      BY <1>0, <2>1, <2>5, <3>2
  <2>7. q \in 0..(Ranks - 1)
    BY <1>1, <2>6
  <2> QED
    BY <2>2, <2>7 DEF RankOf
<1>5. ASSUME NEW i \in 1..Ranks PROVE \E w \in Worker : Collects(w) /\ RankOf(w) = i - 1
  <2>1. PICK j \in Nat : j = i - 1 /\ j <= last
    BY <1>0, <1>1
  <2>2. PICK w \in Nat : w = j * Parallel
    BY <1>0
  <2>3. w <= a
    <3>1. CASE j = last
      BY <1>2, <2>2, <3>1
    <3>2. CASE j < last
      <4>1. j * Parallel + Parallel <= last * Parallel
        BY <1>0, <3>2, Groups
      <4> QED
        BY <1>0, <1>2, <2>2, <4>1
    <3> QED
      BY <2>1, <3>1, <3>2
  <2>4. w \in Worker
    BY <1>0, <1>3, <2>3 DEF Worker
  <2>5. PICK q \in Nat : q = w \div Parallel
    BY <1>0, DivMod
  <2>6. PICK r \in 0..(Parallel - 1) : r = w % Parallel
    BY <1>0, DivMod
  <2>7. PICK b \in Nat : b = q * Parallel
    BY <1>0
  <2>8. w = b + r
    BY <1>0, <2>5, <2>6, <2>7, DivMod
  <2>9. ASSUME q < j PROVE FALSE
    <3>1. q * Parallel + Parallel <= j * Parallel
      BY <1>0, <2>9, Groups
    <3>2. b + Parallel <= w
      BY <2>2, <2>7, <3>1
    <3> QED
      BY <1>0, <2>8, <3>2
  <2>10. ASSUME j < q PROVE FALSE
    <3>1. j * Parallel + Parallel <= q * Parallel
      BY <1>0, <2>10, Groups
    <3>2. w + Parallel <= b
      BY <2>2, <2>7, <3>1
    <3> QED
      BY <1>0, <2>8, <3>2
  <2>11. q = j
    BY <2>9, <2>10
  <2>12. b = w
    BY <2>2, <2>7, <2>11
  <2>13. r = 0
    BY <2>8, <2>12
  <2>14. Collects(w) /\ RankOf(w) = i - 1
    BY <2>1, <2>5, <2>6, <2>11, <2>13 DEF Collects, RankOf
  <2> QED
    BY <2>4, <2>14
<1> QED
  BY <1>4, <1>5

\* The worker that is collected for a rank
Speaker(i) == CHOOSE w \in Worker : Collects(w) /\ RankOf(w) = i - 1

\* Each rank has a worker that returns its output.
LEMMA SpeakerIs ==
  ASSUME NEW i \in 1..Ranks
  PROVE  Speaker(i) \in Worker /\ RankOf(Speaker(i)) = i - 1
<1>1. \E w \in Worker : Collects(w) /\ RankOf(w) = i - 1
  BY RankFacts
<1>2. PICK w : w = Speaker(i)
  OBVIOUS
<1>3. w \in Worker /\ RankOf(w) = i - 1
  BY Zenon, <1>1, <1>2 DEF Speaker
<1> QED
  BY <1>2, <1>3

Rows == Len(length)
\* As many rows of the batch to each rank
Divides(b) == \E l \in Nat \ {0} : Len(b) = Multiple(l, Ranks)
Size == Len(batch) \div Ranks

\* A batch that divides has as many rows for every rank, at least one.
LEMMA SizeFacts ==
  ASSUME Divides(batch), Len(batch) \in Nat
  PROVE  Size \in Nat \ {0} /\ Multiple(Size, Ranks) = Len(batch)
<1>0. Ranks \in Nat \ {0}
  BY DispatchAssumption
<1>1. PICK l \in Nat \ {0} : Len(batch) = Multiple(l, Ranks)
  BY DEF Divides
<1>2. PICK n \in Nat : n = Len(batch)
  OBVIOUS
<1>3. n = Ranks * l
  BY <1>1, <1>2 DEF Multiple
<1>4. n = l * Ranks
  BY <1>0, <1>3
<1>5. Grouped(n, l, Ranks)
  BY <1>4 DEF Grouped
<1>6. n \div Ranks = l
  BY <1>0, <1>5, GroupCount
<1>7. Size = l
  BY <1>2, <1>6 DEF Size
<1> QED
  BY <1>1, <1>7

\* DataProto.chunk gives a rank its slice of the batch.
LEMMA ChunkFacts ==
  ASSUME Divides(batch), NEW n \in Nat, batch \in Seq(1..n), NEW r \in 0..(Ranks - 1)
  PROVE  /\ Chunk(r) \in Seq(1..n) /\ Len(Chunk(r)) = Size
         /\ Chunk(r) = SubSeq(batch, Multiple(Size, r) + 1, Multiple(Size, r + 1))
<1>0. Ranks \in Nat \ {0}
  BY DispatchAssumption
<1>1. Len(batch) \in Nat
  BY LenProperties
<1>2. PICK z \in Nat \ {0} : z = Size
  BY <1>1, SizeFacts
<1>3. Multiple(z, Ranks) = Len(batch)
  BY <1>1, <1>2, SizeFacts
<1>4. r \in Nat /\ r < Ranks
  BY <1>0
<1>5. PICK a \in Nat : a = Multiple(z, r)
  BY <1>4, Multiples
<1>6. PICK b \in Nat : b = Multiple(z, r + 1) /\ b = a + z
  BY <1>4, <1>5, Multiples
<1>7. b <= Len(batch)
  <2>1. CASE r + 1 = Ranks
    BY <1>1, <1>3, <1>6, <2>1
  <2>2. CASE r + 1 < Ranks
    <3>1. (r + 1) * z + z <= Ranks * z
      BY <1>0, <1>4, <2>2, Groups
    <3>2. PICK c \in Nat : c = Multiple(z, Ranks)
      BY <1>1, <1>3
    <3>3. b + z <= c
      BY <1>6, <3>1, <3>2 DEF Multiple
    <3> QED
      BY <1>3, <3>2, <3>3
  <2> QED
    BY <1>0, <1>4, <2>1, <2>2
<1>8. a <= b
  BY <1>6
<1>9. SubSeq(batch, a + 1, b) \in Seq(1..n) /\ Len(SubSeq(batch, a + 1, b)) = b - a
  BY <1>7, <1>8, SubSeqParts
<1>10. Chunk(r) = SubSeq(batch, a + 1, b)
  <2>1. r * Size + 1 = a + 1 /\ (r + 1) * Size = b
    BY <1>2, <1>5, <1>6 DEF Multiple
  <2>2. Chunk(r) = SubSeq(batch, r * Size + 1, (r + 1) * Size)
    BY Zenon DEF Chunk, Size
  <2> QED
    BY <2>1, <2>2
<1>11. b - a = Size
  BY <1>2, <1>6
<1> QED
  BY <1>2, <1>5, <1>6, <1>9, <1>10, <1>11

\* The work of a row is positive: every row has tokens.
LEMMA WorkPositive ==
  ASSUME length \in [1..Rows -> Nat \ {0}], NEW rows \in Seq(1..Rows)
  PROVE  Weights(WorkOf(rows), Len(rows))
<1>1. DOMAIN rows = 1..Len(rows) /\ \A i \in 1..Len(rows) : rows[i] \in 1..Rows
  BY LenProperties, ElementOfSeq
<1>2. ASSUME NEW l \in Nat \ {0} PROVE Workload(l) \in Nat /\ Workload(l) > 0
  <2>1. l * l \in Nat
    OBVIOUS
  <2> QED
    BY <2>1 DEF Workload
<1>3. PICK f : f = WorkOf(rows)
  OBVIOUS
<1>4. f = [i \in 1..Len(rows) |-> Workload(length[rows[i]])]
  BY Zenon, <1>1, <1>3 DEF WorkOf
<1>5. ASSUME NEW i \in 1..Len(rows) PROVE f[i] \in Nat /\ f[i] > 0
  <2>1. PICK l \in Nat \ {0} : l = length[rows[i]]
    BY <1>1
  <2>2. f[i] = Workload(l)
    BY <1>4, <2>1
  <2> QED
    BY <1>2, <2>2
<1>6. f \in [1..Len(rows) -> Nat]
  BY <1>4, <1>5
<1> QED
  BY <1>3, <1>5, <1>6 DEF Weights

\* The rows of a mini batch
Per == IF job = "update" THEN MiniSize ELSE Size

\* The mini batches of a worker are the pieces of its chunk.
LEMMA MiniFacts ==
  ASSUME Size \in Nat \ {0}, NEW w, Len(chunk[w]) = Size
  PROVE  /\ Per \in Nat \ {0}
         /\ MiniBatches(w) = Pieces(Size, Per)
         /\ Mini(w) = Piece(chunk[w], mini[w], Per)
<1>1. Per \in Nat \ {0}
  BY DispatchAssumption DEF Per
<1>2. Per = IF job = "update" THEN MiniSize ELSE Len(chunk[w])
  BY DEF Per
<1>3. MiniBatches(w) = Pieces(Len(chunk[w]), Per)
  BY Zenon, <1>2 DEF MiniBatches, Pieces
<1>4. Mini(w) = Piece(chunk[w], mini[w], Per)
  BY Zenon, <1>2 DEF Mini, Piece, EndAt
<1> QED
  BY <1>1, <1>3, <1>4

\* A worker needs at least one micro batch, and no more than it has rows.
LEMMA NeededFacts ==
  ASSUME length \in [1..Rows -> Nat \ {0}], Rows \in Nat, NEW w,
         Mini(w) \in Seq(1..Rows), Len(Mini(w)) \in Nat \ {0}
  PROVE  Needed(w) \in Nat \ {0} /\ Needed(w) <= Len(Mini(w))
<1>0. MaxTokens \in Nat \ {0}
  BY DispatchAssumption
<1>1. PICK rows \in Seq(1..Rows) : rows = Mini(w)
  OBVIOUS
<1>2. rows # <<>>
  BY <1>1
<1>3. length \in [1..Rows -> Nat]
  OBVIOUS
<1>4. \A r \in 1..Rows : length[r] > 0
  OBVIOUS
<1>5. Total(length, rows) \in Nat /\ Total(length, rows) > 0
  BY <1>2, <1>3, <1>4, TotalType
<1>6. PICK t \in Nat \ {0} : t = Tokens(w)
  BY <1>1, <1>5 DEF Tokens
<1>7. PICK c : c = Pieces(t, MaxTokens)
  OBVIOUS
<1>8. 1 <= c
  BY <1>0, <1>7, PiecesEnd
<1>9. c \in Nat
  BY <1>0, <1>7, PieceBounds
<1>10. c = (Tokens(w) + MaxTokens - 1) \div MaxTokens
  BY <1>6, <1>7 DEF Pieces
<1>11. Needed(w) = IF c < Len(Mini(w)) THEN c ELSE Len(Mini(w))
  BY Zenon, <1>10 DEF Needed
<1> QED
  BY <1>8, <1>9, <1>11

-----------------------------------------------------------------------------
(* The inductive invariant *)

CallFits(j, len) ==
  /\ j \in {"log_prob", "update", "validate"} \cup Estimator
  /\ Len(len) \in Nat \ {0} /\ len \in [1..Len(len) -> Nat \ {0}]
  /\ j # "validate" => \E c \in Nat : Grouped(Len(len), c, Ranks)

StepFits(s, j) ==
  /\ s \in {"prepare", "dispatch", "wait", "corrected", "done"}
  /\ s = "wait" => j \notin Estimator
  /\ s = "corrected" => j \in Estimator

\* The rows in their order, and after them what a validation is padded with
InPlaceUpTo(b, n) == n <= Len(b) /\ \A i \in 1..n : b[i] = i

BatchFits(b, s, j, n, pad) ==
  /\ b \in Seq(1..n)
  /\ s = "prepare" => InPlaceUpTo(b, n)
  /\ s \in {"dispatch", "wait"} => Divides(b)
  /\ j # "validate" => Len(b) = n /\ Permutation(b, n)
  /\ j = "validate" =>
       InPlaceUpTo(b, n) /\ Len(b) = (IF s \in {"dispatch", "wait"} THEN n + pad ELSE n)

TypesInv ==
  /\ mini \in [Worker -> Nat \ {0}] /\ count \in [Worker -> Nat]
  /\ begun \in [Worker -> Nat] /\ passes \in [Worker -> Nat]
  /\ DOMAIN micro = Worker /\ DOMAIN output = Worker

FreshInv ==
  step \in {"prepare", "dispatch"} =>
    \A w \in Worker : /\ mini[w] = 1 /\ count[w] = 0 /\ micro[w] = <<>>
                      /\ begun[w] = 0 /\ passes[w] = 0 /\ output[w] = <<>>

\* What a worker has computed is what it has got, up to its mini batch.
Exact == job # "update"
Progress(w, l, z) ==
  /\ chunk[w] = Chunk(RankOf(w))
  /\ output[w] \in Seq(1..Rows)
  /\ Alike(output[w], SubSeq(chunk[w], 1, Covered(l, mini[w] - 1, z)), Exact)

Idle(w) == count[w] = 0 /\ micro[w] = <<>> /\ begun[w] = 0 /\ passes[w] = 0

\* Workers in a mini batch, which takes M passes after P others, and past it
Within(w, m, P, M, l, z) ==
  /\ mini[w] = m /\ m > 0 /\ m <= Pieces(l, z)
  /\ M > 0 /\ Whole(micro[w], PieceLen(l, m, z), M, FALSE)
  /\ begun[w] <= M /\ passes[w] = P + begun[w]
  /\ count[w] > 0
Past(w, m, P, M, l, z) ==
  /\ mini[w] = m + 1 /\ micro[w] = <<>> /\ begun[w] = 0 /\ passes[w] = P + M
  /\ count[w] > 0 => m + 1 <= Pieces(l, z) /\ count[w] <= PieceLen(l, m + 1, z)
Together(m, P, M, l, z) ==
  \A w \in Worker : Within(w, m, P, M, l, z) \/ Past(w, m, P, M, l, z)

ProgressInv == step = "wait" => \A w \in Worker : Progress(w, Size, Per)
LockStep ==
  step = "wait" =>
    IF job = "validate" THEN \A w \in Worker : Idle(w)
    ELSE \E m, P, M \in Nat : Together(m, P, M, Size, Per)

DoneInv == step = "done" /\ job \notin Estimator => Alike(result, batch, Exact)

CallInv == CallFits(job, length)
StepInv == StepFits(step, job)
BatchInv == BatchFits(batch, step, job, Rows, PadSize)

DispatchInv ==
  /\ CallInv /\ StepInv /\ BatchInv
  /\ TypesInv /\ FreshInv /\ ProgressInv /\ LockStep /\ DoneInv

-----------------------------------------------------------------------------
(* What it implies *)

\* The rows come back,
LEMMA ReturnedRows ==
  ASSUME DispatchInv
  PROVE  RowsReturned
<1> SUFFICES ASSUME step = "done", job \notin Estimator
             PROVE  /\ job # "update" => result = batch
                    /\ Len(result) = Len(batch) /\ ToSet(result) = ToSet(batch)
                    /\ Len(batch) = Len(length) /\ ToSet(batch) = DOMAIN length
  BY DEF RowsReturned
<1>1. Alike(result, batch, Exact)
  BY DEF DispatchInv, DoneInv
<1>2. /\ job # "update" => result = batch
      /\ Len(result) = Len(batch) /\ ToSet(result) = ToSet(batch)
  BY <1>1 DEF Alike, Exact
<1>3. BatchFits(batch, step, job, Rows, PadSize)
  BY DEF DispatchInv, BatchInv
<1>4. PICK n \in Nat : n = Rows /\ DOMAIN length = 1..n
  BY DEF DispatchInv, CallInv, CallFits, Rows
<1>5. batch \in Seq(1..n)
  BY <1>3, <1>4 DEF BatchFits
<1>6. Len(batch) = n
  BY <1>3, <1>4 DEF BatchFits
<1>7. ASSUME NEW r \in 1..n PROVE \E i \in 1..Len(batch) : batch[i] = r
  <2>1. CASE job = "validate"
    <3>1. InPlaceUpTo(batch, n)
      BY <1>3, <1>4, <2>1 DEF BatchFits
    <3>2. batch[r] = r
      BY <3>1 DEF InPlaceUpTo
    <3> QED
      BY <1>6, <3>2
  <2>2. CASE job # "validate"
    <3>1. Permutation(batch, n)
      BY <1>3, <1>4, <2>2 DEF BatchFits
    <3>2. \E i \in 1..n : batch[i] = r
      BY <3>1, PermutationFacts
    <3> QED
      BY <1>6, <3>2
  <2> QED
    BY <2>1, <2>2
<1>8. ToSet(batch) = 1..n
  <2>1. \A i \in 1..Len(batch) : batch[i] \in 1..n
    BY <1>5, ElementOfSeq
  <2> QED
    BY <1>5, <1>7, <2>1, ElementsOf
<1> QED
  BY <1>2, <1>4, <1>6, <1>8 DEF Rows

\* What a worker has got while the driver waits
LEMMA WaitSizes ==
  ASSUME CallInv, StepInv, BatchInv, step = "wait"
  PROVE  /\ Rows \in Nat \ {0} /\ batch \in Seq(1..Rows) /\ Divides(batch) /\ Len(batch) \in Nat
         /\ length \in [1..Rows -> Nat \ {0}]
         /\ Size \in Nat \ {0} /\ Multiple(Size, Ranks) = Len(batch)
         /\ Per \in Nat \ {0}
         /\ \A r \in 0..(Ranks - 1) : Chunk(r) \in Seq(1..Rows) /\ Len(Chunk(r)) = Size
<1>1. Rows \in Nat \ {0} /\ length \in [1..Rows -> Nat \ {0}]
  BY DEF CallInv, CallFits, Rows
<1>2. batch \in Seq(1..Rows) /\ Divides(batch)
  BY DEF BatchInv, BatchFits
<1>3. Len(batch) \in Nat
  BY <1>2, LenProperties
<1>4. Size \in Nat \ {0} /\ Multiple(Size, Ranks) = Len(batch)
  BY <1>2, <1>3, SizeFacts
<1>5. Per \in Nat \ {0}
  BY <1>4, DispatchAssumption DEF Per
<1>6. ASSUME NEW r \in 0..(Ranks - 1) PROVE Chunk(r) \in Seq(1..Rows) /\ Len(Chunk(r)) = Size
  BY <1>1, <1>2, ChunkFacts
<1> QED
  BY <1>1, <1>2, <1>3, <1>4, <1>5, <1>6

Static == CallInv /\ StepInv /\ BatchInv /\ TypesInv /\ ProgressInv

\* A worker has returned when it is past its last mini batch.
LEMMA WorkerSizes ==
  ASSUME Static, step = "wait", NEW w \in Worker
  PROVE  /\ chunk[w] = Chunk(RankOf(w)) /\ chunk[w] \in Seq(1..Rows) /\ Len(chunk[w]) = Size
         /\ mini[w] \in Nat \ {0} /\ Pieces(Size, Per) \in Nat
         /\ Returned(w) <=> mini[w] > Pieces(Size, Per)
         /\ AtWork(w) <=> mini[w] <= Pieces(Size, Per)
         /\ Mini(w) = Piece(chunk[w], mini[w], Per)
<1>1. CallInv /\ StepInv /\ BatchInv /\ TypesInv /\ ProgressInv
  BY DEF Static
<1>2. Size \in Nat \ {0} /\ Per \in Nat \ {0}
  BY <1>1, WaitSizes
<1>3. \A r \in 0..(Ranks - 1) : Chunk(r) \in Seq(1..Rows) /\ Len(Chunk(r)) = Size
  BY <1>1, WaitSizes
<1>4. chunk[w] = Chunk(RankOf(w))
  BY <1>1 DEF ProgressInv, Progress
<1>5. RankOf(w) \in 0..(Ranks - 1)
  BY RankFacts
<1>6. chunk[w] \in Seq(1..Rows) /\ Len(chunk[w]) = Size
  BY <1>3, <1>4, <1>5
<1>7. MiniBatches(w) = Pieces(Size, Per) /\ Mini(w) = Piece(chunk[w], mini[w], Per)
  BY <1>2, <1>6, MiniFacts
<1>8. mini[w] \in Nat \ {0}
  BY <1>1 DEF TypesInv
<1>9. PICK c \in Nat : c = Pieces(Size, Per)
  <2>1. 1 \in Nat \ {0}
    OBVIOUS
  <2> QED
    BY <1>2, <2>1, PieceBounds
<1>10. Returned(w) <=> mini[w] > c
  BY <1>7, <1>9 DEF Returned
<1>11. AtWork(w) <=> mini[w] <= c
  BY <1>8, <1>10 DEF AtWork
<1> QED
  BY <1>4, <1>6, <1>7, <1>8, <1>9, <1>10, <1>11

\* The mini batch follows the rows already done.
LEMMA WorkerMini ==
  ASSUME Static, step = "wait", NEW w \in Worker, NEW m \in Nat \ {0}, mini[w] = m,
         m <= Pieces(Size, Per)
  PROVE  /\ Mini(w) \in Seq(1..Rows) /\ Len(Mini(w)) = PieceLen(Size, m, Per)
         /\ PieceLen(Size, m, Per) \in Nat \ {0}
         /\ SubSeq(chunk[w], 1, Covered(Size, m - 1, Per)) \o Mini(w)
              = SubSeq(chunk[w], 1, Covered(Size, m, Per))
<1>1. PICK T : T = 1..Rows
  OBVIOUS
<1>2. PICK x \in Seq(T) : x = chunk[w] /\ Len(x) = Size
  BY <1>1, WorkerSizes
<1>3. Mini(w) = Piece(x, m, Per)
  BY <1>2, WorkerSizes
<1>4. PICK l \in Nat \ {0} : l = Size
  BY WaitSizes DEF Static
<1>5. PICK z \in Nat \ {0} : z = Per
  BY WaitSizes DEF Static
<1>6. m <= Pieces(l, z) /\ Len(x) = l
  BY <1>2, <1>4, <1>5
<1>7. Piece(x, m, z) \in Seq(T) /\ Len(Piece(x, m, z)) = PieceLen(l, m, z)
  BY <1>6, PieceFacts
<1>8. PieceLen(l, m, z) \in Nat \ {0}
  BY <1>6, PieceFacts
<1>9. Joins(x, l, m, z)
  BY <1>6, PieceFacts
<1>10. SubSeq(x, 1, Covered(l, m - 1, z)) \o Piece(x, m, z) = SubSeq(x, 1, Covered(l, m, z))
  BY <1>9 DEF Joins
<1> QED
  BY <1>1, <1>2, <1>3, <1>4, <1>5, <1>7, <1>8, <1>10

\* A worker in a mini batch is past its all_reduce.
LEMMA WithinFacts ==
  ASSUME Static, step = "wait", NEW w \in Worker,
         NEW m \in Nat, NEW P \in Nat, NEW M \in Nat, Within(w, m, P, M, Size, Per)
  PROVE  /\ micro[w] # <<>> /\ Len(micro[w]) = M /\ AtWork(w) /\ ~Reducing(w)
         /\ begun[w] \in Nat /\ begun[w] <= M /\ passes[w] = P + begun[w]
         /\ count[w] > 0 /\ m > 0 /\ mini[w] = m
         /\ m <= Pieces(Size, Per)
<1>1. /\ mini[w] = m /\ m > 0 /\ m <= Pieces(Size, Per)
      /\ M > 0 /\ Whole(micro[w], PieceLen(Size, m, Per), M, FALSE)
      /\ begun[w] <= M /\ passes[w] = P + begun[w]
      /\ count[w] > 0
  BY DEF Within
<1>2. PICK l \in Nat : l = PieceLen(Size, m, Per)
  <2>1. m \in Nat \ {0}
    BY <1>1
  <2> QED
    BY <1>1, <2>1, WorkerMini
<1>3. Whole(micro[w], l, M, FALSE)
  BY <1>1, <1>2
<1>4. Len(micro[w]) = M
  BY <1>3, WholeRows
<1>5. micro[w] # <<>>
  BY <1>1, <1>4
<1>6. AtWork(w)
  BY <1>1, WorkerSizes
<1>7. ~Reducing(w)
  BY <1>5 DEF Reducing
<1>8. begun[w] \in Nat
  BY DEF Static, TypesInv
<1> QED
  BY <1>1, <1>4, <1>5, <1>6, <1>7, <1>8

\* A worker past the mini batch has taken its passes.
LEMMA PastFacts ==
  ASSUME NEW w \in Worker, NEW m \in Nat, NEW P \in Nat, NEW M \in Nat,
         Past(w, m, P, M, Size, Per)
  PROVE  mini[w] = m + 1 /\ micro[w] = <<>> /\ begun[w] = 0 /\ passes[w] = P + M
BY DEF Past

\* and nobody waits in vain.
LEMMA NobodyBehind ==
  ASSUME DispatchInv
  PROVE  NobodyLeftBehind
<1>1. Static /\ StepInv /\ LockStep
  BY DEF DispatchInv, Static
<1>2. step # "failed"
  BY <1>1 DEF StepInv, StepFits
<1> SUFFICES ASSUME step = "wait", \E v \in Worker : ~Returned(v), \E v \in Worker : ~Reducing(v)
             PROVE  \E w \in Worker : AtWork(w) /\ AllBegan(w) /\ ~Reducing(w)
  BY <1>2 DEF NobodyLeftBehind
<1>3. PICK v \in Worker : ~Returned(v)
  OBVIOUS
<1>4. PICK u \in Worker : ~Reducing(u)
  OBVIOUS
<1>5. CASE job = "validate"
  <2>1. \A w \in Worker : Idle(w)
    BY <1>1, <1>5 DEF LockStep
  <2>2. \A w \in Worker : passes[w] = 0 /\ count[w] = 0
    BY <2>1 DEF Idle
  <2>3. AtWork(v)
    BY <1>3 DEF AtWork
  <2>4. AllBegan(v)
    BY <2>2 DEF AllBegan
  <2>5. ~Reducing(v)
    BY <2>2 DEF Reducing
  <2> QED
    BY <2>3, <2>4, <2>5
<1>6. CASE job # "validate"
  <2>1. PICK m \in Nat, P \in Nat, M \in Nat : Together(m, P, M, Size, Per)
    BY <1>1, <1>6 DEF LockStep
  <2>2. \A w \in Worker : Within(w, m, P, M, Size, Per) \/ Past(w, m, P, M, Size, Per)
    BY <2>1 DEF Together
  <2>3. CASE \E w \in Worker : Within(w, m, P, M, Size, Per)
    <3>1. PICK S : S = {begun[w] : w \in {x \in Worker : Within(x, m, P, M, Size, Per)}}
      OBVIOUS
    <3>2. S \in SUBSET Nat /\ S # {}
      BY <1>1, <2>3, <3>1, WithinFacts
    <3>3. PICK i \in S : \A j \in S : i <= j
      BY <3>2, LeastExists
    <3>4. PICK w \in Worker : Within(w, m, P, M, Size, Per) /\ begun[w] = i
      BY <3>1
    <3>5. AtWork(w) /\ ~Reducing(w) /\ i <= M /\ i \in Nat /\ passes[w] = P + i
      BY <1>1, <3>4, WithinFacts
    <3>6. ASSUME NEW x \in Worker PROVE passes[x] >= passes[w]
      <4>1. CASE Within(x, m, P, M, Size, Per)
        <5>1. begun[x] \in Nat /\ passes[x] = P + begun[x]
          BY <1>1, <4>1, WithinFacts
        <5>2. i <= begun[x]
          BY <3>1, <3>3, <4>1
        <5> QED
          BY <3>5, <5>1, <5>2
      <4>2. CASE Past(x, m, P, M, Size, Per)
        <5>1. passes[x] = P + M
          BY <4>2 DEF Past
        <5>2. P + M >= P + i
          BY <3>5
        <5> QED
          BY <3>5, <5>1, <5>2
      <4> QED
        BY <2>2, <4>1, <4>2
    <3> QED
      BY <3>5, <3>6 DEF AllBegan
  <2>4. CASE ~\E w \in Worker : Within(w, m, P, M, Size, Per)
    <3>1. \A w \in Worker : Past(w, m, P, M, Size, Per)
      BY <2>2, <2>4
    <3>2. \A w \in Worker : mini[w] = m + 1 /\ passes[w] = P + M
      BY <3>1, PastFacts
    <3>3. m + 1 <= Pieces(Size, Per)
      <4>1. ~(mini[v] > Pieces(Size, Per)) /\ Pieces(Size, Per) \in Nat
        BY <1>1, <1>3, WorkerSizes
      <4> QED
        BY <3>2, <4>1
    <3>4. AtWork(u)
      BY <1>1, <3>2, <3>3, WorkerSizes
    <3>5. AllBegan(u)
      BY <3>2 DEF AllBegan
    <3> QED
      BY <1>4, <3>4, <3>5
  <2> QED
    BY <2>3, <2>4
<1> QED
  BY <1>5, <1>6

\* The identity is a permutation.
LEMMA IdentityFacts ==
  ASSUME NEW n \in Nat, NEW b, b = [i \in 1..n |-> i]
  PROVE  b \in Seq(1..n) /\ Len(b) = n /\ Permutation(b, n) /\ InPlaceUpTo(b, n)
<1>1. b \in [1..n -> 1..n]
  OBVIOUS
<1>2. b \in Seq(1..n) /\ Len(b) = n
  BY <1>1, FunctionLength
<1>3. \A i, j \in 1..n : b[i] = b[j] => i = j
  OBVIOUS
<1>4. Permutation(b, n)
  BY <1>1, <1>3, InjectionPermutes DEF Permutation
<1>5. InPlaceUpTo(b, n)
  BY <1>2 DEF InPlaceUpTo
<1> QED
  BY <1>2, <1>4, <1>5

\* Reordering a permutation of the rows gives another.
LEMMA PermutationsCompose ==
  ASSUME NEW n \in Nat, NEW f, Permutation(f, n), NEW g, Permutation(g, n),
         NEW b, b = [i \in 1..n |-> f[g[i]]]
  PROVE  b \in Seq(1..n) /\ Len(b) = n /\ Permutation(b, n)
<1>1. f \in [1..n -> 1..n] /\ \A i, j \in 1..n : f[i] = f[j] => i = j
  BY PermutationFacts
<1>2. g \in [1..n -> 1..n] /\ \A i, j \in 1..n : g[i] = g[j] => i = j
  BY PermutationFacts
<1>3. b \in [1..n -> 1..n]
  BY <1>1, <1>2
<1>4. ASSUME NEW i \in 1..n, NEW j \in 1..n, b[i] = b[j] PROVE i = j
  <2>1. g[i] \in 1..n /\ g[j] \in 1..n /\ f[g[i]] = f[g[j]]
    BY <1>2, <1>4
  <2>2. g[i] = g[j]
    BY <1>1, <2>1
  <2> QED
    BY <1>2, <2>2
<1>5. Permutation(b, n)
  BY <1>3, <1>4, InjectionPermutes DEF Permutation
<1> QED
  BY <1>3, <1>5, FunctionLength

\* Remainders at the boundary
LEMMA Remainders ==
  ASSUME NEW e \in Nat \ {0}
  PROVE  e % e = 0 /\ \A x \in 0..(e - 1) : x % e = x
<1>1. ASSUME NEW q \in Nat, NEW r \in 0..(e - 1), NEW x \in Nat, x = q * e + r, x < e PROVE r = x
  <2>1. CASE q = 0
    <3>1. q * e = 0
      BY <2>1
    <3> QED
      BY <1>1, <3>1
  <2>2. CASE 0 < q
    <3>1. 0 * e + e <= q * e /\ q * e \in Int
      BY <2>2, Groups
    <3>2. PICK a \in Int : a = q * e
      BY <3>1
    <3>3. e <= a
      BY <3>1, <3>2
    <3>4. x = a + r
      BY <1>1, <3>2
    <3> QED
      BY <1>1, <3>3, <3>4
  <2> QED
    BY <2>1, <2>2
<1>2. ASSUME NEW x \in 0..(e - 1) PROVE x % e = x
  <2>1. x \in Nat /\ x < e
    OBVIOUS
  <2>2. PICK q \in Nat : q = x \div e
    BY <2>1, DivMod
  <2>3. PICK r \in 0..(e - 1) : r = x % e
    BY <2>1, DivMod
  <2>4. x = (x \div e) * e + (x % e)
    BY <2>1, DivMod
  <2>5. x = q * e + r
    BY <2>2, <2>3, <2>4
  <2> QED
    BY <1>1, <2>1, <2>3, <2>5
<1>3. e % e = 0
  <2>2. PICK q \in Nat : q = e \div e
    BY DivMod
  <2>3. PICK r \in 0..(e - 1) : r = e % e
    BY DivMod
  <2>4. e = (e \div e) * e + (e % e)
    BY DivMod
  <2>5. e = q * e + r
    BY <2>2, <2>3, <2>4
  <2>6. q # 0
    <3>1. ASSUME q = 0 PROVE FALSE
      <4>1. q * e = 0
        BY <3>1
      <4> QED
        BY <2>5, <4>1
    <3> QED
      BY <3>1
  <2>7. 0 * e + e <= q * e /\ q * e \in Int
    BY <2>6, Groups
  <2>8. PICK a \in Int : a = q * e
    BY <2>7
  <2>9. e <= a /\ e = a + r
    BY <2>5, <2>7, <2>8
  <2> QED
    BY <2>3, <2>9
<1> QED
  BY <1>2, <1>3

\* Padded, the rows are as many to each rank.
PadOf(n) == (Ranks - (n % Ranks)) % Ranks

\* pad_dataproto_to_divisor pads up to a multiple of the ranks.
LEMMA PadFacts ==
  ASSUME NEW n \in Nat \ {0}
  PROVE  /\ PadOf(n) \in Nat
         /\ \E l \in Nat \ {0} : n + PadOf(n) = Multiple(l, Ranks)
<1>0. Ranks \in Nat \ {0}
  BY DispatchAssumption
<1>1. PICK q \in Nat : q = n \div Ranks
  BY <1>0, DivMod
<1>2. PICK r \in 0..(Ranks - 1) : r = n % Ranks
  BY <1>0, DivMod
<1>3. n = (n \div Ranks) * Ranks + (n % Ranks)
  BY <1>0, DivMod
<1>4. PICK a \in Nat : a = q * Ranks /\ a = Ranks * q
  BY <1>0
<1>5. n = a + r
  BY <1>1, <1>2, <1>3, <1>4
<1>6. PadOf(n) = (Ranks - r) % Ranks
  BY <1>2 DEF PadOf
<1>7. CASE r = 0
  <2>1. Ranks - r = Ranks
    BY <1>0, <1>7
  <2>2. PadOf(n) = 0
    BY <1>0, <1>6, <2>1, Remainders
  <2>3. q # 0
    BY <1>0, <1>4, <1>5, <1>7
  <2>4. n + PadOf(n) = Multiple(q, Ranks)
    BY <1>4, <1>5, <1>7, <2>2 DEF Multiple
  <2> QED
    BY <2>2, <2>3, <2>4
<1>8. CASE r # 0
  <2>1. Ranks - r \in 0..(Ranks - 1)
    BY <1>0, <1>8
  <2>2. PadOf(n) = Ranks - r
    BY <1>0, <1>6, <2>1, Remainders
  <2>3. n + PadOf(n) = a + Ranks
    BY <1>0, <1>5, <2>2
  <2>4. Ranks * (q + 1) = a + Ranks
    BY <1>0, <1>4
  <2>5. n + PadOf(n) = Multiple(q + 1, Ranks) /\ q + 1 \in Nat \ {0}
    BY <2>3, <2>4 DEF Multiple
  <2> QED
    BY <2>1, <2>2, <2>5
<1> QED
  BY <1>7, <1>8

\* A number of rows the ranks divide
LEMMA Divided ==
  ASSUME NEW n \in Nat \ {0}, n % Ranks = 0
  PROVE  \E c \in Nat : Grouped(n, c, Ranks)
<1>0. Ranks \in Nat \ {0}
  BY DispatchAssumption
<1>1. PICK q \in Nat : q = n \div Ranks
  BY <1>0, DivMod
<1>2. n = (n \div Ranks) * Ranks + (n % Ranks)
  BY <1>0, DivMod
<1>3. PICK a \in Nat : a = q * Ranks
  BY <1>0
<1>4. n = a
  BY <1>1, <1>2, <1>3
<1>5. Grouped(n, q, Ranks)
  BY <1>3, <1>4 DEF Grouped
<1> QED
  BY <1>5

\* The calls the run starts from are calls the invariant speaks of.
LEMMA CalledFits ==
  ASSUME Called
  PROVE  CallInv
<1>1. CASE /\ job \in {"log_prob", "update", "validate"}
           /\ \E n \in Sizes :
                /\ job # "validate" => n % Ranks = 0
                /\ length \in [1..n -> 1..MaxLength]
  <2>1. PICK n \in Sizes : /\ job # "validate" => n % Ranks = 0
                           /\ length \in [1..n -> 1..MaxLength]
    BY <1>1
  <2>2. n \in Nat \ {0} /\ MaxLength \in Nat \ {0}
    BY DispatchAssumption
  <2>3. Len(length) = n
    BY <2>1, <2>2, FunctionLength
  <2>4. length \in [1..n -> Nat \ {0}]
    BY <2>1, <2>2
  <2>5. job # "validate" => \E c \in Nat : Grouped(n, c, Ranks)
    BY <2>1, <2>2, Divided
  <2> QED
    BY <1>1, <2>2, <2>3, <2>4, <2>5 DEF CallInv, CallFits
<1>2. CASE /\ job \in Estimator
           /\ response \in [1..(Prompts * Rollouts) -> Masks]
           /\ length = [r \in DOMAIN response |-> Len(response[r])]
  <2>1. Prompts \in Nat \ {0} /\ Rollouts \in Nat \ {0}
    BY DispatchAssumption
  <2>2. PICK n \in Nat \ {0} : n = Prompts * Rollouts
    <3>1. 0 * Rollouts + Rollouts <= Prompts * Rollouts /\ Prompts * Rollouts \in Int
      BY <2>1, Groups
    <3>2. PICK a \in Int : a = Prompts * Rollouts
      BY <3>1
    <3>3. a > 0
      BY <2>1, <3>1, <3>2
    <3> QED
      BY <3>2, <3>3
  <2>3. n % Ranks = 0
    BY <2>2, DispatchAssumption
  <2>4. ASSUME NEW r \in 1..n PROVE Len(response[r]) \in Nat \ {0}
    <3>1. response[r] \in Masks
      BY <1>2, <2>2
    <3>2. response[r] \in Seq({0, 1}) /\ response[r] # <<>>
      BY <3>1, DispatchAssumption
    <3>3. Len(response[r]) \in Nat /\ Len(response[r]) # 0
      BY <3>2, EmptySeq, LenProperties
    <3> QED
      BY <3>3
  <2>5. length = [r \in 1..n |-> Len(response[r])]
    <3>1. DOMAIN response = 1..n
      BY <1>2, <2>2
    <3> QED
      BY <1>2, <3>1
  <2>6. length \in [1..n -> Nat \ {0}]
    BY <2>4, <2>5
  <2>7. Len(length) = n
    BY <2>6, FunctionLength
  <2>8. \E c \in Nat : Grouped(n, c, Ranks)
    BY <2>3, Divided
  <2> QED
    BY <1>2, <2>6, <2>7, <2>8 DEF CallInv, CallFits
<1> QED
  BY <1>1, <1>2 DEF Called

\* Initially
LEMMA InitInv == DispatchInit => DispatchInv
<1> SUFFICES ASSUME DispatchInit PROVE DispatchInv
  OBVIOUS
<1>1. CallInv
  BY CalledFits DEF DispatchInit
<1>2. step = "prepare"
  BY DEF DispatchInit, Ready
<1>3. StepInv
  BY <1>2 DEF StepInv, StepFits
<1>4. BatchInv
  <2>1. PICK n \in Nat \ {0} : n = Rows /\ DOMAIN length = 1..n
    BY <1>1 DEF CallInv, CallFits, Rows
  <2>2. batch = [i \in 1..n |-> i]
    BY <2>1 DEF DispatchInit, Ready
  <2>3. batch \in Seq(1..n) /\ Len(batch) = n /\ Permutation(batch, n) /\ InPlaceUpTo(batch, n)
    BY <2>2, IdentityFacts
  <2>4. BatchFits(batch, "prepare", job, n, PadSize)
    BY <2>3 DEF BatchFits
  <2> QED
    BY <1>2, <2>1, <2>4 DEF BatchInv
<1>5. TypesInv
  BY DEF DispatchInit, Ready, TypesInv
<1>6. FreshInv
  BY DEF DispatchInit, Ready, FreshInv
<1>7. ProgressInv /\ LockStep /\ DoneInv
  BY <1>2 DEF ProgressInv, LockStep, DoneInv
<1> QED
  BY <1>1, <1>3, <1>4, <1>5, <1>6, <1>7 DEF DispatchInv

\* What no step changes
LEMMA Unchanging ==
  ASSUME UNCHANGED <<job, length>>
  PROVE  /\ CallInv => CallInv'
         /\ Rows' = Rows /\ PadSize' = PadSize /\ Exact' = Exact /\ job' = job
BY DEF CallInv, Rows, PadSize, Exact

\* The workers have not moved.
LEMMA SameTypes ==
  ASSUME TypesInv, UNCHANGED workerVars
  PROVE  TypesInv'
BY DEF TypesInv, workerVars

-----------------------------------------------------------------------------
(* The driver's steps *)

\* _balance_batch: its assertion holds, and the batch stays a permutation of the rows.
LEMMA BalancedRows ==
  ASSUME CallInv, BatchInv, step = "prepare", job # "validate"
  PROVE  /\ Fair(Partitions(WorkOf(batch), Ranks, TRUE), Len(batch), TRUE)
         /\ Balanced \in Seq(1..Rows) /\ Len(Balanced) = Rows /\ Permutation(Balanced, Rows)
         /\ Divides(Balanced)
<1>0. Ranks \in Nat /\ Ranks > 0
  BY DispatchAssumption
<1>1. PICK n \in Nat \ {0} : n = Rows /\ length \in [1..n -> Nat \ {0}]
  BY DEF CallInv, CallFits, Rows
<1>n. n \in Nat /\ n > 0
  OBVIOUS
<1>2. PICK c \in Nat : Grouped(n, c, Ranks)
  BY <1>1 DEF CallInv, CallFits, Rows
<1>3. batch \in Seq(1..n) /\ Len(batch) = n /\ Permutation(batch, n)
  BY <1>1 DEF BatchInv, BatchFits
<1>4. DOMAIN batch = 1..n
  BY <1>3, LenProperties
<1>5. PICK work : work = WorkOf(batch)
  OBVIOUS
<1>6. Weights(work, n)
  BY <1>1, <1>3, <1>5, WorkPositive
<1>7. work \in [1..n -> Nat]
  BY <1>6 DEF Weights
<1>8. PICK P : P = Partitions(work, Ranks, TRUE)
  OBVIOUS
<1>9. Whole(P, n, Ranks, TRUE)
  <2>1. Shareable(n, Ranks, TRUE)
    BY <1>2 DEF Shareable
  <2> QED
    BY <1>0, <1>n, <1>6, <1>8, <2>1, PartitionsWhole
<1>10. Fair(P, n, TRUE)
  BY <1>0, <1>9, FairRanks
<1>11. PICK U : U = Arrangement(work, P)
  OBVIOUS
<1>12. Whole(U, n, Ranks, TRUE)
  BY <1>0, <1>n, <1>7, <1>9, <1>11, ArrangedWhole
<1>13. PICK order : order = FlattenSeq(U)
  OBVIOUS
<1>14. Permutation(order, n)
  BY <1>0, <1>12, <1>13, WholeFlat
<1>15. Balanced = [i \in DOMAIN batch |-> batch[order[i]]]
  BY Zenon, <1>5, <1>8, <1>11, <1>13 DEF Balanced, Arrangement, ArrangedRows
<1>16. PICK b : b = [i \in 1..n |-> batch[order[i]]]
  OBVIOUS
<1>17. b = Balanced
  BY Zenon, <1>4, <1>15, <1>16
<1>18. b \in Seq(1..n) /\ Len(b) = n /\ Permutation(b, n)
  <2>1. PICK f : f = batch /\ Permutation(f, n)
    BY <1>3
  <2>2. b = [i \in 1..n |-> f[order[i]]]
    BY Zenon, <1>16, <2>1
  <2> QED
    BY <1>n, <1>14, <2>1, <2>2, PermutationsCompose
<1>19. Divides(b)
  <2>1. n = c * Ranks
    BY <1>2 DEF Grouped
  <2>2. n = Ranks * c
    BY <1>0, <2>1
  <2>3. Len(b) = Multiple(c, Ranks)
    BY <1>18, <2>2 DEF Multiple
  <2>4. c # 0
    BY <1>0, <1>n, <2>2
  <2> QED
    BY <2>3, <2>4 DEF Divides
<1> QED
  BY <1>1, <1>3, <1>5, <1>8, <1>10, <1>17, <1>18, <1>19

\* _balance_batch
LEMMA BalanceKeeps ==
  ASSUME DispatchInv, Balance
  PROVE  DispatchInv'
<1>1. step = "prepare" /\ job # "validate" /\ UNCHANGED <<job, length, workerVars>>
  BY DEF Balance
<1>2. CallInv /\ BatchInv /\ StepInv /\ TypesInv /\ FreshInv
  BY DEF DispatchInv
<1>3. CallInv' /\ Rows' = Rows /\ job' = job
  BY <1>1, <1>2, Unchanging
<1>4. /\ Fair(Partitions(WorkOf(batch), Ranks, TRUE), Len(batch), TRUE)
      /\ Balanced \in Seq(1..Rows) /\ Len(Balanced) = Rows /\ Permutation(Balanced, Rows)
      /\ Divides(Balanced)
  BY <1>1, <1>2, BalancedRows
<1>5. batch' = Balanced /\ step' = "dispatch"
  BY <1>4 DEF Balance
<1>6. StepInv'
  BY <1>5 DEF StepInv, StepFits
<1>7. BatchInv'
  <2>1. BatchFits(Balanced, "dispatch", job, Rows, PadSize')
    BY <1>1, <1>4 DEF BatchFits
  <2> QED
    BY <1>3, <1>5, <2>1 DEF BatchInv
<1>8. TypesInv'
  BY <1>1, <1>2, SameTypes
<1>9. FreshInv'
  BY <1>1, <1>2 DEF FreshInv, workerVars
<1>10. ProgressInv' /\ LockStep' /\ DoneInv'
  BY <1>5 DEF ProgressInv, LockStep, DoneInv
<1> QED
  BY <1>3, <1>6, <1>7, <1>8, <1>9, <1>10 DEF DispatchInv

\* Padding of a validation
LEMMA PadKeeps ==
  ASSUME DispatchInv, Pad
  PROVE  DispatchInv'
<1>1. /\ step = "prepare" /\ job = "validate" /\ UNCHANGED <<job, length, workerVars>>
      /\ step' = "dispatch"
  BY DEF Pad
<1>2. CallInv /\ BatchInv /\ StepInv /\ TypesInv /\ FreshInv
  BY DEF DispatchInv
<1>3. CallInv' /\ Rows' = Rows /\ job' = job /\ PadSize' = PadSize
  BY <1>1, <1>2, Unchanging
<1>4. PICK n \in Nat \ {0} : n = Rows
  BY <1>2 DEF CallInv, CallFits, Rows
<1>5. batch \in Seq(1..n) /\ Len(batch) = n /\ InPlaceUpTo(batch, n)
  BY <1>1, <1>2, <1>4 DEF BatchInv, BatchFits
<1>6. PICK p \in Nat : p = PadSize /\ \E l \in Nat \ {0} : n + p = Multiple(l, Ranks)
  <2>1. PadSize = PadOf(n)
    BY Zenon, <1>4 DEF PadSize, PadOf, Rows
  <2> QED
    BY <2>1, PadFacts
<1>7. PICK more : more = [i \in 1..p |-> batch[((i - 1) % Len(batch)) + 1]]
  OBVIOUS
<1>8. more \in Seq(1..n) /\ Len(more) = p
  <2>1. ASSUME NEW i \in 1..p PROVE batch[((i - 1) % Len(batch)) + 1] \in 1..n
    <3>1. PICK j \in Nat : j = i - 1
      OBVIOUS
    <3>2. j % n \in 0..(n - 1)
      BY DivMod
    <3>3. (j % n) + 1 \in 1..Len(batch)
      BY <1>5, <3>2
    <3>4. ((i - 1) % Len(batch)) + 1 = (j % n) + 1
      BY <1>5, <3>1
    <3> QED
      BY <1>5, <3>3, <3>4, ElementOfSeq
  <2>2. more \in [1..p -> 1..n]
    BY <1>7, <2>1
  <2> QED
    BY <2>2, FunctionLength
<1>9. PICK b \in Seq(1..n) : b = batch \o more /\ Behind(b, batch, more)
  BY <1>5, <1>8, BehindIs
<1>10. batch' = b
  BY <1>6, <1>7, <1>9 DEF Pad
<1>11. Len(b) = n + p
  BY <1>5, <1>8, <1>9 DEF Behind
<1>12. InPlaceUpTo(b, n)
  <2>1. ASSUME NEW i \in 1..n PROVE b[i] = i
    <3>1. b[i] = batch[i]
      BY <1>5, <1>9 DEF Behind
    <3> QED
      BY <1>5, <3>1 DEF InPlaceUpTo
  <2> QED
    BY <1>11, <2>1 DEF InPlaceUpTo
<1>13. Divides(b)
  BY <1>6, <1>11 DEF Divides
<1>14. StepInv'
  BY <1>1 DEF StepInv, StepFits
<1>15. BatchInv'
  <2>1. BatchFits(b, "dispatch", "validate", n, p)
    BY <1>9, <1>11, <1>12, <1>13 DEF BatchFits
  <2> QED
    BY <1>1, <1>3, <1>4, <1>6, <1>10, <2>1 DEF BatchInv
<1>16. TypesInv'
  BY <1>1, <1>2, SameTypes
<1>17. FreshInv'
  BY <1>1, <1>2 DEF FreshInv, workerVars
<1>18. ProgressInv' /\ LockStep' /\ DoneInv'
  BY <1>1 DEF ProgressInv, LockStep, DoneInv
<1> QED
  BY <1>3, <1>14, <1>15, <1>16, <1>17, <1>18 DEF DispatchInv

\* Before the first mini batch nothing is computed.
LEMMA NothingYet ==
  ASSUME NEW T, NEW x \in Seq(T), NEW exact
  PROVE  <<>> \in Seq(T) /\ Alike(<<>>, SubSeq(x, 1, 0), exact)
<1>1. 0 \in Nat /\ 0 <= 0 /\ 0 <= Len(x)
  BY LenProperties
<1>2. SubSeq(x, 1, 0) \in Seq(T) /\ Len(SubSeq(x, 1, 0)) = 0
  BY <1>1, SubSeqParts
<1>3. SubSeq(x, 1, 0) = <<>>
  BY <1>2, EmptySeq
<1>4. <<>> \in Seq(T)
  BY EmptySeq
<1> QED
  BY <1>3, <1>4 DEF Alike

\* The dispatch of the chunks
LEMMA DispatchKeeps ==
  ASSUME DispatchInv, Dispatch
  PROVE  DispatchInv'
<1>1. /\ step = "dispatch" /\ step' = "wait" /\ job \notin Estimator
      /\ UNCHANGED <<job, length, batch, workerVars>>
      /\ chunk' = [w \in Worker |-> Chunk(RankOf(w))]
  BY DEF Dispatch
<1>2. CallInv /\ BatchInv /\ StepInv /\ TypesInv /\ FreshInv
  BY DEF DispatchInv
<1>3. CallInv' /\ Rows' = Rows /\ job' = job /\ PadSize' = PadSize /\ Exact' = Exact
  BY <1>1, <1>2, Unchanging
<1>4. StepInv'
  BY <1>1, <1>2 DEF StepInv, StepFits
<1>5. BatchInv'
  <2>1. BatchFits(batch, "dispatch", job, Rows, PadSize)
    BY <1>1, <1>2 DEF BatchInv
  <2>2. BatchFits(batch, "wait", job, Rows, PadSize)
    BY <2>1 DEF BatchFits
  <2> QED
    BY <1>1, <1>3, <2>2 DEF BatchInv
<1>6. TypesInv'
  BY <1>1, <1>2, SameTypes
<1>7. FreshInv' /\ DoneInv'
  BY <1>1 DEF FreshInv, DoneInv
<1>8. Size' = Size /\ Per' = Per
  BY <1>1 DEF Size, Per
<1>9. \A w \in Worker : /\ mini'[w] = 1 /\ count'[w] = 0 /\ micro'[w] = <<>>
                        /\ begun'[w] = 0 /\ passes'[w] = 0 /\ output'[w] = <<>>
  BY <1>1, <1>2 DEF FreshInv, workerVars
<1>10. batch \in Seq(1..Rows) /\ Divides(batch) /\ Rows \in Nat /\ Len(batch) \in Nat
  <2>1. batch \in Seq(1..Rows) /\ Divides(batch)
    BY <1>1, <1>2 DEF BatchInv, BatchFits
  <2> QED
    BY <1>2, <2>1, LenProperties DEF CallInv, CallFits, Rows
<1>11. ASSUME NEW w \in Worker PROVE Progress(w, Size, Per)'
  <2>1. chunk'[w] = Chunk(RankOf(w))
    BY <1>1
  <2>2. Chunk(RankOf(w))' = Chunk(RankOf(w))
    BY <1>1 DEF Chunk
  <2>3. RankOf(w) \in 0..(Ranks - 1)
    BY RankFacts
  <2>4. PICK x \in Seq(1..Rows) : x = Chunk(RankOf(w))
    BY <1>10, <2>3, ChunkFacts
  <2>5. PICK l \in Nat \ {0} : l = Size
    BY <1>10, SizeFacts
  <2>6. PICK z \in Nat \ {0} : z = Per
    BY <2>5, DispatchAssumption DEF Per
  <2>7. 1 \in Nat \ {0}
    OBVIOUS
  <2>8. Covered(l, 0, z) = 0
    BY <2>7, PiecesEnd
  <2>9. mini'[w] - 1 = 0
    BY <1>9
  <2>10. Covered(Size, mini[w] - 1, Per)' = 0
    BY <1>8, <2>5, <2>6, <2>8, <2>9
  <2>11. <<>> \in Seq(1..Rows) /\ Alike(<<>>, SubSeq(x, 1, 0), Exact)
    BY NothingYet
  <2>12. Alike(output'[w], SubSeq(chunk'[w], 1, Covered(Size, mini[w] - 1, Per)'), Exact')
    BY <1>3, <1>9, <2>1, <2>4, <2>10, <2>11
  <2>13. output'[w] \in Seq(1..Rows')
    BY <1>3, <1>9, <2>11
  <2> QED
    BY <2>1, <2>2, <2>12, <2>13 DEF Progress
<1>12. ProgressInv'
  BY <1>11 DEF ProgressInv
<1>13. LockStep'
  <2>1. CASE job = "validate"
    <3>1. \A w \in Worker : Idle(w)'
      BY <1>9 DEF Idle
    <3> QED
      BY <1>3, <2>1, <3>1 DEF LockStep
  <2>2. CASE job # "validate"
    <3>1. ASSUME NEW w \in Worker PROVE Past(w, 0, 0, 0, Size, Per)'
      BY <1>9 DEF Past
    <3>2. Together(0, 0, 0, Size, Per)'
      BY <3>1 DEF Together
    <3> QED
      BY <1>3, <2>2, <3>2 DEF LockStep
  <2> QED
    BY <2>1, <2>2
<1> QED
  BY <1>3, <1>4, <1>5, <1>6, <1>7, <1>12, <1>13 DEF DispatchInv

\* What is collected when all workers have returned
LEMMA CollectedRows ==
  ASSUME Static, step = "wait", \A w \in Worker : Returned(w)
  PROVE  Collected \in Seq(1..Rows) /\ Alike(Collected, batch, Exact)
<1>0. Ranks \in Nat /\ Ranks > 0
  BY DispatchAssumption
<1>1. CallInv /\ StepInv /\ BatchInv /\ TypesInv /\ ProgressInv
  BY DEF Static
<1>2. PICK T : T = 1..Rows
  OBVIOUS
<1>3. PICK b \in Seq(T) : b = batch
  BY <1>1, <1>2, WaitSizes
<1>4. PICK l \in Nat \ {0} : l = Size /\ Multiple(l, Ranks) = Len(b)
  BY <1>1, <1>3, WaitSizes
<1>5. PICK z \in Nat \ {0} : z = Per
  BY <1>1, WaitSizes
<1>6. PICK S : S = [i \in 1..Ranks |-> output[Speaker(i)]]
  OBVIOUS
<1>7. ASSUME NEW i \in 1..Ranks
      PROVE  /\ S[i] \in Seq(T)
             /\ Alike(S[i], SubSeq(b, Multiple(l, i - 1) + 1, Multiple(l, i)), Exact)
  <2>1. PICK w \in Worker : w = Speaker(i) /\ RankOf(w) = i - 1
    BY SpeakerIs
  <2>2. S[i] = output[w]
    BY <1>6, <2>1
  <2>3. Progress(w, Size, Per)
    BY <1>1 DEF ProgressInv
  <2>4. output[w] \in Seq(T) /\ Alike(output[w], SubSeq(chunk[w], 1, Covered(l, mini[w] - 1, z)), Exact)
    BY <1>2, <1>4, <1>5, <2>3 DEF Progress
  <2>5. chunk[w] = Chunk(RankOf(w)) /\ chunk[w] \in Seq(T) /\ Len(chunk[w]) = l
    BY <1>2, <1>4, WorkerSizes
  <2>6. PICK m \in Nat \ {0} : m = mini[w] /\ m > Pieces(l, z)
    BY <1>4, <1>5, WorkerSizes
  <2>7. Covered(l, m - 1, z) = l
    BY <2>6, PiecesEnd
  <2>8. SubSeq(chunk[w], 1, Len(chunk[w])) = chunk[w]
    BY <2>5, SubSeqFull
  <2>9. Alike(output[w], chunk[w], Exact)
    BY <2>4, <2>5, <2>6, <2>7, <2>8
  <2>10. PICK r \in 0..(Ranks - 1) : r = i - 1 /\ r + 1 = i
    BY <1>0
  <2>11. Chunk(r) = SubSeq(batch, Multiple(Size, r) + 1, Multiple(Size, r + 1))
    <3>1. Divides(batch) /\ batch \in Seq(1..Rows) /\ Rows \in Nat
      BY <1>1, WaitSizes
    <3> QED
      BY <3>1, ChunkFacts
  <2>12. Chunk(r) = SubSeq(b, Multiple(l, i - 1) + 1, Multiple(l, i))
    BY <1>3, <1>4, <2>10, <2>11
  <2>13. chunk[w] = Chunk(r)
    BY <2>1, <2>5, <2>10
  <2> QED
    BY <2>2, <2>4, <2>9, <2>12, <2>13
<1>8. AlikeParts(S, Ranks, T, l, b, Exact)
  BY <1>7 DEF AlikeParts
<1>9. Len(S) = Ranks
  <2>1. PICK U : U = {output[w] : w \in Worker}
    OBVIOUS
  <2>2. \A i \in 1..Ranks : output[Speaker(i)] \in U
    BY <2>1, SpeakerIs
  <2>3. S \in [1..Ranks -> U]
    BY <1>6, <2>2
  <2> QED
    BY <1>0, <2>3, FunctionLength
<1>10. PICK f : Flat(S, Ranks, f) /\ FlattenSeq(S) = f[Ranks]
  BY <1>0, <1>9, FlattenIs
<1>11. f[Ranks] \in Seq(T) /\ Alike(f[Ranks], b, Exact)
  BY <1>0, <1>4, <1>8, <1>10, FlatAlike
<1>12. Collected = FlattenSeq(S)
  BY Zenon, <1>6 DEF Collected, Speaker
<1> QED
  BY <1>2, <1>3, <1>10, <1>11, <1>12

\* The collection of the outputs
LEMMA CollectKeeps ==
  ASSUME DispatchInv, Collect
  PROVE  DispatchInv'
<1>1. /\ step = "wait" /\ step' = "done" /\ UNCHANGED <<job, length, workerVars>>
      /\ \A w \in Worker : Returned(w)
  BY DEF Collect
<1>2. Static /\ CallInv /\ BatchInv /\ StepInv /\ TypesInv
  BY DEF DispatchInv, Static
<1>3. CallInv' /\ Rows' = Rows /\ job' = job /\ PadSize' = PadSize /\ Exact' = Exact
  BY <1>1, <1>2, Unchanging
<1>4. StepInv'
  BY <1>1, <1>2 DEF StepInv, StepFits
<1>5. TypesInv'
  BY <1>1, <1>2, SameTypes
<1>6. FreshInv' /\ ProgressInv' /\ LockStep'
  BY <1>1 DEF FreshInv, ProgressInv, LockStep
<1>7. Alike(Collected, batch, Exact)
  BY <1>1, <1>2, CollectedRows
<1>8. BatchFits(batch, "wait", job, Rows, PadSize)
  BY <1>1, <1>2 DEF BatchInv
<1>9. CASE job # "validate"
  <2>1. result' = Collected /\ batch' = batch
    BY <1>9 DEF Collect
  <2>2. BatchFits(batch, "done", job, Rows, PadSize)
    BY <1>8, <1>9 DEF BatchFits
  <2>3. BatchInv'
    BY <1>1, <1>3, <2>1, <2>2 DEF BatchInv
  <2>4. DoneInv'
    BY <1>3, <1>7, <2>1 DEF DoneInv
  <2> QED
    BY <1>3, <1>4, <1>5, <1>6, <2>3, <2>4 DEF DispatchInv
<1>10. CASE job = "validate"
  <2>1. PICK n \in Nat \ {0} : n = Rows
    BY <1>2 DEF CallInv, CallFits, Rows
  <2>2. batch \in Seq(1..n) /\ InPlaceUpTo(batch, n) /\ Len(batch) = n + PadSize
    BY <1>8, <1>10, <2>1 DEF BatchFits
  <2>3. PadSize \in Nat
    <3>1. PadSize = PadOf(n)
      BY Zenon, <2>1 DEF PadSize, PadOf, Rows
    <3> QED
      BY <3>1, PadFacts
  <2>4. Len(batch) - PadSize = n /\ n <= Len(batch)
    BY <2>2, <2>3
  <2>5. result' = SubSeq(Collected, 1, n) /\ batch' = SubSeq(batch, 1, n)
    BY <1>10, <2>4 DEF Collect
  <2>6. Collected = batch
    BY <1>7, <1>10 DEF Alike, Exact
  <2>7. result' = batch'
    BY <2>5, <2>6
  <2>8. PICK c : c = SubSeq(batch, 1, n)
    OBVIOUS
  <2>9. c \in Seq(1..n) /\ Slice(c, batch, 0, n)
    <3>1. 0 \in Nat /\ 0 + 1 = 1 /\ 0 <= n
      OBVIOUS
    <3> QED
      BY <2>2, <2>4, <2>8, <3>1, SliceIs
  <2>10. Len(c) = n /\ InPlaceUpTo(c, n)
    <3>1. n - 0 = n /\ \A i \in 1..n : 0 + i = i
      OBVIOUS
    <3>2. Len(c) = n
      BY <2>9, <3>1 DEF Slice
    <3>3. \A i \in 1..n : c[i] = batch[i]
      BY <2>9, <3>1 DEF Slice
    <3> QED
      BY <2>2, <3>2, <3>3 DEF InPlaceUpTo
  <2>11. BatchFits(c, "done", "validate", n, PadSize)
    BY <2>9, <2>10 DEF BatchFits
  <2>12. BatchInv'
    BY <1>1, <1>3, <1>10, <2>1, <2>5, <2>8, <2>11 DEF BatchInv
  <2>13. Alike(result', batch', Exact')
    BY <2>7 DEF Alike
  <2>14. DoneInv'
    BY <2>13 DEF DoneInv
  <2> QED
    BY <1>3, <1>4, <1>5, <1>6, <2>12, <2>14 DEF DispatchInv
<1> QED
  BY <1>9, <1>10

\* The reward and advantage computation on the driver
LEMMA CreditKeeps ==
  ASSUME DispatchInv, Reject \/ Estimate
  PROVE  DispatchInv'
<1>1. /\ UNCHANGED <<job, length, batch, chunk, workerVars>>
      /\ step \in {"dispatch", "corrected"} /\ step' \in {"corrected", "done"}
  BY DEF Reject, Estimate
<1>2. CallInv /\ BatchInv /\ StepInv /\ TypesInv
  BY DEF DispatchInv
<1>3. job \in Estimator
  BY <1>2 DEF Reject, Estimate, StepInv, StepFits
<1>4. CallInv' /\ Rows' = Rows /\ job' = job /\ PadSize' = PadSize
  BY <1>1, <1>2, Unchanging
<1>5. StepInv'
  BY <1>1, <1>3, <1>4 DEF StepInv, StepFits
<1>6. BatchInv'
  <2>1. job # "validate"
    BY <1>3 DEF Estimator
  <2>2. BatchFits(batch, step, job, Rows, PadSize)
    BY <1>2 DEF BatchInv
  <2>3. BatchFits(batch, step', job, Rows, PadSize)
    BY <1>1, <2>1, <2>2 DEF BatchFits
  <2> QED
    BY <1>1, <1>4, <2>3 DEF BatchInv
<1>7. TypesInv'
  BY <1>1, <1>2, SameTypes
<1>8. FreshInv' /\ ProgressInv' /\ LockStep' /\ DoneInv'
  BY <1>1, <1>3, <1>4 DEF FreshInv, ProgressInv, LockStep, DoneInv
<1> QED
  BY <1>4, <1>5, <1>6, <1>7, <1>8 DEF DispatchInv

-----------------------------------------------------------------------------
(* The workers' steps *)

Working == step = "wait" /\ step' = "wait" /\ UNCHANGED <<job, length, batch, chunk>>

\* A step of a worker leaves the batch and the chunks alone,
LEMMA WorkerFrame ==
  ASSUME Working
  PROVE  /\ Size' = Size /\ Per' = Per /\ Rows' = Rows /\ Exact' = Exact /\ job' = job
         /\ \A w \in Worker : chunk'[w] = chunk[w] /\ Chunk(RankOf(w))' = Chunk(RankOf(w))
BY DEF Working, Size, Per, Rows, Exact, Chunk

\* so only what the workers have is to be shown.
LEMMA WorkerKeeps ==
  ASSUME DispatchInv, Working, TypesInv', \A w \in Worker : Progress(w, Size, Per)', LockStep'
  PROVE  DispatchInv'
<1>1. CallInv /\ BatchInv /\ StepInv
  BY DEF DispatchInv
<1>2. step = "wait" /\ step' = "wait" /\ UNCHANGED <<job, length, batch>>
  BY DEF Working
<1>3. CallInv' /\ Rows' = Rows /\ job' = job /\ PadSize' = PadSize
  BY <1>1, <1>2, Unchanging
<1>4. StepInv' /\ BatchInv'
  BY <1>1, <1>2, <1>3 DEF StepInv, BatchInv
<1>5. FreshInv' /\ DoneInv' /\ ProgressInv'
  BY <1>2 DEF FreshInv, DoneInv, ProgressInv
<1> QED
  BY <1>3, <1>4, <1>5 DEF DispatchInv

\* A worker that has computed nothing
LEMMA SameProgress ==
  ASSUME Static, Working, NEW w \in Worker, output'[w] = output[w], mini'[w] = mini[w]
  PROVE  Progress(w, Size, Per)'
<1>1. Progress(w, Size, Per)
  BY DEF Static, ProgressInv, Working
<1>2. Size' = Size /\ Per' = Per /\ Rows' = Rows /\ Exact' = Exact
      /\ chunk'[w] = chunk[w] /\ Chunk(RankOf(w))' = Chunk(RankOf(w))
  BY WorkerFrame
<1> QED
  BY <1>1, <1>2 DEF Progress

\* Generation, without micro batches
LEMMA GenerateKeeps ==
  ASSUME DispatchInv, NEW w \in Worker, Generate(w)
  PROVE  DispatchInv'
<1>1. Static /\ TypesInv /\ LockStep
  BY DEF DispatchInv, Static
<1>2. /\ job = "validate" /\ AtWork(w) /\ output' = [output EXCEPT ![w] = chunk[w]]
      /\ mini' = [mini EXCEPT ![w] = 2] /\ UNCHANGED <<count, micro, begun, passes>>
  BY DEF Generate
<1>3. Working
  BY DEF Generate, AtWork, Working
<1>4. step = "wait"
  BY <1>3 DEF Working
<1>5. TypesInv'
  BY <1>1, <1>2 DEF TypesInv
<1>6. Progress(w, Size, Per)'
  <2>1. Size' = Size /\ Per' = Per /\ Rows' = Rows /\ Exact' = Exact
        /\ chunk'[w] = chunk[w] /\ Chunk(RankOf(w))' = Chunk(RankOf(w))
    BY <1>3, WorkerFrame
  <2>2. PICK x \in Seq(1..Rows) : x = chunk[w] /\ Len(x) = Size
    BY <1>1, <1>4, WorkerSizes
  <2>3. PICK l \in Nat \ {0} : l = Size
    BY <1>1, <1>4, WaitSizes DEF Static
  <2>4. Per = l
    BY <1>2, <2>3 DEF Per
  <2>5. mini'[w] = 2 /\ output'[w] = x
    BY <1>1, <1>2, <2>2 DEF TypesInv
  <2>6. mini'[w] - 1 = 1
    BY <2>5
  <2>7. Covered(l, 1, l) = l
    <3>1. 1 \in Nat \ {0}
      OBVIOUS
    <3> QED
      BY <3>1, PiecesEnd
  <2>8. Covered(Size, mini[w] - 1, Per)' = l
    BY <2>1, <2>3, <2>4, <2>6, <2>7
  <2>9. SubSeq(x, 1, l) = x
    BY <2>2, <2>3, SubSeqFull
  <2>10. Alike(x, x, Exact)
    BY DEF Alike
  <2>11. Alike(output'[w], SubSeq(chunk'[w], 1, Covered(Size, mini[w] - 1, Per)'), Exact')
    BY <2>1, <2>2, <2>5, <2>8, <2>9, <2>10
  <2>12. chunk'[w] = Chunk(RankOf(w))'
    BY <1>1, <1>4, <2>1, WorkerSizes
  <2>13. output'[w] \in Seq(1..Rows')
    BY <2>1, <2>5
  <2> QED
    BY <2>11, <2>12, <2>13 DEF Progress
<1>7. ASSUME NEW v \in Worker PROVE Progress(v, Size, Per)'
  <2>1. CASE v = w
    BY <1>6, <2>1
  <2>2. CASE v # w
    <3>1. output'[v] = output[v] /\ mini'[v] = mini[v]
      BY <1>1, <1>2, <2>2 DEF TypesInv
    <3> QED
      BY <1>1, <1>3, <3>1, SameProgress
  <2> QED
    BY <2>1, <2>2
<1>8. LockStep'
  <2>1. \A v \in Worker : Idle(v)
    BY <1>1, <1>2, <1>4 DEF LockStep
  <2>2. \A v \in Worker : Idle(v)'
    BY <1>2, <2>1 DEF Idle
  <2> QED
    BY <1>2, <1>3, <2>2 DEF LockStep, Working
<1> QED
  BY <1>3, <1>5, <1>7, <1>8, WorkerKeeps

\* Who counts or computes is in the collective part of a call.
LEMMA CalledIdle ==
  ASSUME LockStep, step = "wait", NEW w \in Worker, count[w] > 0 \/ micro[w] # <<>> \/ job # "validate"
  PROVE  job # "validate" /\ \E m, P, M \in Nat : Together(m, P, M, Size, Per)
BY DEF LockStep, Idle

\* A worker whose state is unchanged
LEMMA SameWithin ==
  ASSUME NEW w, NEW m, NEW P, NEW M, Size' = Size, Per' = Per,
         mini'[w] = mini[w], count'[w] = count[w], micro'[w] = micro[w],
         begun'[w] = begun[w], passes'[w] = passes[w]
  PROVE  /\ Within(w, m, P, M, Size, Per) => Within(w, m, P, M, Size, Per)'
         /\ Past(w, m, P, M, Size, Per) => Past(w, m, P, M, Size, Per)'
BY DEF Within, Past

\* A worker arrives at the all_reduce.
LEMMA CountKeeps ==
  ASSUME DispatchInv, NEW w \in Worker, Count(w)
  PROVE  DispatchInv'
<1>1. Static /\ TypesInv /\ LockStep /\ CallInv
  BY DEF DispatchInv, Static
<1>2. /\ job # "validate" /\ AtWork(w) /\ count[w] = 0
      /\ count' = [count EXCEPT ![w] = Needed(w)]
      /\ UNCHANGED <<mini, micro, begun, passes, output>>
  BY DEF Count
<1>3. Working
  BY DEF Count, AtWork, Working
<1>4. step = "wait" /\ Size' = Size /\ Per' = Per /\ job' = job /\ step' = "wait"
  BY <1>3, WorkerFrame DEF Working
<1>5. PICK m \in Nat, P \in Nat, M \in Nat : Together(m, P, M, Size, Per)
  BY <1>1, <1>2, <1>4, CalledIdle
<1>6. Past(w, m, P, M, Size, Per)
  <2>1. Within(w, m, P, M, Size, Per) \/ Past(w, m, P, M, Size, Per)
    BY <1>5 DEF Together
  <2>2. ~Within(w, m, P, M, Size, Per)
    BY <1>2 DEF Within
  <2> QED
    BY <2>1, <2>2
<1>7. PICK n \in Nat \ {0} : n = m + 1
  OBVIOUS
<1>8. mini[w] = n /\ n <= Pieces(Size, Per)
  <2>1. mini[w] = n
    BY <1>6, <1>7 DEF Past
  <2> QED
    BY <1>1, <1>2, <1>4, <2>1, WorkerSizes
<1>9. /\ Mini(w) \in Seq(1..Rows) /\ Len(Mini(w)) = PieceLen(Size, n, Per)
      /\ PieceLen(Size, n, Per) \in Nat \ {0}
  BY <1>1, <1>4, <1>8, WorkerMini
<1>10. Needed(w) \in Nat \ {0} /\ Needed(w) <= PieceLen(Size, n, Per)
  <2>1. length \in [1..Rows -> Nat \ {0}] /\ Rows \in Nat
    BY <1>1 DEF CallInv, CallFits, Rows
  <2>2. Len(Mini(w)) \in Nat \ {0}
    BY <1>9
  <2>3. Needed(w) \in Nat \ {0} /\ Needed(w) <= Len(Mini(w))
    BY <1>9, <2>1, <2>2, NeededFacts
  <2> QED
    BY <1>9, <2>3
<1>11. TypesInv'
  <2>1. count' \in [Worker -> Nat]
    BY <1>1, <1>2, <1>10 DEF TypesInv
  <2> QED
    BY <1>1, <1>2, <2>1 DEF TypesInv
<1>12. count'[w] = Needed(w) /\ \A v \in Worker : v # w => count'[v] = count[v]
  BY <1>1, <1>2 DEF TypesInv
<1>13. Past(w, m, P, M, Size, Per)'
  <2>1. mini'[w] = m + 1 /\ micro'[w] = <<>> /\ begun'[w] = 0 /\ passes'[w] = P + M
    BY <1>2, <1>6 DEF Past
  <2>2. m + 1 <= Pieces(Size, Per)' /\ count'[w] <= PieceLen(Size, m + 1, Per)'
    BY <1>4, <1>7, <1>8, <1>10, <1>12
  <2> QED
    BY <2>1, <2>2 DEF Past
<1>14. ASSUME NEW v \in Worker PROVE Within(v, m, P, M, Size, Per)' \/ Past(v, m, P, M, Size, Per)'
  <2>1. CASE v = w
    BY <1>13, <2>1
  <2>2. CASE v # w
    <3>1. Within(v, m, P, M, Size, Per) \/ Past(v, m, P, M, Size, Per)
      BY <1>5 DEF Together
    <3>2. /\ mini'[v] = mini[v] /\ count'[v] = count[v] /\ micro'[v] = micro[v]
          /\ begun'[v] = begun[v] /\ passes'[v] = passes[v]
      BY <1>2, <1>12, <2>2
    <3> QED
      BY <1>4, <3>1, <3>2, SameWithin
  <2> QED
    BY <2>1, <2>2
<1>15. LockStep'
  <2>1. Together(m, P, M, Size, Per)'
    BY <1>14 DEF Together
  <2> QED
    BY <1>2, <1>4, <2>1 DEF LockStep
<1>16. \A v \in Worker : Progress(v, Size, Per)'
  BY <1>1, <1>2, <1>3, SameProgress
<1> QED
  BY <1>3, <1>11, <1>15, <1>16, WorkerKeeps

\* A forward pass
LEMMA ForwardKeeps ==
  ASSUME DispatchInv, NEW w \in Worker, Forward(w)
  PROVE  DispatchInv'
<1>1. Static /\ TypesInv /\ LockStep
  BY DEF DispatchInv, Static
<1>2. /\ AtWork(w) /\ begun[w] < Len(micro[w])
      /\ begun' = [begun EXCEPT ![w] = @ + 1] /\ passes' = [passes EXCEPT ![w] = @ + 1]
      /\ UNCHANGED <<mini, count, micro, output>>
  BY DEF Forward
<1>3. Working
  BY DEF Forward, AtWork, Working
<1>4. step = "wait" /\ Size' = Size /\ Per' = Per /\ job' = job /\ step' = "wait"
  BY <1>3, WorkerFrame DEF Working
<1>5. begun[w] \in Nat /\ passes[w] \in Nat
  BY <1>1 DEF TypesInv
<1>6. micro[w] # <<>>
  BY <1>2, <1>5
<1>7. PICK m \in Nat, P \in Nat, M \in Nat : Together(m, P, M, Size, Per)
  BY <1>1, <1>4, <1>6, CalledIdle
<1>8. job # "validate"
  BY <1>1, <1>4, <1>6, CalledIdle
<1>9. Within(w, m, P, M, Size, Per)
  <2>1. Within(w, m, P, M, Size, Per) \/ Past(w, m, P, M, Size, Per)
    BY <1>7 DEF Together
  <2> QED
    BY <1>6, <2>1 DEF Past
<1>10. begun[w] + 1 <= M
  <2>1. Len(micro[w]) = M
    BY <1>1, <1>4, <1>9, WithinFacts
  <2> QED
    BY <1>2, <1>5, <2>1
<1>11. TypesInv'
  BY <1>1, <1>2 DEF TypesInv
<1>12. /\ begun'[w] = begun[w] + 1 /\ passes'[w] = passes[w] + 1
       /\ \A v \in Worker : v # w => begun'[v] = begun[v] /\ passes'[v] = passes[v]
  BY <1>1, <1>2 DEF TypesInv
<1>13. Within(w, m, P, M, Size, Per)'
  <2>1. /\ mini[w] = m /\ m > 0 /\ m <= Pieces(Size, Per)
        /\ M > 0 /\ Whole(micro[w], PieceLen(Size, m, Per), M, FALSE)
        /\ passes[w] = P + begun[w] /\ count[w] > 0
    BY <1>9 DEF Within
  <2>2. begun'[w] <= M
    BY <1>10, <1>12
  <2>3. passes'[w] = P + begun'[w]
    BY <1>5, <1>12, <2>1
  <2>4. mini'[w] = m /\ micro'[w] = micro[w] /\ count'[w] > 0
    BY <1>2, <2>1
  <2> QED
    BY <1>4, <2>1, <2>2, <2>3, <2>4 DEF Within
<1>14. ASSUME NEW v \in Worker PROVE Within(v, m, P, M, Size, Per)' \/ Past(v, m, P, M, Size, Per)'
  <2>1. CASE v = w
    BY <1>13, <2>1
  <2>2. CASE v # w
    <3>1. Within(v, m, P, M, Size, Per) \/ Past(v, m, P, M, Size, Per)
      BY <1>7 DEF Together
    <3>2. /\ mini'[v] = mini[v] /\ count'[v] = count[v] /\ micro'[v] = micro[v]
          /\ begun'[v] = begun[v] /\ passes'[v] = passes[v]
      BY <1>2, <1>12, <2>2
    <3> QED
      BY <1>4, <3>1, <3>2, SameWithin
  <2> QED
    BY <2>1, <2>2
<1>15. LockStep'
  <2>1. Together(m, P, M, Size, Per)'
    BY <1>14 DEF Together
  <2> QED
    BY <1>4, <1>8, <2>1 DEF LockStep
<1>16. \A v \in Worker : Progress(v, Size, Per)'
  BY <1>1, <1>2, <1>3, SameProgress
<1> QED
  BY <1>3, <1>11, <1>15, <1>16, WorkerKeeps

\* The largest number of micro batches
Most == CHOOSE n \in {count[v] : v \in Worker} : \A v \in Worker : count[v] <= n

\* The maximum of the counts is one of them.
LEMMA MostFacts ==
  ASSUME TypesInv, NEW q \in Nat, \A v \in Worker : 0 < count[v] /\ count[v] <= q
  PROVE  Most \in Nat /\ 0 < Most /\ Most <= q
<1>0. \A v \in Worker : count[v] \in Nat
  BY DEF TypesInv
<1>1. \E v \in Worker : TRUE
  <2>1. 1 \in 1..Ranks
    BY DispatchAssumption
  <2> QED
    BY <2>1, RankFacts
<1>2. PICK S : S = {q - count[v] : v \in Worker}
  OBVIOUS
<1>3. S \in SUBSET Nat /\ S # {}
  BY <1>0, <1>1, <1>2
<1>4. PICK i \in S : \A j \in S : i <= j
  BY <1>3, LeastExists
<1>5. PICK u \in Worker : i = q - count[u]
  BY <1>2
<1>6. ASSUME NEW v \in Worker PROVE count[v] <= count[u]
  <2>1. i <= q - count[v]
    BY <1>2, <1>4
  <2> QED
    BY <1>0, <1>5, <2>1
<1>7. PICK C : C = {count[v] : v \in Worker}
  OBVIOUS
<1>8. count[u] \in C
  BY <1>7
<1>9. PICK n : n = CHOOSE c \in C : \A v \in Worker : count[v] <= c
  OBVIOUS
<1>10. n \in C
  BY Zenon, <1>6, <1>8, <1>9
<1>11. n = Most
  BY Zenon, <1>7, <1>9 DEF Most
<1> QED
  BY <1>0, <1>7, <1>10, <1>11

\* A mini batch is split into as many micro batches as were agreed on.
LEMMA Splits ==
  ASSUME length \in [1..Rows -> Nat \ {0}], NEW rows \in Seq(1..Rows), NEW q \in Nat, q > 0,
         Len(rows) = q, NEW k \in Nat, k > 0, k <= q
  PROVE  /\ Fair(Partitions(WorkOf(rows), k, FALSE), 0, FALSE)
         /\ Whole(MicroBatches(WorkOf(rows), k), q, k, FALSE)
<1>1. PICK work : work = WorkOf(rows)
  OBVIOUS
<1>2. Weights(work, q)
  BY <1>1, WorkPositive
<1>3. Shareable(q, k, FALSE)
  BY DEF Shareable
<1>4. Whole(Partitions(work, k, FALSE), q, k, FALSE)
  BY <1>2, <1>3, PartitionsWhole
<1>5. Fair(Partitions(work, k, FALSE), 0, FALSE)
  BY <1>4, FairParts
<1>6. Whole(MicroBatches(work, k), q, k, FALSE)
  BY <1>2, MicroBatchesWhole
<1> QED
  BY <1>1, <1>5, <1>6

\* The all_reduce, and the split into micro batches
LEMMA AllReduceKeeps ==
  ASSUME DispatchInv, AllReduce
  PROVE  DispatchInv'
<1>1. Static /\ TypesInv /\ LockStep /\ CallInv
  BY DEF DispatchInv, Static
<1>2. \A w \in Worker : AtWork(w) /\ count[w] > 0 /\ micro[w] = <<>>
  BY DEF AllReduce, Reducing
<1>3. PICK u \in Worker : TRUE
  <2>1. 1 \in 1..Ranks
    BY DispatchAssumption
  <2> QED
    BY <2>1, RankFacts
<1>4. step = "wait"
  BY <1>2, <1>3 DEF AtWork
<1>5. PICK m \in Nat, P \in Nat, M \in Nat : Together(m, P, M, Size, Per)
  BY <1>1, <1>2, <1>3, <1>4, CalledIdle
<1>6. job # "validate"
  BY <1>1, <1>2, <1>3, <1>4, CalledIdle
<1>7. ASSUME NEW w \in Worker PROVE Past(w, m, P, M, Size, Per)
  <2>1. Within(w, m, P, M, Size, Per) \/ Past(w, m, P, M, Size, Per)
    BY <1>5 DEF Together
  <2>2. ~Within(w, m, P, M, Size, Per)
    BY <1>1, <1>2, <1>4, WithinFacts
  <2> QED
    BY <2>1, <2>2
<1>8. PICK n \in Nat \ {0} : n = m + 1
  OBVIOUS
<1>9. n <= Pieces(Size, Per) /\ \A w \in Worker : mini[w] = n
  BY <1>2, <1>3, <1>7, <1>8 DEF Past
<1>10. PICK q \in Nat : q = PieceLen(Size, n, Per) /\ q > 0
  BY <1>1, <1>3, <1>4, <1>9, WorkerMini
<1>11. \A w \in Worker : 0 < count[w] /\ count[w] <= q
  BY <1>2, <1>7, <1>8, <1>10 DEF Past
<1>12. PICK k \in Nat : k = Most /\ k > 0 /\ k <= q
  <2>1. Most \in Nat /\ 0 < Most /\ Most <= q
    BY <1>1, <1>11, MostFacts
  <2> QED
    BY <2>1
<1>13. \A w \in Worker : Agreed(w) = k
  BY Zenon, <1>12 DEF Agreed, Most
<1>14. ASSUME NEW w \in Worker
       PROVE  /\ Fair(Partitions(WorkOf(Mini(w)), Agreed(w), FALSE), 0, FALSE)
              /\ Whole(MicroBatches(WorkOf(Mini(w)), Agreed(w)), q, k, FALSE)
  <2>1. PICK rows \in Seq(1..Rows) : rows = Mini(w) /\ Len(rows) = q
    BY <1>1, <1>4, <1>9, <1>10, WorkerMini
  <2>2. length \in [1..Rows -> Nat \ {0}]
    BY <1>1 DEF CallInv, CallFits, Rows
  <2>3. Fair(Partitions(WorkOf(rows), k, FALSE), 0, FALSE) /\ Whole(MicroBatches(WorkOf(rows), k), q, k, FALSE)
    BY <1>10, <1>12, <2>1, <2>2, Splits
  <2> QED
    BY <1>13, <2>1, <2>3
<1>15. /\ micro' = [w \in Worker |-> MicroBatches(WorkOf(Mini(w)), Agreed(w))]
       /\ UNCHANGED <<step, job, length, batch, chunk, mini, count, begun, passes, output>>
  BY <1>14 DEF AllReduce
<1>16. Working
  BY <1>4, <1>15 DEF Working
<1>17. Size' = Size /\ Per' = Per /\ job' = job /\ step' = "wait"
  BY <1>16, WorkerFrame DEF Working
<1>18. TypesInv'
  BY <1>1, <1>15 DEF TypesInv
<1>19. ASSUME NEW w \in Worker PROVE Within(w, n, P + M, k, Size, Per)'
  <2>1. Whole(micro'[w], q, k, FALSE)
    BY <1>14, <1>15
  <2>2. mini'[w] = n /\ begun'[w] = 0 /\ passes'[w] = P + M /\ count'[w] > 0
    BY <1>2, <1>7, <1>9, <1>15 DEF Past
  <2>3. passes'[w] = (P + M) + begun'[w] /\ begun'[w] <= k /\ n > 0
    BY <2>2
  <2>4. n <= Pieces(Size, Per)' /\ PieceLen(Size, n, Per)' = q
    BY <1>9, <1>10, <1>17
  <2> QED
    BY <1>12, <2>1, <2>2, <2>3, <2>4 DEF Within
<1>20. LockStep'
  <2>1. Together(n, P + M, k, Size, Per)'
    BY <1>19 DEF Together
  <2>2. n \in Nat /\ P + M \in Nat /\ k \in Nat
    OBVIOUS
  <2> QED
    BY <1>6, <1>17, <2>1, <2>2 DEF LockStep
<1>21. \A v \in Worker : Progress(v, Size, Per)'
  BY <1>1, <1>15, <1>16, SameProgress
<1> QED
  BY <1>16, <1>18, <1>20, <1>21, WorkerKeeps

-----------------------------------------------------------------------------
(* The end of a mini batch *)

\* What is taken by a permutation has the same rows.
LEMMA TakenAlike ==
  ASSUME NEW n \in Nat, NEW T, NEW D \in Seq(T), Len(D) = n,
         NEW indices, Permutation(indices, n), DOMAIN indices = 1..n
  PROVE  Alike(Taken(D, indices), D, FALSE)
<1>1. PICK x \in Seq(T) : x = Taken(D, indices) /\ Len(x) = n
  BY RestoredIs
<1>3. ASSUME NEW i \in 1..n PROVE indices[i] \in 1..n /\ x[i] = D[indices[i]]
  <2>1. indices[i] \in 1..n
    BY PermutationFacts
  <2>2. x = [j \in 1..n |-> D[indices[j]]]
    BY Zenon, <1>1 DEF Taken
  <2> QED
    BY <2>1, <2>2
<1>4. \A r : r \in ToSet(x) => r \in ToSet(D)
  BY <1>1, <1>3, ElementsOf
<1>5. ASSUME NEW r \in ToSet(D) PROVE r \in ToSet(x)
  <2>1. PICK i \in 1..n : D[i] = r
    BY ElementsOf
  <2>2. PICK j \in 1..n : indices[j] = i
    BY PermutationFacts
  <2>3. j \in 1..Len(x) /\ x[j] = r
    BY <1>1, <1>3, <2>1, <2>2
  <2> QED
    BY <2>3, ElementsOf
<1>6. ToSet(x) = ToSet(D)
  BY <1>4, <1>5
<1> QED
  BY <1>1, <1>6 DEF Alike

\* What a worker adds to its output
Appended(w) ==
  LET indices == FlattenSeq(micro[w])
      computed == [i \in DOMAIN indices |-> Mini(w)[indices[i]]]
  IN  IF job = "update" THEN computed ELSE Restored(computed, indices)

\* What a mini batch adds to the output is alike its rows.
LEMMA PartAlike ==
  ASSUME Static, step = "wait", NEW w \in Worker,
         NEW m \in Nat, NEW P \in Nat, NEW M \in Nat, Within(w, m, P, M, Size, Per)
  PROVE  Appended(w) \in Seq(1..Rows) /\ Alike(Appended(w), Mini(w), Exact)
<1>1. m \in Nat \ {0} /\ mini[w] = m /\ m <= Pieces(Size, Per)
  BY DEF Within
<1>2. M > 0
  BY DEF Within
<1>3. PICK T : T = 1..Rows
  OBVIOUS
<1>4. PICK q \in Nat : q = PieceLen(Size, m, Per)
  BY <1>1, WorkerMini
<1>5. PICK D \in Seq(T) : D = Mini(w) /\ Len(D) = q
  BY <1>1, <1>3, <1>4, WorkerMini
<1>6. Whole(micro[w], q, M, FALSE)
  BY <1>4 DEF Within
<1>7. PICK indices : indices = FlattenSeq(micro[w])
  OBVIOUS
<1>8. Permutation(indices, q)
  BY <1>2, <1>6, <1>7, WholeFlat
<1>9. DOMAIN indices = 1..q
  BY <1>2, <1>6, <1>7, WholeFlat
<1>10. PICK x \in Seq(T) : x = Taken(D, indices)
  BY <1>5, <1>8, <1>9, RestoredIs
<1>11. Alike(x, D, FALSE)
  BY <1>5, <1>8, <1>9, <1>10, TakenAlike
<1>12. Restored(x, indices) = D
  BY <1>5, <1>8, <1>9, <1>10, RestoredIs
<1>13. Appended(w) = IF job = "update" THEN x ELSE Restored(x, indices)
  BY Zenon, <1>5, <1>7, <1>10 DEF Appended, Taken
<1>14. CASE job = "update"
  <2>1. Appended(w) = x
    BY <1>13, <1>14
  <2>2. Alike(x, D, Exact)
    BY <1>11, <1>14 DEF Alike, Exact
  <2> QED
    BY <1>3, <1>5, <2>1, <2>2
<1>15. CASE job # "update"
  <2>1. Appended(w) = D
    BY <1>12, <1>13, <1>15
  <2>2. Alike(D, D, Exact)
    BY DEF Alike
  <2> QED
    BY <1>3, <1>5, <2>1, <2>2
<1> QED
  BY <1>14, <1>15

\* A mini batch ends.
LEMMA MiniEndsKeeps ==
  ASSUME DispatchInv, NEW w \in Worker, MiniEnds(w)
  PROVE  DispatchInv'
<1>1. Static /\ TypesInv /\ LockStep
  BY DEF DispatchInv, Static
<1>2. /\ AtWork(w) /\ micro[w] # <<>> /\ begun[w] = Len(micro[w])
      /\ mini' = [mini EXCEPT ![w] = @ + 1] /\ count' = [count EXCEPT ![w] = 0]
      /\ micro' = [micro EXCEPT ![w] = <<>>] /\ begun' = [begun EXCEPT ![w] = 0]
      /\ UNCHANGED passes
  BY DEF MiniEnds
<1>3. output' = [output EXCEPT ![w] = @ \o Appended(w)]
  BY Zenon DEF MiniEnds, Appended
<1>4. Working
  BY DEF MiniEnds, AtWork, Working
<1>5. step = "wait" /\ Size' = Size /\ Per' = Per /\ job' = job /\ step' = "wait"
      /\ Rows' = Rows /\ Exact' = Exact
      /\ chunk'[w] = chunk[w] /\ Chunk(RankOf(w))' = Chunk(RankOf(w))
  BY <1>4, WorkerFrame DEF Working
<1>6. PICK m \in Nat, P \in Nat, M \in Nat : Together(m, P, M, Size, Per)
  BY <1>1, <1>2, <1>5, CalledIdle
<1>7. job # "validate"
  BY <1>1, <1>2, <1>5, CalledIdle
<1>8. Within(w, m, P, M, Size, Per)
  <2>1. Within(w, m, P, M, Size, Per) \/ Past(w, m, P, M, Size, Per)
    BY <1>6 DEF Together
  <2> QED
    BY <1>2, <2>1 DEF Past
<1>9. m \in Nat \ {0} /\ mini[w] = m /\ m <= Pieces(Size, Per) /\ begun[w] = M /\ passes[w] = P + M
  BY <1>1, <1>2, <1>5, <1>8, WithinFacts
<1>10. TypesInv'
  BY <1>1, <1>2, <1>3 DEF TypesInv
<1>11. /\ mini'[w] = m + 1 /\ count'[w] = 0 /\ micro'[w] = <<>> /\ begun'[w] = 0
       /\ output'[w] = output[w] \o Appended(w)
       /\ \A v \in Worker : v # w =>
            /\ mini'[v] = mini[v] /\ count'[v] = count[v] /\ micro'[v] = micro[v]
            /\ begun'[v] = begun[v] /\ output'[v] = output[v]
  BY <1>1, <1>2, <1>3, <1>9 DEF TypesInv
<1>12. Past(w, m, P, M, Size, Per)'
  BY <1>2, <1>9, <1>11 DEF Past
<1>13. ASSUME NEW v \in Worker PROVE Within(v, m, P, M, Size, Per)' \/ Past(v, m, P, M, Size, Per)'
  <2>1. CASE v = w
    BY <1>12, <2>1
  <2>2. CASE v # w
    <3>1. Within(v, m, P, M, Size, Per) \/ Past(v, m, P, M, Size, Per)
      BY <1>6 DEF Together
    <3>2. /\ mini'[v] = mini[v] /\ count'[v] = count[v] /\ micro'[v] = micro[v]
          /\ begun'[v] = begun[v] /\ passes'[v] = passes[v]
      BY <1>2, <1>11, <2>2
    <3> QED
      BY <1>5, <3>1, <3>2, SameWithin
  <2> QED
    BY <2>1, <2>2
<1>14. LockStep'
  <2>1. Together(m, P, M, Size, Per)'
    BY <1>13 DEF Together
  <2> QED
    BY <1>5, <1>7, <2>1 DEF LockStep
<1>15. Progress(w, Size, Per)'
  <2>1. PICK T : T = 1..Rows
    OBVIOUS
  <2>2. Progress(w, Size, Per)
    BY <1>1, <1>5 DEF Static, ProgressInv
  <2>3. PICK u \in Seq(T) : u = output[w]
    BY <2>1, <2>2 DEF Progress
  <2>4. PICK v : v = SubSeq(chunk[w], 1, Covered(Size, m - 1, Per))
    OBVIOUS
  <2>5. Alike(u, v, Exact)
    BY <1>9, <2>2, <2>3, <2>4 DEF Progress
  <2>6. PICK x \in Seq(T) : x = Appended(w)
    BY <1>1, <1>5, <1>8, <2>1, PartAlike
  <2>7. PICK y \in Seq(T) : y = Mini(w)
    BY <1>1, <1>5, <1>9, <2>1, WorkerMini
  <2>8. Alike(x, y, Exact)
    BY <1>1, <1>5, <1>8, <2>6, <2>7, PartAlike
  <2>9. v \o y = SubSeq(chunk[w], 1, Covered(Size, m, Per))
    BY <1>1, <1>5, <1>9, <2>4, <2>7, WorkerMini
  <2>10. v \in Seq(T)
    <3>1. PICK l \in Nat \ {0} : l = Size
      BY <1>1, <1>5, WaitSizes DEF Static
    <3>2. PICK z \in Nat \ {0} : z = Per
      BY <1>1, <1>5, WaitSizes DEF Static
    <3>3. PICK c \in Nat : c = Covered(Size, m - 1, Per) /\ c <= l
      <4>1. CASE m = 1
        <5>1. Covered(l, 0, z) = 0
          BY <1>9, PiecesEnd
        <5>2. m - 1 = 0
          BY <4>1
        <5> QED
          BY <3>1, <3>2, <5>1, <5>2
      <4>2. CASE m # 1
        <5>1. m - 1 \in Nat \ {0}
          BY <1>9, <4>2
        <5>2. Covered(l, m - 1, z) \in Nat /\ Covered(l, m - 1, z) <= l
          BY <5>1, PiecesEnd
        <5> QED
          BY <3>1, <3>2, <5>2
      <4> QED
        BY <4>1, <4>2
    <3>4. PICK k \in Seq(T) : k = chunk[w] /\ Len(k) = l
      BY <1>1, <1>5, <2>1, <3>1, WorkerSizes
    <3>5. c <= Len(k) /\ Len(k) \in Nat /\ Len(k) <= Len(k)
      BY <3>1, <3>3, <3>4
    <3>6. SubSeq(k, 1, c) \in Seq(T)
      BY <3>5, SubSeqParts
    <3> QED
      BY <2>4, <3>3, <3>4, <3>6
  <2>11. u \o x \in Seq(T) /\ Alike(u \o x, v \o y, Exact)
    BY <2>5, <2>8, <2>10, AlikeBehind
  <2>12. mini'[w] - 1 = m
    BY <1>9, <1>11
  <2>13. Alike(output'[w], SubSeq(chunk'[w], 1, Covered(Size, mini[w] - 1, Per)'), Exact')
    BY <1>5, <1>11, <2>3, <2>6, <2>9, <2>11, <2>12
  <2>14. output'[w] \in Seq(1..Rows')
    BY <1>5, <1>11, <2>1, <2>3, <2>6, <2>11
  <2>15. chunk'[w] = Chunk(RankOf(w))'
    BY <1>5, <2>2 DEF Progress
  <2> QED
    BY <2>13, <2>14, <2>15 DEF Progress
<1>16. ASSUME NEW v \in Worker PROVE Progress(v, Size, Per)'
  <2>1. CASE v = w
    BY <1>15, <2>1
  <2>2. CASE v # w
    <3>1. output'[v] = output[v] /\ mini'[v] = mini[v]
      BY <1>11, <2>2
    <3> QED
      BY <1>1, <1>4, <3>1, SameProgress
  <2> QED
    BY <2>1, <2>2
<1> QED
  BY <1>4, <1>10, <1>14, <1>16, WorkerKeeps

\* Nothing happens.
LEMMA StillKeeps ==
  ASSUME DispatchInv, UNCHANGED dispatchVars
  PROVE  DispatchInv'
<1>1. UNCHANGED <<job, length, step, batch, chunk, mini, count, micro, begun, passes, output, result>>
  BY DEF dispatchVars
<1>2. CallInv' /\ StepInv' /\ BatchInv'
  BY <1>1 DEF DispatchInv, CallInv, StepInv, BatchInv, Rows, PadSize
<1>3. TypesInv' /\ FreshInv'
  BY <1>1 DEF DispatchInv, TypesInv, FreshInv
<1>4. ProgressInv'
  BY <1>1 DEF DispatchInv, ProgressInv, Progress, Chunk, Size, Per, Exact, Rows
<1>5. LockStep'
  <2>1. LockStep /\ Size' = Size /\ Per' = Per
    BY <1>1 DEF DispatchInv, Size, Per
  <2>2. SUFFICES ASSUME step = "wait"
                 PROVE  IF job = "validate" THEN \A w \in Worker : Idle(w)'
                        ELSE \E m, P, M \in Nat : Together(m, P, M, Size, Per)'
    BY <1>1 DEF LockStep
  <2>3. CASE job = "validate"
    BY <1>1, <2>1, <2>2, <2>3 DEF LockStep, Idle
  <2>4. CASE job # "validate"
    <3>1. PICK m \in Nat, P \in Nat, M \in Nat : Together(m, P, M, Size, Per)
      BY <2>1, <2>2, <2>4 DEF LockStep
    <3>2. ASSUME NEW w \in Worker PROVE Within(w, m, P, M, Size, Per)' \/ Past(w, m, P, M, Size, Per)'
      <4>1. Within(w, m, P, M, Size, Per) \/ Past(w, m, P, M, Size, Per)
        BY <3>1 DEF Together
      <4> QED
        BY <1>1, <2>1, <4>1, SameWithin
    <3>3. Together(m, P, M, Size, Per)'
      BY <3>2 DEF Together
    <3> QED
      BY <2>4, <3>3
  <2> QED
    BY <2>3, <2>4
<1>6. DoneInv'
  BY <1>1 DEF DispatchInv, DoneInv, Exact
<1> QED
  BY <1>2, <1>3, <1>4, <1>5, <1>6 DEF DispatchInv

\* The step
LEMMA StepKeeps == DispatchInv /\ [DispatchNext]_dispatchVars => DispatchInv'
<1> SUFFICES ASSUME DispatchInv, [DispatchNext]_dispatchVars PROVE DispatchInv'
  OBVIOUS
<1>1. CASE Balance BY <1>1, BalanceKeeps
<1>2. CASE Pad BY <1>2, PadKeeps
<1>3. CASE Dispatch BY <1>3, DispatchKeeps
<1>4. CASE AllReduce BY <1>4, AllReduceKeeps
<1>5. CASE Collect BY <1>5, CollectKeeps
<1>6. CASE Reject \/ Estimate BY <1>6, CreditKeeps
<1>7. ASSUME NEW w \in Worker, Generate(w) PROVE DispatchInv' BY <1>7, GenerateKeeps
<1>8. ASSUME NEW w \in Worker, Count(w) PROVE DispatchInv' BY <1>8, CountKeeps
<1>9. ASSUME NEW w \in Worker, Forward(w) PROVE DispatchInv' BY <1>9, ForwardKeeps
<1>10. ASSUME NEW w \in Worker, MiniEnds(w) PROVE DispatchInv' BY <1>10, MiniEndsKeeps
<1>11. CASE UNCHANGED dispatchVars BY <1>11, StillKeeps
<1> QED
  BY <1>1, <1>2, <1>3, <1>4, <1>5, <1>6, <1>7, <1>8, <1>9, <1>10, <1>11 DEF DispatchNext

(* The inductive invariant holds for any number of ranks and workers, any batch,   *)
(* and any limits on tokens.                                                       *)
THEOREM DispatchInvariant == DispatchSpec => []DispatchInv
<1>1. DispatchInit => DispatchInv
  BY InitInv
<1>2. DispatchInv /\ [DispatchNext]_dispatchVars => DispatchInv'
  BY StepKeeps
<1> QED
  BY <1>1, <1>2, PTL DEF DispatchSpec

(* What a call to the worker group returns has each row of the batch once, in the  *)
(* order it was sent; an update returns them in the order of its micro batches.    *)
THEOREM RowsAreReturned == DispatchSpec => []RowsReturned
<1>1. DispatchInv => RowsReturned
  BY ReturnedRows
<1> QED
  BY <1>1, DispatchInvariant, PTL

(* Until all have returned some worker can go on, because all take the same number *)
(* of forward passes, and no assertion of the partitioning fails.                  *)
THEOREM NobodyIsLeftBehind == DispatchSpec => []NobodyLeftBehind
<1>1. DispatchInv => NobodyLeftBehind
  BY NobodyBehind
<1> QED
  BY <1>1, DispatchInvariant, PTL

-----------------------------------------------------------------------------
(* Sums over finite sets *)

\* Induction over the subsets of a finite set, for a set of them
LEMMA EachSubset ==
  ASSUME NEW S, IsFiniteSet(S), NEW Z, {} \in Z,
         \A s \in SUBSET S : s # {} /\ (\A x \in s : s \ {x} \in Z) => s \in Z
  PROVE  \A s \in SUBSET S : s \in Z
<1> DEFINE N == {n \in Nat : \A s \in SUBSET S : Cardinality(s) = n => s \in Z}
<1>1. \A s \in SUBSET S : IsFiniteSet(s) /\ Cardinality(s) \in Nat
  BY FS_Subset, FS_CardinalityType
<1>2. 0 \in N
  BY <1>1, FS_EmptySet
<1>3. ASSUME NEW m \in Nat, m \in N PROVE m + 1 \in N
  <2>1. ASSUME NEW s \in SUBSET S, Cardinality(s) = m + 1 PROVE s \in Z
    <3>1. s # {}
      BY <2>1, FS_EmptySet
    <3>2. ASSUME NEW x \in s PROVE s \ {x} \in Z
      <4>1. IsFiniteSet(s)
        BY <1>1
      <4>2. Cardinality(s \ {x}) = Cardinality(s) - 1
        BY <4>1, FS_RemoveElement
      <4>3. Cardinality(s \ {x}) = m
        BY <2>1, <4>2
      <4>4. s \ {x} \in SUBSET S
        OBVIOUS
      <4> QED
        BY <1>3, <4>3, <4>4
    <3> QED
      BY <3>1, <3>2
  <2>2. m + 1 \in Nat
    OBVIOUS
  <2> QED
    BY <2>1, <2>2
<1> HIDE DEF N
<1>4. Nat \subseteq N
  BY <1>2, <1>3, EachNatural
<1> QED
  BY <1>1, <1>4 DEF N

Chosen(s) == CHOOSE x \in s : TRUE
\* f is the sum of g over each set of a family.
Adds(f, g, D) ==
  f = [s \in D |-> IF s = {} THEN 0 ELSE g[Chosen(s)] + f[s \ {Chosen(s)}]]

\* The element it takes
LEMMA ChosenIn ==
  ASSUME NEW s, s # {}
  PROVE  Chosen(s) \in s
BY DEF Chosen

\* The sum over a set, from the one without the element,
LEMMA AddsAt ==
  ASSUME NEW f, NEW g, NEW D, Adds(f, g, D), NEW s \in D
  PROVE  /\ s = {} => f[s] = 0
         /\ s # {} => f[s] = g[Chosen(s)] + f[s \ {Chosen(s)}]
<1>1. PICK h : h = f
  OBVIOUS
<1>2. f = [t \in D |-> IF t = {} THEN 0 ELSE g[Chosen(t)] + h[t \ {Chosen(t)}]]
  BY Zenon, <1>1 DEF Adds
<1>3. f[s] = IF s = {} THEN 0 ELSE g[Chosen(s)] + h[s \ {Chosen(s)}]
  BY <1>2
<1> QED
  BY <1>1, <1>3

\* and what has this form is such a sum.
LEMMA AddsWhen ==
  ASSUME NEW f, NEW g, NEW D, NEW h, h = [s \in D |-> f[s]],
         \A s \in D : f[s] = IF s = {} THEN 0 ELSE g[Chosen(s)] + h[s \ {Chosen(s)}]
  PROVE  Adds(h, g, D)
<1>1. [s \in D |-> f[s]]
      = [s \in D |-> IF s = {} THEN 0 ELSE g[Chosen(s)] + h[s \ {Chosen(s)}]]
  BY Zenon
<1> QED
  BY Zenon, <1>1 DEF Adds

Small(S, n) == {s \in SUBSET S : Cardinality(s) <= n}

\* Without an element a set is smaller.
LEMMA SmallLess ==
  ASSUME NEW S, IsFiniteSet(S), NEW n \in Nat, NEW s \in Small(S, n + 1), s # {}
  PROVE  s \ {Chosen(s)} \in Small(S, n)
<1>1. IsFiniteSet(s) /\ Cardinality(s) \in Nat /\ Cardinality(s) <= n + 1
  BY FS_Subset, FS_CardinalityType DEF Small
<1>2. Chosen(s) \in s
  BY ChosenIn
<1>3. Cardinality(s \ {Chosen(s)}) = Cardinality(s) - 1
  BY <1>1, <1>2, FS_RemoveElement
<1>4. Cardinality(s \ {Chosen(s)}) <= n
  BY <1>1, <1>3
<1> QED
  BY <1>4 DEF Small

\* There are such sums, by induction over the size of the sets,
LEMMA AddsExist ==
  ASSUME NEW S, IsFiniteSet(S), NEW g
  PROVE  \E f : Adds(f, g, SUBSET S)
<1> DEFINE Z == {n \in Nat : \E f : Adds(f, g, Small(S, n))}
<1>1. 0 \in Z
  <2>1. PICK f : f = [s \in Small(S, 0) |-> 0]
    OBVIOUS
  <2>2. ASSUME NEW s \in Small(S, 0) PROVE s = {}
    <3>1. IsFiniteSet(s) /\ Cardinality(s) \in Nat /\ Cardinality(s) <= 0
      BY FS_Subset, FS_CardinalityType DEF Small
    <3>2. Cardinality(s) = 0
      BY <3>1
    <3> QED
      BY <3>1, <3>2, FS_EmptySet
  <2>3. \A s \in Small(S, 0) : f[s] = IF s = {} THEN 0 ELSE g[Chosen(s)] + f[s \ {Chosen(s)}]
    BY <2>1, <2>2
  <2>4. f = [s \in Small(S, 0) |-> f[s]]
    BY <2>1
  <2>5. Adds(f, g, Small(S, 0))
    BY <2>3, <2>4, AddsWhen
  <2> QED
    BY <2>5
<1>2. ASSUME NEW n \in Nat, n \in Z PROVE n + 1 \in Z
  <2>1. PICK f : Adds(f, g, Small(S, n))
    BY <1>2
  <2>2. PICK h : h = [s \in Small(S, n + 1) |->
                        IF s = {} THEN 0 ELSE g[Chosen(s)] + f[s \ {Chosen(s)}]]
    OBVIOUS
  <2>3. ASSUME NEW s \in Small(S, n + 1)
        PROVE  h[s] = IF s = {} THEN 0 ELSE g[Chosen(s)] + f[s \ {Chosen(s)}]
    BY <2>2
  <2>4. ASSUME NEW s \in Small(S, n) PROVE h[s] = f[s] /\ s \in Small(S, n + 1)
    <3>1. Cardinality(s) \in Nat
      BY FS_Subset, FS_CardinalityType DEF Small
    <3>2. s \in Small(S, n + 1)
      BY <3>1 DEF Small
    <3>3. CASE s = {}
      BY <2>1, <2>3, <3>2, <3>3, AddsAt
    <3>4. CASE s # {}
      <4>1. f[s] = g[Chosen(s)] + f[s \ {Chosen(s)}]
        BY <2>1, <3>4, AddsAt, SMTT(30)
      <4>2. h[s] = g[Chosen(s)] + f[s \ {Chosen(s)}]
        BY <2>3, <3>2, <3>4
      <4> QED
        BY <3>2, <4>1, <4>2
    <3> QED
      BY <3>2, <3>3, <3>4
  <2>5. ASSUME NEW s \in Small(S, n + 1)
        PROVE  h[s] = IF s = {} THEN 0 ELSE g[Chosen(s)] + h[s \ {Chosen(s)}]
    <3>1. CASE s = {}
      BY <2>3, <3>1
    <3>2. CASE s # {}
      <4>1. PICK t : t = s \ {Chosen(s)}
        OBVIOUS
      <4>2. t \in Small(S, n)
        BY <3>2, <4>1, SmallLess
      <4>3. h[t] = f[t]
        BY <2>4, <4>2
      <4>4. h[s] = g[Chosen(s)] + f[t]
        BY <2>3, <3>2, <4>1
      <4>5. h[s] = g[Chosen(s)] + h[t]
        BY <4>3, <4>4
      <4> QED
        BY <3>2, <4>1, <4>5
    <3> QED
      BY <3>1, <3>2
  <2>6. h = [s \in Small(S, n + 1) |-> h[s]]
    BY <2>2
  <2>7. Adds(h, g, Small(S, n + 1))
    BY <2>5, <2>6, AddsWhen
  <2>8. n + 1 \in Nat
    OBVIOUS
  <2> QED
    BY <2>7, <2>8
<1> HIDE DEF Z
<1>3. Nat \subseteq Z
  BY <1>1, <1>2, EachNatural
<1>4. PICK m \in Nat : m = Cardinality(S)
  BY FS_CardinalityType
<1>5. Small(S, m) = SUBSET S
  BY <1>4, FS_Subset DEF Small
<1>6. \E f : Adds(f, g, Small(S, m))
  BY <1>3 DEF Z
<1> QED
  BY <1>5, <1>6

\* and over a set they do not depend on the family.
LEMMA AddsAlike ==
  ASSUME NEW S, IsFiniteSet(S), NEW g, NEW f, Adds(f, g, SUBSET S),
         NEW T \in SUBSET S, NEW h, Adds(h, g, SUBSET T)
  PROVE  f[T] = h[T]
<1> DEFINE Z == {s \in SUBSET T : f[s] = h[s]}
<1>1. {} \in Z
  <2>1. {} \in SUBSET S /\ {} \in SUBSET T
    OBVIOUS
  <2>2. f[{}] = 0
    BY <2>1, AddsAt
  <2>3. h[{}] = 0
    BY <2>1, AddsAt
  <2> QED
    BY <2>1, <2>2, <2>3
<1>2. ASSUME NEW s \in SUBSET T, s # {}, \A x \in s : s \ {x} \in Z PROVE s \in Z
  <2>1. Chosen(s) \in s
    BY <1>2, ChosenIn
  <2>2. f[s \ {Chosen(s)}] = h[s \ {Chosen(s)}]
    BY <1>2, <2>1
  <2>3. f[s] = g[Chosen(s)] + f[s \ {Chosen(s)}]
    BY <1>2, AddsAt
  <2>4. h[s] = g[Chosen(s)] + h[s \ {Chosen(s)}]
    BY <1>2, AddsAt
  <2> QED
    BY <2>2, <2>3, <2>4
<1>3. IsFiniteSet(T)
  BY FS_Subset
<1> HIDE DEF Z
<1>4. T \in Z
  BY <1>1, <1>2, <1>3, EachSubset
<1> QED
  BY <1>4 DEF Z

\* SumFunctionOnSet, one element after another
LEMMA SumIs ==
  ASSUME NEW S, IsFiniteSet(S), NEW g
  PROVE  \E f : Adds(f, g, SUBSET S) /\ SumFunctionOnSet(g, S) = f[S]
<1>1. SumFunctionOnSet(g, S) = (CHOOSE f : Adds(f, g, SUBSET S))[S]
  BY Zenon DEF SumFunctionOnSet, FoldFunctionOnSet, MapThenFoldSet, Adds, Chosen
<1>2. PICK f : f = CHOOSE h : Adds(h, g, SUBSET S)
  OBVIOUS
<1>3. Adds(f, g, SUBSET S)
  BY <1>2, AddsExist
<1> QED
  BY <1>1, <1>2, <1>3

\* Over no elements it is nothing,
LEMMA SumNone ==
  ASSUME NEW g
  PROVE  SumFunctionOnSet(g, {}) = 0
<1>1. IsFiniteSet({})
  BY FS_EmptySet
<1>2. PICK f : Adds(f, g, SUBSET {}) /\ SumFunctionOnSet(g, {}) = f[{}]
  BY <1>1, SumIs
<1>3. {} \in SUBSET {}
  OBVIOUS
<1> QED
  BY <1>2, <1>3, AddsAt

\* else one element's value and the sum over the others.
LEMMA SumFirst ==
  ASSUME NEW S, IsFiniteSet(S), S # {}, NEW g
  PROVE  SumFunctionOnSet(g, S) = g[Chosen(S)] + SumFunctionOnSet(g, S \ {Chosen(S)})
<1>1. PICK T \in SUBSET S : T = S \ {Chosen(S)}
  OBVIOUS
<1>2. PICK f : Adds(f, g, SUBSET S) /\ SumFunctionOnSet(g, S) = f[S]
  BY SumIs
<1>3. IsFiniteSet(T)
  BY FS_Subset
<1>4. PICK h : Adds(h, g, SUBSET T) /\ SumFunctionOnSet(g, T) = h[T]
  BY <1>3, SumIs
<1>5. f[T] = h[T]
  BY <1>2, <1>4, AddsAlike
<1>6. f[S] = g[Chosen(S)] + f[T]
  <2>1. S \in SUBSET S
    OBVIOUS
  <2> QED
    BY <1>1, <1>2, <2>1, AddsAt
<1> QED
  BY <1>1, <1>2, <1>4, <1>5, <1>6

Ints(g, S) == \A x \in S : g[x] \in Int

\* A sum of integers is an integer.
LEMMA SumType ==
  ASSUME NEW S, IsFiniteSet(S), NEW g, Ints(g, S)
  PROVE  SumFunctionOnSet(g, S) \in Int
<1> DEFINE Z == {s \in SUBSET S : SumFunctionOnSet(g, s) \in Int}
<1>1. {} \in Z
  BY SumNone
<1>2. ASSUME NEW s \in SUBSET S, s # {}, \A x \in s : s \ {x} \in Z PROVE s \in Z
  <2>1. IsFiniteSet(s)
    BY FS_Subset
  <2>2. Chosen(s) \in s
    BY <1>2, ChosenIn
  <2>3. SumFunctionOnSet(g, s \ {Chosen(s)}) \in Int
    BY <1>2, <2>2
  <2>4. g[Chosen(s)] \in Int
    BY <2>2 DEF Ints
  <2>5. SumFunctionOnSet(g, s) = g[Chosen(s)] + SumFunctionOnSet(g, s \ {Chosen(s)})
    BY <1>2, <2>1, SumFirst
  <2> QED
    BY <2>3, <2>4, <2>5
<1> HIDE DEF Z
<1>s. \A s \in SUBSET S : s \in Z
  BY <1>1, <1>2, EachSubset
<1>3. S \in Z
  BY <1>s
<1> QED
  BY <1>3 DEF Z

\* Any element may be added first.
LEMMA SumAny ==
  ASSUME NEW S, IsFiniteSet(S), NEW g, Ints(g, S), NEW x \in S
  PROVE  SumFunctionOnSet(g, S) = g[x] + SumFunctionOnSet(g, S \ {x})
<1> DEFINE Z == {s \in SUBSET S : \A y \in s :
                   SumFunctionOnSet(g, s) = g[y] + SumFunctionOnSet(g, s \ {y})}
<1>1. {} \in Z
  OBVIOUS
<1>2. ASSUME NEW s \in SUBSET S, s # {}, \A y \in s : s \ {y} \in Z PROVE s \in Z
  <2>1. IsFiniteSet(s)
    BY FS_Subset
  <2>2. PICK c \in s : c = Chosen(s)
    BY <1>2, ChosenIn
  <2>3. SumFunctionOnSet(g, s) = g[c] + SumFunctionOnSet(g, s \ {c})
    BY <1>2, <2>1, <2>2, SumFirst
  <2>4. ASSUME NEW y \in s PROVE SumFunctionOnSet(g, s) = g[y] + SumFunctionOnSet(g, s \ {y})
    <3>1. CASE y = c
      BY <2>3, <3>1
    <3>2. CASE y # c
      <4>1. PICK u : u = (s \ {c}) \ {y}
        OBVIOUS
      <4>2. u = (s \ {y}) \ {c} /\ y \in s \ {c} /\ c \in s \ {y}
        BY <3>2, <4>1
      <4>3. s \ {c} \in Z /\ s \ {y} \in Z
        BY <1>2
      <4>4. SumFunctionOnSet(g, s \ {c}) = g[y] + SumFunctionOnSet(g, u)
        BY <4>1, <4>2, <4>3
      <4>5. SumFunctionOnSet(g, s \ {y}) = g[c] + SumFunctionOnSet(g, u)
        BY <4>2, <4>3
      <4>6. IsFiniteSet(u) /\ Ints(g, u)
        <5>1. u \in SUBSET S
          BY <4>1
        <5> QED
          BY <5>1, FS_Subset DEF Ints
      <4>7. PICK a \in Int : a = SumFunctionOnSet(g, u)
        BY <4>6, SumType
      <4>8. PICK p \in Int, q \in Int : p = g[y] /\ q = g[c]
        BY DEF Ints
      <4>9. SumFunctionOnSet(g, s) = q + (p + a)
        BY <2>3, <4>4, <4>7, <4>8
      <4>10. SumFunctionOnSet(g, s \ {y}) = q + a
        BY <4>5, <4>7, <4>8
      <4>11. q + (p + a) = p + (q + a)
        OBVIOUS
      <4> QED
        BY <4>8, <4>9, <4>10, <4>11
    <3> QED
      BY <3>1, <3>2
  <2> QED
    BY <2>4
<1> HIDE DEF Z
<1>s. \A s \in SUBSET S : s \in Z
  BY <1>1, <1>2, EachSubset
<1>3. S \in Z
  BY <1>s
<1> QED
  BY <1>3 DEF Z

\* h takes S to T, one to one, and the values of g to those of k.
Matches(h, S, T, g, k) ==
  /\ \A x \in S : h[x] \in T /\ g[x] = k[h[x]]
  /\ \A x, y \in S : h[x] = h[y] => x = y
  /\ \A t \in T : \E x \in S : h[x] = t
ImageOf(h, s) == {h[x] : x \in s}

\* Matching values have the same sum.
LEMMA SumMatched ==
  ASSUME NEW S, IsFiniteSet(S), NEW T, IsFiniteSet(T), NEW g, NEW k, Ints(k, T),
         NEW h, Matches(h, S, T, g, k)
  PROVE  SumFunctionOnSet(g, S) = SumFunctionOnSet(k, T)
<1> DEFINE Z == {s \in SUBSET S : SumFunctionOnSet(g, s) = SumFunctionOnSet(k, ImageOf(h, s))}
<1>0. /\ \A x \in S : h[x] \in T /\ g[x] = k[h[x]]
      /\ \A x, y \in S : h[x] = h[y] => x = y
  BY DEF Matches
<1>1. {} \in Z
  <2>1. ImageOf(h, {}) = {}
    BY DEF ImageOf
  <2> QED
    BY <2>1, SumNone
<1>2. ASSUME NEW s \in SUBSET S, s # {}, \A y \in s : s \ {y} \in Z PROVE s \in Z
  <2>1. IsFiniteSet(s)
    BY FS_Subset
  <2>2. PICK c \in s : c = Chosen(s)
    BY <1>2, ChosenIn
  <2>3. SumFunctionOnSet(g, s) = g[c] + SumFunctionOnSet(g, s \ {c})
    BY <1>2, <2>1, <2>2, SumFirst
  <2>a. ImageOf(h, s) \in SUBSET T
    BY <1>0 DEF ImageOf
  <2>4. PICK u \in SUBSET T : u = ImageOf(h, s)
    BY <2>a
  <2>5. IsFiniteSet(u) /\ Ints(k, u)
    BY FS_Subset DEF Ints
  <2>6. h[c] \in u
    BY <2>4 DEF ImageOf
  <2>7. u \ {h[c]} = ImageOf(h, s \ {c})
    BY <1>0, <2>4 DEF ImageOf
  <2>8. SumFunctionOnSet(k, u) = k[h[c]] + SumFunctionOnSet(k, u \ {h[c]})
    BY <2>5, <2>6, SumAny
  <2>9. SumFunctionOnSet(g, s \ {c}) = SumFunctionOnSet(k, ImageOf(h, s \ {c}))
    BY <1>2
  <2>10. g[c] = k[h[c]]
    BY <1>0
  <2>11. SumFunctionOnSet(g, s) = SumFunctionOnSet(k, u)
    BY <2>3, <2>7, <2>8, <2>9, <2>10
  <2> QED
    BY <2>4, <2>11
<1> HIDE DEF Z
<1>s. \A s \in SUBSET S : s \in Z
  BY <1>1, <1>2, EachSubset
<1>3. S \in Z
  BY <1>s
<1>4. ImageOf(h, S) = T
  BY DEF ImageOf, Matches
<1> QED
  BY <1>3, <1>4 DEF Z

\* The same values
LEMMA SumSame ==
  ASSUME NEW S, IsFiniteSet(S), NEW g, NEW k, Ints(k, S), \A x \in S : g[x] = k[x]
  PROVE  SumFunctionOnSet(g, S) = SumFunctionOnSet(k, S)
<1>1. PICK h : h = [x \in S |-> x]
  OBVIOUS
<1>2. Matches(h, S, S, g, k)
  BY <1>1 DEF Matches
<1> QED
  BY <1>2, SumMatched

\* The leads of a over the values, and the values times a
Leads(d, a, g, S) == \A x \in S : d[x] = a - g[x]
Scales(d, a, g, S) == \A x \in S : d[x] = a * g[x]
Times(a, b) == a * b

\* Products, one factor after another
LEMMA TimesFacts ==
  ASSUME NEW a \in Int
  PROVE  /\ \A n \in Nat : Times(n, a) \in Int /\ Times(n + 1, a) = Times(n, a) + a
         /\ Times(0, a) = 0
         /\ \A b, c \in Int : Times(a, b) \in Int /\ Times(a, b + c) = Times(a, b) + Times(a, c)
         /\ Times(a, 0) = 0
BY DEF Times

\* A sum times a number
LEMMA TimesPlus ==
  ASSUME NEW a \in Int, NEW b \in Int, NEW c \in Int
  PROVE  Times(a, b + c) = Times(a, b) + Times(a, c)
BY DEF Times

\* The sum of the leads of a over n values is n times a, less their sum.
LEMMA SumLeads ==
  ASSUME NEW S, IsFiniteSet(S), NEW g, Ints(g, S), NEW a \in Int, NEW d, Leads(d, a, g, S)
  PROVE  SumFunctionOnSet(d, S) = Times(Cardinality(S), a) - SumFunctionOnSet(g, S)
<1> DEFINE Z == {s \in SUBSET S :
      SumFunctionOnSet(d, s) = Times(Cardinality(s), a) - SumFunctionOnSet(g, s)}
<1>1. {} \in Z
  <2>1. Cardinality({}) = 0
    BY FS_EmptySet
  <2>2. SumFunctionOnSet(d, {}) = 0 /\ SumFunctionOnSet(g, {}) = 0 /\ Times(0, a) = 0
    BY SumNone, TimesFacts
  <2> QED
    BY <2>1, <2>2
<1>2. ASSUME NEW s \in SUBSET S, s # {}, \A y \in s : s \ {y} \in Z PROVE s \in Z
  <2>1. IsFiniteSet(s)
    BY FS_Subset
  <2>2. PICK c \in s : c = Chosen(s)
    BY <1>2, ChosenIn
  <2>3. PICK u \in SUBSET S : u = s \ {c}
    OBVIOUS
  <2>4. IsFiniteSet(u) /\ Ints(g, u)
    BY FS_Subset DEF Ints
  <2>5. PICK n \in Nat : n = Cardinality(u)
    BY <2>4, FS_CardinalityType
  <2>6. Cardinality(s) = n + 1
    <3>1. Cardinality(u) = Cardinality(s) - 1
      BY <2>1, <2>3, FS_RemoveElement
    <3>2. Cardinality(s) \in Nat
      BY <2>1, FS_CardinalityType
    <3> QED
      BY <2>5, <3>1, <3>2
  <2>7. PICK e \in Int : e = SumFunctionOnSet(g, u)
    BY <2>4, SumType
  <2>8. PICK p \in Int : p = g[c]
    BY DEF Ints
  <2>9. PICK m \in Int : m = Times(n, a)
    BY TimesFacts
  <2>10. SumFunctionOnSet(d, u) = m - e
    BY <1>2, <2>3, <2>5, <2>7, <2>9
  <2>11. SumFunctionOnSet(g, s) = p + e
    BY <1>2, <2>1, <2>2, <2>3, <2>7, <2>8, SumFirst
  <2>12. d[c] = a - p
    BY <2>8 DEF Leads
  <2>13. SumFunctionOnSet(d, s) = (a - p) + (m - e)
    BY <1>2, <2>1, <2>2, <2>3, <2>10, <2>12, SumFirst
  <2>14. Times(Cardinality(s), a) = m + a
    BY <2>6, <2>9, TimesFacts
  <2>15. (a - p) + (m - e) = (m + a) - (p + e)
    OBVIOUS
  <2> QED
    BY <2>11, <2>13, <2>14, <2>15
<1> HIDE DEF Z
<1>s. \A s \in SUBSET S : s \in Z
  BY <1>1, <1>2, EachSubset
<1>3. S \in Z
  BY <1>s
<1> QED
  BY <1>3 DEF Z

\* The sum of multiples is a multiple of the sum.
LEMMA SumScales ==
  ASSUME NEW S, IsFiniteSet(S), NEW g, Ints(g, S), NEW a \in Int, NEW d, Scales(d, a, g, S)
  PROVE  SumFunctionOnSet(d, S) = Times(a, SumFunctionOnSet(g, S))
<1> DEFINE Z == {s \in SUBSET S : SumFunctionOnSet(d, s) = Times(a, SumFunctionOnSet(g, s))}
<1>1. {} \in Z
  <2>1. SumFunctionOnSet(d, {}) = 0 /\ SumFunctionOnSet(g, {}) = 0 /\ Times(a, 0) = 0
    BY SumNone, TimesFacts
  <2> QED
    BY <2>1
<1>2. ASSUME NEW s \in SUBSET S, s # {}, \A y \in s : s \ {y} \in Z PROVE s \in Z
  <2>1. IsFiniteSet(s)
    BY FS_Subset
  <2>2. PICK c \in s : c = Chosen(s)
    BY <1>2, ChosenIn
  <2>3. PICK u \in SUBSET S : u = s \ {c}
    OBVIOUS
  <2>4. IsFiniteSet(u) /\ Ints(g, u)
    BY FS_Subset DEF Ints
  <2>5. PICK e \in Int : e = SumFunctionOnSet(g, u)
    BY <2>4, SumType
  <2>6. PICK p \in Int : p = g[c]
    BY DEF Ints
  <2>7. SumFunctionOnSet(d, u) = Times(a, e)
    BY <1>2, <2>3, <2>5
  <2>8. SumFunctionOnSet(g, s) = p + e
    BY <1>2, <2>1, <2>2, <2>3, <2>5, <2>6, SumFirst
  <2>9. d[c] = Times(a, p)
    BY <2>6 DEF Scales, Times
  <2>10. SumFunctionOnSet(d, s) = Times(a, p) + Times(a, e)
    BY <1>2, <2>1, <2>2, <2>3, <2>7, <2>9, SumFirst
  <2>11. Times(a, p + e) = Times(a, p) + Times(a, e)
    BY TimesPlus
  <2> QED
    BY <2>8, <2>10, <2>11
<1> HIDE DEF Z
<1>s. \A s \in SUBSET S : s \in Z
  BY <1>1, <1>2, EachSubset
<1>3. S \in Z
  BY <1>s
<1> QED
  BY <1>3 DEF Z

-----------------------------------------------------------------------------
(* Outcomes *)

\* Reward, ScoreOf and Outcome of row r, with n tokens, mask m and outcome sc
Generated(n, m) == {t \in 1..n : m[t] = 1}
EarnedBy(r, n, m, sc) ==
  [t \in 1..n |-> (IF t = n THEN sc ELSE 0) - Divergence(r, t) * m[t]]
ScoreBy(r, n, m, sc) == Total(EarnedBy(r, n, m, sc), [t \in 1..n |-> t])
Charges(r, n, m) == [t \in Generated(n, m) |-> Divergence(r, t)]
OutcomeBy(r, n, m, sc) == sc - SumFunction(Charges(r, n, m))

\* A response of n tokens
MaskOf(m, n) == n \in Nat /\ n > 0 /\ m \in [1..n -> {0, 1}]
\* and what the critic and the reference model say of its tokens
Numbers(r, n) == \A t \in 1..n : Value(r, t) \in Int /\ Divergence(r, t) \in Int
First(S, k) == {t \in S : t <= k}

\* The divergences of the first k generated tokens
Charged(d, S, k) == SumFunctionOnSet(d, First(S, k))
Final(k, n, sc) == IF k = n THEN sc ELSE 0

\* The generated tokens are some of the row's.
LEMMA ChargesFacts ==
  ASSUME NEW r \in Nat, NEW n, Numbers(r, n), NEW m, MaskOf(m, n), NEW S, S = Generated(n, m),
         NEW d, d = Charges(r, n, m)
  PROVE  /\ IsFiniteSet(S) /\ S \in SUBSET (1..n)
         /\ \A t \in S : d[t] = Divergence(r, t) /\ d[t] \in Int
         /\ DOMAIN d = S
<1>1. S \in SUBSET (1..n)
  BY DEF Generated
<1>2. IsFiniteSet(S)
  BY <1>1, FS_Interval, FS_Subset DEF MaskOf
<1>3. d = [t \in S |-> Divergence(r, t)]
  BY Zenon DEF Charges
<1>4. \A t \in 1..n : Divergence(r, t) \in Int
  BY DEF Numbers
<1> QED
  BY <1>1, <1>2, <1>3, <1>4

\* One token more
LEMMA ChargedNext ==
  ASSUME NEW r \in Nat, NEW n, Numbers(r, n), NEW m, MaskOf(m, n), NEW S, S = Generated(n, m),
         NEW d, d = Charges(r, n, m), NEW k \in Nat, k + 1 <= n
  PROVE  /\ Charged(d, S, k) \in Int
         /\ Charged(d, S, k + 1) = Charged(d, S, k) + Divergence(r, k + 1) * m[k + 1]
<1>0. n \in Nat /\ m[k + 1] \in {0, 1} /\ k + 1 \in 1..n
  BY DEF MaskOf
<1>1. /\ IsFiniteSet(S) /\ S \in SUBSET (1..n)
      /\ \A t \in S : d[t] = Divergence(r, t) /\ d[t] \in Int
  BY ChargesFacts
<1>2. PICK U \in SUBSET S : U = First(S, k)
  BY DEF First
<1>3. PICK V \in SUBSET S : V = First(S, k + 1)
  BY DEF First
<1>4. IsFiniteSet(U) /\ IsFiniteSet(V) /\ Ints(d, U) /\ Ints(d, V)
  BY <1>1, FS_Subset DEF Ints
<1>5. PICK a \in Int : a = SumFunctionOnSet(d, U)
  BY <1>4, SumType
<1>6. PICK c \in Int : c = Divergence(r, k + 1)
  BY <1>0 DEF Numbers
<1>7. CASE m[k + 1] = 1
  <2>1. k + 1 \in S
    BY <1>0, <1>7 DEF Generated
  <2>2. k + 1 \in V /\ V \ {k + 1} = U
    BY <1>0, <1>1, <1>2, <1>3, <2>1 DEF First
  <2>3. SumFunctionOnSet(d, V) = d[k + 1] + SumFunctionOnSet(d, U)
    BY <1>4, <2>2, SumAny
  <2>4. SumFunctionOnSet(d, V) = c + a
    BY <1>1, <1>5, <1>6, <2>1, <2>3
  <2> QED
    BY <1>2, <1>3, <1>5, <1>6, <1>7, <2>4 DEF Charged
<1>8. CASE m[k + 1] = 0
  <2>1. k + 1 \notin S
    BY <1>0, <1>8 DEF Generated
  <2>2. V = U
    BY <1>0, <1>1, <1>2, <1>3, <2>1 DEF First
  <2> QED
    BY <1>2, <1>3, <1>5, <1>6, <1>8, <2>2 DEF Charged
<1> QED
  BY <1>0, <1>7, <1>8

\* A row's rewards add up to its outcome, less its divergences.
LEMMA ScoreIsOutcome ==
  ASSUME NEW r \in Nat, NEW n, Numbers(r, n), NEW m, MaskOf(m, n), NEW sc \in Int
  PROVE  ScoreBy(r, n, m, sc) = OutcomeBy(r, n, m, sc) /\ OutcomeBy(r, n, m, sc) \in Int
<1>0. n \in Nat /\ n > 0
  BY DEF MaskOf
<1>1. PICK S : S = Generated(n, m)
  OBVIOUS
<1>2. PICK d : d = Charges(r, n, m)
  OBVIOUS
<1>3. /\ IsFiniteSet(S) /\ S \in SUBSET (1..n)
      /\ \A t \in S : d[t] = Divergence(r, t) /\ d[t] \in Int
      /\ DOMAIN d = S
  BY <1>1, <1>2, ChargesFacts
<1>4. PICK e : e = EarnedBy(r, n, m, sc)
  OBVIOUS
<1>5. ASSUME NEW t \in 1..n
      PROVE  e[t] \in Int /\ e[t] = Final(t, n, sc) - Divergence(r, t) * m[t]
  <2>1. e[t] = (IF t = n THEN sc ELSE 0) - Divergence(r, t) * m[t]
    BY <1>4 DEF EarnedBy
  <2>2. m[t] \in {0, 1} /\ Divergence(r, t) \in Int
    BY DEF MaskOf, Numbers
  <2> QED
    BY <2>1, <2>2 DEF Final
<1>6. e \in [1..n -> Int]
  <2>1. DOMAIN e = 1..n /\ e = [t \in 1..n |-> e[t]]
    BY <1>4 DEF EarnedBy
  <2> QED
    BY <1>5, <2>1
<1>7. PICK rows : rows = [t \in 1..n |-> t]
  OBVIOUS
<1>8. rows \in Seq(1..n) /\ Len(rows) = n
  <2>1. rows \in [1..n -> 1..n]
    BY <1>7
  <2> QED
    BY <1>0, <2>1, FunctionLength
<1>9. PICK f \in [0..n -> Int] : /\ f[0] = 0
                                 /\ \A i \in 1..n : f[i] = f[i - 1] + e[rows[i]]
                                 /\ Total(e, rows) = f[n]
  BY <1>0, <1>6, <1>8, TotalIs
<1> DEFINE Z == {k \in Nat : k <= n => f[k] = Final(k, n, sc) - Charged(d, S, k)}
<1>10. 0 \in Z
  <2>1. First(S, 0) = {}
    <3>1. ASSUME NEW t \in S PROVE ~(t <= 0)
      <4>1. t \in 1..n
        BY <1>3
      <4> QED
        BY <1>0, <4>1
    <3> QED
      BY <3>1 DEF First
  <2>2. Charged(d, S, 0) = 0
    BY <2>1, SumNone DEF Charged
  <2>3. Final(0, n, sc) = 0
    BY <1>0 DEF Final
  <2> QED
    BY <1>9, <2>2, <2>3
<1>11. ASSUME NEW k \in Nat, k \in Z PROVE k + 1 \in Z
  <2>1. SUFFICES ASSUME k + 1 <= n PROVE f[k + 1] = Final(k + 1, n, sc) - Charged(d, S, k + 1)
    OBVIOUS
  <2>2. k + 1 \in 1..n /\ k <= n /\ k # n /\ (k + 1) - 1 = k
    BY <1>0, <2>1
  <2>3. PICK a \in Int : a = Charged(d, S, k)
    BY <1>1, <1>2, <2>1, ChargedNext
  <2>4. PICK c : c = Divergence(r, k + 1) * m[k + 1]
    OBVIOUS
  <2>5. c \in Int
    <3>1. m[k + 1] \in {0, 1} /\ Divergence(r, k + 1) \in Int
      BY <2>2 DEF MaskOf, Numbers
    <3> QED
      BY <2>4, <3>1
  <2>6. Charged(d, S, k + 1) = a + c
    BY <1>1, <1>2, <2>1, <2>3, <2>4, ChargedNext
  <2>7. f[k] = 0 - a
    BY <1>11, <2>2, <2>3 DEF Final
  <2>8. f[k + 1] = f[k] + e[k + 1]
    <3>1. rows[k + 1] = k + 1
      BY <1>7, <2>2
    <3>2. f[k + 1] = f[(k + 1) - 1] + e[rows[k + 1]]
      BY <1>9, <2>2
    <3> QED
      BY <2>2, <3>1, <3>2
  <2>9. PICK p \in Int : p = Final(k + 1, n, sc)
    BY DEF Final
  <2>10. e[k + 1] = p - c
    BY <1>5, <2>2, <2>4, <2>9
  <2>11. f[k + 1] = p - (a + c)
    BY <2>3, <2>5, <2>7, <2>8, <2>9, <2>10
  <2> QED
    BY <2>6, <2>9, <2>11
<1> HIDE DEF Z
<1>12. n \in Z
  BY <1>0, <1>10, <1>11, EachNatural
<1>13. f[n] = Final(n, n, sc) - Charged(d, S, n)
  BY <1>0, <1>12 DEF Z
<1>14. Charged(d, S, n) = SumFunction(d)
  <2>1. First(S, n) = S
    <3>1. ASSUME NEW t \in S PROVE t <= n
      <4>1. t \in 1..n
        BY <1>3
      <4> QED
        BY <1>0, <4>1
    <3> QED
      BY <3>1 DEF First
  <2> QED
    BY <1>3, <2>1 DEF Charged, SumFunction
<1>15. Final(n, n, sc) = sc
  BY DEF Final
<1>16. SumFunction(d) \in Int
  BY <1>3, SumType DEF SumFunction, Ints
<1>17. ScoreBy(r, n, m, sc) = Total(e, rows)
  BY Zenon, <1>4, <1>7 DEF ScoreBy
<1>18. OutcomeBy(r, n, m, sc) = sc - SumFunction(d)
  BY Zenon, <1>2 DEF OutcomeBy
<1> QED
  BY <1>9, <1>13, <1>14, <1>15, <1>16, <1>17, <1>18

-----------------------------------------------------------------------------
(* Extremes of finite sets *)

\* One of the values is the largest.
LEMMA LargestExists ==
  ASSUME NEW S, IsFiniteSet(S), NEW g, Ints(g, S), S # {}
  PROVE  \E x \in S : \A y \in S : g[y] <= g[x]
<1> DEFINE Z == {s \in SUBSET S : s # {} => \E x \in s : \A y \in s : g[y] <= g[x]}
<1>1. {} \in Z
  OBVIOUS
<1>2. ASSUME NEW s \in SUBSET S, s # {}, \A x \in s : s \ {x} \in Z PROVE s \in Z
  <2>1. PICK x \in s : s \ {x} \in Z
    BY <1>2
  <2>2. \A y \in s : g[y] \in Int
    BY DEF Ints
  <2>3. CASE s \ {x} = {}
    <3>1. \A y \in s : g[y] <= g[x]
      BY <2>2, <2>3
    <3> QED
      BY <3>1
  <2>4. CASE s \ {x} # {}
    <3>1. PICK z \in s \ {x} : \A y \in s \ {x} : g[y] <= g[z]
      BY <2>1, <2>4
    <3>2. CASE g[x] <= g[z]
      <4>1. \A y \in s : g[y] <= g[z]
        BY <3>1, <3>2
      <4> QED
        BY <4>1
    <3>3. CASE ~(g[x] <= g[z])
      <4>1. ASSUME NEW y \in s PROVE g[y] <= g[x]
        <5>1. CASE y = x
          BY <2>2, <5>1
        <5>2. CASE y # x
          <6>1. g[y] <= g[z]
            BY <3>1, <5>2
          <6>2. g[y] \in Int /\ g[z] \in Int /\ g[x] \in Int
            BY <2>2
          <6> QED
            BY <3>3, <6>1, <6>2
        <5> QED
          BY <5>1, <5>2
      <4> QED
        BY <4>1
    <3> QED
      BY <3>2, <3>3
  <2> QED
    BY <2>3, <2>4
<1> HIDE DEF Z
<1>3. \A s \in SUBSET S : s \in Z
  BY <1>1, <1>2, EachSubset
<1>4. S \in Z
  BY <1>3
<1> QED
  BY <1>4 DEF Z

\* The values of g
Values(g, S) == {g[x] : x \in S}

\* Max is a value, and none is larger.
LEMMA MaxIs ==
  ASSUME NEW S, IsFiniteSet(S), NEW g, Ints(g, S), S # {}
  PROVE  /\ Max(Values(g, S)) \in Int
         /\ \E x \in S : Max(Values(g, S)) = g[x]
         /\ \A x \in S : g[x] <= Max(Values(g, S))
<1>1. PICK V : V = Values(g, S)
  OBVIOUS
<1>2. PICK x \in S : \A y \in S : g[y] <= g[x]
  BY LargestExists
<1>3. g[x] \in V /\ \A v \in V : g[x] >= v
  <2>1. \A y \in S : g[y] \in Int
    BY DEF Ints
  <2> QED
    BY <1>1, <1>2, <2>1 DEF Values
<1>4. \E w \in V : \A v \in V : w >= v
  BY <1>3
<1>5. PICK M : M = Max(V)
  OBVIOUS
<1>6. M \in V /\ \A v \in V : M >= v
  BY Zenon, <1>4, <1>5 DEF Max
<1>7. \A v \in V : v \in Int
  BY <1>1 DEF Values, Ints
<1>8. ASSUME NEW y \in S PROVE g[y] <= M
  <2>1. g[y] \in V
    BY <1>1 DEF Values
  <2> QED
    BY <1>6, <1>7, <2>1
<1>9. \E y \in S : M = g[y]
  BY <1>1, <1>6 DEF Values
<1> QED
  BY <1>1, <1>5, <1>6, <1>7, <1>8, <1>9

\* Min is a value, and none is smaller.
LEMMA MinIs ==
  ASSUME NEW S, IsFiniteSet(S), NEW g, Ints(g, S), S # {}
  PROVE  /\ Min(Values(g, S)) \in Int
         /\ \E x \in S : Min(Values(g, S)) = g[x]
         /\ \A x \in S : Min(Values(g, S)) <= g[x]
<1>1. PICK V : V = Values(g, S)
  OBVIOUS
<1>a. PICK k : k = [x \in S |-> 0 - g[x]]
  OBVIOUS
<1>b. \A y \in S : g[y] \in Int /\ k[y] = 0 - g[y]
  BY <1>a DEF Ints
<1>c. Ints(k, S)
  BY <1>b DEF Ints
<1>2. PICK x \in S : \A y \in S : k[y] <= k[x]
  BY <1>c, LargestExists
<1>d. \A y \in S : g[x] <= g[y]
  BY <1>b, <1>2
<1>3. g[x] \in V /\ \A v \in V : g[x] <= v
  BY <1>1, <1>d DEF Values
<1>4. \E w \in V : \A v \in V : w <= v
  BY <1>3
<1>5. PICK M : M = Min(V)
  OBVIOUS
<1>6. M \in V /\ \A v \in V : M <= v
  BY Zenon, <1>4, <1>5 DEF Min
<1>7. \A v \in V : v \in Int
  BY <1>1 DEF Values, Ints
<1>8. ASSUME NEW y \in S PROVE M <= g[y]
  <2>1. g[y] \in V
    BY <1>1 DEF Values
  <2> QED
    BY <1>6, <2>1
<1>9. \E y \in S : M = g[y]
  BY <1>1, <1>6 DEF Values
<1> QED
  BY <1>1, <1>5, <1>6, <1>7, <1>8, <1>9

\* A number, but not less than zero
LEMMA MaxOfTwo ==
  ASSUME NEW a \in Int
  PROVE  Max({0, a}) = IF a >= 0 THEN a ELSE 0
<1>1. PICK b \in {0, a} : b = IF a >= 0 THEN a ELSE 0
  OBVIOUS
<1>2. \A v \in {0, a} : b >= v
  BY <1>1
<1>3. \E w \in {0, a} : \A v \in {0, a} : w >= v
  BY <1>2
<1>4. PICK M : M = Max({0, a})
  OBVIOUS
<1>5. M \in {0, a} /\ \A v \in {0, a} : M >= v
  BY Zenon, <1>3, <1>4 DEF Max
<1> QED
  BY <1>1, <1>4, <1>5

-----------------------------------------------------------------------------
(* Grpo and PassK *)

\* The others of a row's prompt, and its leads over them
Peers(idx, i) == Group(idx, i) \ {i}
LeadsOf(s, i, J) == [j \in J |-> s[i] - s[j]]
\* Outcomes and prompts of n rows
Scored(s, idx, n) == s \in [1..n -> Int] /\ DOMAIN idx = 1..n

\* The rows of a prompt, with integer outcomes
LEMMA GroupFacts ==
  ASSUME NEW n \in Nat, NEW s, NEW idx, Scored(s, idx, n), NEW i \in 1..n
  PROVE  /\ i \in Group(idx, i) /\ IsFiniteSet(Group(idx, i)) /\ IsFiniteSet(Peers(idx, i))
         /\ Group(idx, i) \in SUBSET (1..n) /\ Peers(idx, i) \in SUBSET (1..n)
         /\ Ints(s, Group(idx, i)) /\ Ints(s, Peers(idx, i))
         /\ s[i] \in Int
<1>1. Group(idx, i) \in SUBSET (1..n) /\ i \in Group(idx, i)
  BY DEF Group, Scored
<1>2. Peers(idx, i) \in SUBSET (1..n)
  BY <1>1 DEF Peers
<1>3. IsFiniteSet(1..n)
  BY FS_Interval
<1>4. IsFiniteSet(Group(idx, i)) /\ IsFiniteSet(Peers(idx, i))
  BY <1>1, <1>2, <1>3, FS_Subset
<1>5. \A j \in 1..n : s[j] \in Int
  BY DEF Scored
<1> QED
  BY <1>1, <1>2, <1>4, <1>5 DEF Ints

\* A row's leads
LEMMA LeadFacts ==
  ASSUME NEW n \in Nat, NEW s, NEW idx, Scored(s, idx, n), NEW i \in 1..n,
         NEW J, J = Peers(idx, i), NEW d, d = LeadsOf(s, i, J)
  PROVE  /\ Ints(d, J) /\ DOMAIN d = J
         /\ \A j \in J : d[j] = s[i] - s[j] /\ s[j] \in Int /\ j \in 1..n /\ j # i
<1>1. J \in SUBSET (1..n) /\ Ints(s, J) /\ s[i] \in Int /\ i \notin J
  BY GroupFacts DEF Peers
<1>2. DOMAIN d = J /\ \A j \in J : d[j] = s[i] - s[j]
  BY DEF LeadsOf
<1> QED
  BY <1>1, <1>2 DEF Ints

\* compute_grpo_outcome_advantage: the sum of a row's leads over the others
LEMMA GrpoIs ==
  ASSUME NEW n \in Nat, NEW s, NEW idx, Scored(s, idx, n), NEW i \in 1..n,
         NEW J, J = Peers(idx, i), J # {}, NEW d, d = LeadsOf(s, i, J)
  PROVE  Grpo(s, idx, i) = SumFunctionOnSet(d, J)
<1>1. PICK G \in SUBSET (1..n) : G = Group(idx, i)
  BY GroupFacts
<1>2. i \in G /\ IsFiniteSet(G) /\ IsFiniteSet(J) /\ Ints(s, G) /\ Ints(s, J) /\ s[i] \in Int
  BY <1>1, GroupFacts
<1>3. J = G \ {i}
  BY <1>1 DEF Peers
<1>4. PICK k \in Nat : k = Cardinality(J)
  BY <1>2, FS_CardinalityType
<1>5. Cardinality(G) = k + 1
  <2>1. Cardinality(J) = Cardinality(G) - 1
    BY <1>2, <1>3, FS_RemoveElement
  <2>2. Cardinality(G) \in Nat
    BY <1>2, FS_CardinalityType
  <2> QED
    BY <1>4, <2>1, <2>2
<1>6. k # 0
  BY <1>2, <1>4, FS_EmptySet
<1>7. PICK a \in Int : a = s[i]
  BY <1>2
<1>8. PICK e \in Int : e = SumFunctionOnSet(s, J)
  BY <1>2, SumType
<1>9. SumFunctionOnSet(s, G) = a + e
  BY <1>2, <1>3, <1>7, <1>8, SumAny
<1>10. Leads(d, a, s, J)
  BY <1>7, LeadFacts DEF Leads
<1>11. SumFunctionOnSet(d, J) = Times(k, a) - e
  BY <1>2, <1>4, <1>8, <1>10, SumLeads
<1>12. Grpo(s, idx, i) = IF Cardinality(G) = 1 THEN s[i]
                         ELSE Cardinality(G) * s[i] - SumFunctionOnSet(s, G)
  BY Zenon, <1>1 DEF Grpo
<1>13. Grpo(s, idx, i) = (k + 1) * a - (a + e)
  BY <1>5, <1>6, <1>7, <1>9, <1>12
<1>14. PICK b \in Int : b = Times(k, a)
  BY TimesFacts
<1>15. (k + 1) * a = b + a
  <2>1. Times(k + 1, a) = Times(k, a) + a
    BY TimesFacts
  <2> QED
    BY <1>14, <2>1 DEF Times
<1>16. (b + a) - (a + e) = b - e
  OBVIOUS
<1> QED
  BY <1>11, <1>13, <1>14, <1>15, <1>16

Best(s, G) == CHOOSE j \in G : \A k \in G : s[k] <= s[j]

\* compute_grpo_passk_outcome_advantage: the lead over the next, if there is one
LEMMA PassKIs ==
  ASSUME NEW n \in Nat, NEW s, NEW idx, Scored(s, idx, n), NEW i \in 1..n,
         NEW J, J = Peers(idx, i), J # {}, NEW d, d = LeadsOf(s, i, J)
  PROVE  /\ PassK(s, idx, i) = Max({0, Min(Values(d, J))})
         /\ PassK(s, idx, i) \in Int
<1>1. PICK G \in SUBSET (1..n) : G = Group(idx, i)
  BY GroupFacts
<1>2. i \in G /\ IsFiniteSet(G) /\ IsFiniteSet(J) /\ Ints(s, G) /\ Ints(s, J) /\ s[i] \in Int
  BY <1>1, GroupFacts
<1>3. J = G \ {i}
  BY <1>1 DEF Peers
<1>4. Ints(d, J) /\ \A j \in J : d[j] = s[i] - s[j] /\ s[j] \in Int
  BY LeadFacts
<1>5. PICK least \in Int : least = Min(Values(d, J))
  BY <1>2, <1>4, MinIs
<1>6. PICK low \in J : least = d[low]
  BY <1>2, <1>4, <1>5, MinIs
<1>7. \A j \in J : least <= d[j]
  BY <1>2, <1>4, <1>5, MinIs
<1>8. PICK top \in Int : top = Max(Values(s, J))
  BY <1>2, MaxIs
<1>9. PICK high \in J : top = s[high]
  BY <1>2, <1>8, MaxIs
<1>10. \A j \in J : s[j] <= top
  BY <1>2, <1>8, MaxIs
<1>11. least = s[i] - top
  <2>1. s[low] <= top /\ least <= d[high]
    BY <1>7, <1>10
  <2>2. least = s[i] - s[low] /\ d[high] = s[i] - top /\ s[low] \in Int
    BY <1>4, <1>6, <1>9
  <2> QED
    BY <1>2, <2>1, <2>2
<1>12. PICK best : best = Best(s, G)
  OBVIOUS
<1>13. best \in G /\ \A k \in G : s[k] <= s[best]
  <2>1. \E j \in G : \A k \in G : s[k] <= s[j]
    BY <1>2, LargestExists
  <2> QED
    BY Zenon, <1>12, <2>1 DEF Best
<1>14. PassK(s, idx, i) = IF i = best THEN s[i] - Max(Values(s, J)) ELSE 0
  <2>1. PassK(s, idx, i) = IF i = Best(s, Group(idx, i))
                           THEN s[i] - Max(Values(s, Group(idx, i) \ {i})) ELSE 0
    BY Zenon DEF PassK, Values, Best
  <2> QED
    BY Zenon, <1>1, <1>3, <1>12, <2>1
<1>15. Max({0, least}) = IF least >= 0 THEN least ELSE 0
  BY MaxOfTwo
<1>16. CASE i = best
  <2>1. top <= s[i]
    BY <1>3, <1>9, <1>13, <1>16
  <2>2. least >= 0
    BY <1>2, <1>11, <2>1
  <2> QED
    BY <1>2, <1>5, <1>8, <1>11, <1>14, <1>15, <1>16, <2>2
<1>17. CASE i # best
  <2>1. s[i] <= s[best] /\ best \in J
    BY <1>2, <1>3, <1>13, <1>17
  <2>2. least <= s[i] - s[best] /\ s[best] \in Int
    BY <1>4, <1>7, <2>1
  <2>3. least <= 0
    BY <1>2, <2>1, <2>2
  <2> QED
    BY <1>5, <1>14, <1>15, <1>17, <2>3
<1> QED
  BY <1>16, <1>17

-----------------------------------------------------------------------------
(* The rows of a prompt *)

\* The quotient, from quotient and remainder
LEMMA QuotientIs ==
  ASSUME NEW e \in Nat, e > 0, NEW q \in Nat, NEW r \in 0..(e - 1), NEW a, a = q * e
  PROVE  (a + r) \div e = q
<1>0. a \in Nat
  OBVIOUS
<1>1. PICK x \in Nat : x = a + r
  BY <1>0
<1>2. PICK p \in Nat : p = x \div e
  BY DivMod
<1>3. PICK m \in 0..(e - 1) : m = x % e
  BY DivMod
<1>4. PICK b \in Nat : b = p * e
  OBVIOUS
<1>5. x = b + m
  BY <1>2, <1>3, <1>4, DivMod
<1>6. ASSUME p < q PROVE FALSE
  <2>1. p * e + e <= q * e
    BY <1>6, Groups
  <2>2. b + e <= a
    BY <1>4, <2>1
  <2> QED
    BY <1>0, <1>1, <1>5, <2>2
<1>7. ASSUME q < p PROVE FALSE
  <2>1. q * e + e <= p * e
    BY <1>7, Groups
  <2>2. a + e <= b
    BY <1>4, <2>1
  <2> QED
    BY <1>0, <1>1, <1>5, <2>2
<1>8. p = q
  BY <1>6, <1>7
<1> QED
  BY <1>1, <1>2, <1>8

\* The number of rows of a batch of prompts
PromptRows == Prompts * Rollouts
\* The other rows of r's prompt
OthersOf(r, n) == {q \in 1..n : q # r /\ Prompt(q) = Prompt(r)}

\* It is a number,
LEMMA PromptRowsType == PromptRows \in Nat
BY DispatchAssumption DEF PromptRows

\* and because a prompt has two responses or more, every row has others of its prompt.
LEMMA OthersThere ==
  ASSUME NEW r \in 1..PromptRows
  PROVE  OthersOf(r, PromptRows) # {}
<1>0. Rollouts \in Nat /\ Rollouts > 1 /\ Prompts \in Nat
  BY DispatchAssumption
<1>1. PICK n \in Nat : n = PromptRows
  BY PromptRowsType
<1>2. r \in Nat /\ r > 0 /\ r <= n
  BY <1>1
<1>3. PICK x \in Nat : x = r - 1
  BY <1>2
<1>4. PICK k \in Nat : k = x \div Rollouts
  BY <1>0, DivMod
<1>5. PICK m \in 0..(Rollouts - 1) : m = x % Rollouts
  BY <1>0, DivMod
<1>6. PICK a \in Nat : a = k * Rollouts
  BY <1>0
<1>7. x = a + m
  BY <1>0, <1>4, <1>5, <1>6, DivMod
<1>8. a + Rollouts <= n
  <2>1. k < Prompts
    <3>1. ASSUME Prompts < k PROVE FALSE
      <4>1. Prompts * Rollouts + Rollouts <= k * Rollouts
        BY <1>0, <3>1, Groups
      <4>2. n + Rollouts <= a
        BY <1>1, <1>6, <4>1 DEF PromptRows
      <4> QED
        BY <1>0, <1>2, <1>3, <1>7, <4>2
    <3>2. ASSUME Prompts = k PROVE FALSE
      <4>1. n = a
        BY <1>1, <1>6, <3>2 DEF PromptRows
      <4> QED
        BY <1>0, <1>2, <1>3, <1>7, <4>1
    <3> QED
      BY <1>0, <3>1, <3>2
  <2>2. k * Rollouts + Rollouts <= Prompts * Rollouts
    BY <1>0, <2>1, Groups
  <2> QED
    BY <1>1, <1>6, <2>2 DEF PromptRows
<1>9. Prompt(r) = k
  BY <1>3, <1>4 DEF Prompt
<1>10. CASE m = 0
  <2>1. 1 \in 0..(Rollouts - 1)
    BY <1>0
  <2>2. (a + 1) \div Rollouts = k
    BY <1>0, <1>6, <2>1, QuotientIs
  <2>3. PICK q \in Nat : q = r + 1
    BY <1>2
  <2>4. q - 1 = a + 1
    BY <1>2, <1>3, <1>7, <1>10, <2>3
  <2>5. Prompt(q) = k
    BY <2>2, <2>4 DEF Prompt
  <2>6. q \in 1..n /\ q # r
    BY <1>0, <1>2, <1>3, <1>7, <1>8, <1>10, <2>3
  <2>7. q \in OthersOf(r, n)
    BY <1>9, <2>5, <2>6 DEF OthersOf
  <2> QED
    BY <1>1, <2>7
<1>11. CASE m # 0
  <2>1. PICK p \in 0..(Rollouts - 1) : p = m - 1
    BY <1>0, <1>11
  <2>2. (a + p) \div Rollouts = k
    BY <1>0, <1>6, QuotientIs
  <2>3. PICK q \in Nat : q = r - 1
    BY <1>2
  <2>4. q - 1 = a + p
    BY <1>0, <1>2, <1>3, <1>7, <2>1, <2>3
  <2>5. Prompt(q) = k
    BY <2>2, <2>4 DEF Prompt
  <2>6. q \in 1..n /\ q # r
    BY <1>0, <1>2, <1>3, <1>7, <1>11, <2>3
  <2>7. q \in OthersOf(r, n)
    BY <1>9, <2>5, <2>6 DEF OthersOf
  <2> QED
    BY <1>1, <2>7
<1> QED
  BY <1>10, <1>11

-----------------------------------------------------------------------------
(* What a row is due *)

\* OutcomeCredit, of what it speaks of
OutcomeIn(len, resp, sc, r) == OutcomeBy(r, len[r], resp[r], sc[r])
OthersIn(len, r) == {q \in DOMAIN len : q # r /\ Prompt(q) = Prompt(r)}
LeadIn(len, resp, sc, r) ==
  [q \in OthersIn(len, r) |-> OutcomeIn(len, resp, sc, r) - OutcomeIn(len, resp, sc, q)]
DueIn(j, len, resp, sc, r) ==
  IF j = "grpo" THEN SumFunction(LeadIn(len, resp, sc, r))
  ELSE Max({0, Min(Values(LeadIn(len, resp, sc, r), OthersIn(len, r)))})
CreditIn(s, j, b, len, resp, sc, kp, res) ==
  (s = "done" /\ j \in {"grpo", "passk"}) =>
    \A i \in DOMAIN b : \A t \in 1..len[b[i]] :
      res[i][t] = kp[b[i]][t] * DueIn(j, len, resp, sc, b[i])

\* The masks, the outcomes and the number of rows
MasksFit(len, resp, sc, kp) ==
  /\ DOMAIN len = 1..PromptRows /\ DOMAIN resp = 1..PromptRows /\ DOMAIN kp = 1..PromptRows
  /\ \A r \in 1..PromptRows :
       /\ MaskOf(resp[r], len[r]) /\ MaskOf(kp[r], len[r]) /\ sc[r] \in Int
       /\ Numbers(r, len[r])

ValuesOfLead(len, resp, sc, r) ==
  {OutcomeIn(len, resp, sc, r) - OutcomeIn(len, resp, sc, q) : q \in OthersIn(len, r)}

\* The leads are the values of LeadIn,
LEMMA LeadValues ==
  ASSUME NEW len, NEW resp, NEW sc, NEW r
  PROVE  Values(LeadIn(len, resp, sc, r), OthersIn(len, r)) = ValuesOfLead(len, resp, sc, r)
<1>1. PICK S : S = OthersIn(len, r)
  OBVIOUS
<1>2. PICK d : d = LeadIn(len, resp, sc, r)
  OBVIOUS
<1>3. \A q \in S : d[q] = OutcomeIn(len, resp, sc, r) - OutcomeIn(len, resp, sc, q)
  BY <1>1, <1>2 DEF LeadIn
<1>4. Values(d, S) = {OutcomeIn(len, resp, sc, r) - OutcomeIn(len, resp, sc, q) : q \in S}
  BY <1>3 DEF Values
<1> QED
  BY Zenon, <1>1, <1>2, <1>4 DEF ValuesOfLead

\* The property, written so
DueStated(j, len, resp, sc, r) ==
  IF j = "grpo" THEN SumFunction(LeadIn(len, resp, sc, r))
  ELSE Max({0, Min(ValuesOfLead(len, resp, sc, r))})

\* so the two say the same,
LEMMA DueIsStated ==
  ASSUME NEW j, NEW len, NEW resp, NEW sc, NEW r
  PROVE  DueIn(j, len, resp, sc, r) = DueStated(j, len, resp, sc, r)
BY Zenon, LeadValues DEF DueIn, DueStated

\* as the property does.
LEMMA CreditNow ==
  OutcomeCredit = ((step = "done" /\ job \in {"grpo", "passk"}) =>
    \A i \in DOMAIN batch : \A t \in 1..length[batch[i]] :
      result[i][t] = kept[batch[i]][t] * DueStated(job, length, response, score, batch[i]))
BY Zenon DEF OutcomeCredit, Outcome, DueStated, LeadIn, OthersIn, ValuesOfLead, OutcomeIn,
             OutcomeBy, Charges, Generated

\* An outcome
LEMMA OutcomeType ==
  ASSUME NEW len, NEW resp, NEW sc, NEW kp, MasksFit(len, resp, sc, kp), NEW r \in 1..PromptRows
  PROVE  /\ OutcomeIn(len, resp, sc, r) \in Int
         /\ ScoreBy(r, len[r], resp[r], sc[r]) = OutcomeIn(len, resp, sc, r)
<1>1. MaskOf(resp[r], len[r]) /\ sc[r] \in Int /\ Numbers(r, len[r])
  BY DEF MasksFit
<1>2. r \in Nat
  BY PromptRowsType
<1>3. PICK n : n = len[r]
  OBVIOUS
<1>4. PICK m : m = resp[r]
  OBVIOUS
<1>5. PICK c \in Int : c = sc[r]
  BY <1>1
<1>6. ScoreBy(r, n, m, c) = OutcomeBy(r, n, m, c) /\ OutcomeBy(r, n, m, c) \in Int
  BY <1>1, <1>2, <1>3, <1>4, ScoreIsOutcome
<1> QED
  BY <1>1, <1>2, <1>3, <1>4, <1>5, <1>6 DEF OutcomeIn

\* The outcomes and the prompts in the order of a batch
ScoresIn(b, len, resp, sc) == [j \in DOMAIN b |-> ScoreBy(b[j], len[b[j]], resp[b[j]], sc[b[j]])]
UidIn(b) == [j \in DOMAIN b |-> Prompt(b[j])]

\* The rows at a set of positions, found by their uid
LEMMA PeersAre ==
  ASSUME NEW n \in Nat, n = PromptRows, NEW b, Permutation(b, n), DOMAIN b = 1..n, NEW i \in 1..n,
         NEW idx, idx = UidIn(b)
  PROVE  /\ DOMAIN idx = 1..n
         /\ Peers(idx, i) \in SUBSET (1..n)
         /\ \A j \in 1..n : j \in Peers(idx, i) <=> b[j] \in OthersOf(b[i], n)
         /\ \A q \in OthersOf(b[i], n) : \E j \in Peers(idx, i) : b[j] = q
         /\ Peers(idx, i) # {}
<1>1. \A j \in 1..n : b[j] \in 1..n
  BY PermutationFacts
<1>2. \A j, k \in 1..n : b[j] = b[k] => j = k
  BY PermutationFacts, ZenonT(60)
<1>3. \A q \in 1..n : \E j \in 1..n : b[j] = q
  BY PermutationFacts
<1>4. DOMAIN idx = 1..n /\ \A j \in 1..n : idx[j] = Prompt(b[j])
  BY DEF UidIn
<1>5. PICK J : J = Peers(idx, i)
  OBVIOUS
<1>6. J = {j \in 1..n : idx[j] = idx[i]} \ {i}
  BY <1>4, <1>5 DEF Peers, Group
<1>7. ASSUME NEW j \in 1..n PROVE j \in J <=> b[j] \in OthersOf(b[i], n)
  <2>1. j \in J <=> (j # i /\ Prompt(b[j]) = Prompt(b[i]))
    BY <1>4, <1>6
  <2>2. b[j] \in OthersOf(b[i], n) <=> (b[j] # b[i] /\ Prompt(b[j]) = Prompt(b[i]))
    BY <1>1 DEF OthersOf
  <2>3. j = i <=> b[j] = b[i]
    BY <1>2
  <2> QED
    BY <2>1, <2>2, <2>3
<1>8. ASSUME NEW q \in OthersOf(b[i], n) PROVE \E j \in J : b[j] = q
  <2>1. q \in 1..n
    BY DEF OthersOf
  <2>2. PICK j \in 1..n : b[j] = q
    BY <1>3, <2>1
  <2> QED
    BY <1>7, <2>2
<1>9. J # {}
  <2>1. OthersOf(b[i], n) # {}
    BY <1>1, OthersThere
  <2> QED
    BY <1>8, <2>1
<1> QED
  BY <1>4, <1>5, <1>6, <1>7, <1>8, <1>9

\* A row's advantage is what it is due.
LEMMA RowDue ==
  ASSUME NEW len, NEW resp, NEW sc, NEW kp, MasksFit(len, resp, sc, kp),
         NEW n \in Nat, n = PromptRows, NEW b, Permutation(b, n), DOMAIN b = 1..n, NEW i \in 1..n,
         NEW s, s = ScoresIn(b, len, resp, sc), NEW idx, idx = UidIn(b)
  PROVE  /\ Grpo(s, idx, i) = DueIn("grpo", len, resp, sc, b[i])
         /\ PassK(s, idx, i) = DueIn("passk", len, resp, sc, b[i])
         /\ DueIn("grpo", len, resp, sc, b[i]) \in Int
         /\ DueIn("passk", len, resp, sc, b[i]) \in Int
<1>1. \A j \in 1..n : b[j] \in 1..n
  BY PermutationFacts
<1>i. \A j, k \in 1..n : b[j] = b[k] => j = k
  BY PermutationFacts, ZenonT(60)
<1>2. PICK r \in 1..n : r = b[i]
  BY <1>1
<1>3. PICK S : S = OthersOf(r, n)
  OBVIOUS
<1>4. S = OthersIn(len, r)
  <2>1. DOMAIN len = 1..n
    BY DEF MasksFit
  <2> QED
    BY <1>3, <2>1 DEF OthersIn, OthersOf
<1>5. S \in SUBSET (1..n) /\ IsFiniteSet(S)
  <2>1. S \in SUBSET (1..n)
    BY <1>3 DEF OthersOf
  <2>2. IsFiniteSet(1..n)
    BY FS_Interval
  <2> QED
    BY <2>1, <2>2, FS_Subset
<1>6. PICK k : k = LeadIn(len, resp, sc, r)
  OBVIOUS
<1>7. ASSUME NEW q \in 1..n PROVE OutcomeIn(len, resp, sc, q) \in Int
  BY OutcomeType
<1>8. /\ DOMAIN k = S
      /\ \A q \in S : k[q] = OutcomeIn(len, resp, sc, r) - OutcomeIn(len, resp, sc, q)
  BY <1>4, <1>6 DEF LeadIn
<1>9. Ints(k, S)
  BY <1>5, <1>7, <1>8 DEF Ints
<1>10. ASSUME NEW j \in 1..n PROVE s[j] = OutcomeIn(len, resp, sc, b[j]) /\ s[j] \in Int
  <2>1. s[j] = ScoreBy(b[j], len[b[j]], resp[b[j]], sc[b[j]])
    BY DEF ScoresIn
  <2>2. PICK q \in 1..n : q = b[j]
    BY <1>1
  <2>3. ScoreBy(q, len[q], resp[q], sc[q]) = OutcomeIn(len, resp, sc, q)
    BY OutcomeType
  <2> QED
    BY <1>7, <2>1, <2>2, <2>3
<1>11. PICK J : J = Peers(idx, i)
  OBVIOUS
<1>12. J \in SUBSET (1..n) /\ J # {} /\ DOMAIN idx = 1..n
  BY <1>11, PeersAre
<1>13. \A j \in 1..n : j \in J <=> b[j] \in S
  BY <1>2, <1>3, <1>11, PeersAre
<1>14. \A q \in S : \E j \in J : b[j] = q
  BY <1>2, <1>3, <1>11, PeersAre, SMTT(30)
<1>15. Scored(s, idx, n)
  <2>1. s \in [1..n -> Int]
    <3>1. DOMAIN s = 1..n /\ s = [j \in 1..n |-> s[j]]
      BY DEF ScoresIn
    <3> QED
      BY <1>10, <3>1
  <2> QED
    BY <1>12, <2>1 DEF Scored
<1>16. PICK d : d = LeadsOf(s, i, J)
  OBVIOUS
<1>17. Ints(d, J) /\ \A j \in J : d[j] = s[i] - s[j]
  BY <1>11, <1>15, <1>16, LeadFacts
<1>18. Matches(b, J, S, d, k)
  <2>1. ASSUME NEW j \in J PROVE b[j] \in S /\ d[j] = k[b[j]]
    <3>1. j \in 1..n /\ b[j] \in S
      BY <1>12, <1>13
    <3>2. s[j] = OutcomeIn(len, resp, sc, b[j]) /\ s[i] = OutcomeIn(len, resp, sc, r)
      BY <1>2, <1>10, <3>1
    <3>3. k[b[j]] = OutcomeIn(len, resp, sc, r) - OutcomeIn(len, resp, sc, b[j])
      BY <1>8, <3>1
    <3> QED
      BY <1>17, <3>1, <3>2, <3>3
  <2>2. \A j, l \in J : b[j] = b[l] => j = l
    BY <1>i, <1>12
  <2> QED
    BY <1>14, <2>1, <2>2 DEF Matches
<1>19. IsFiniteSet(J)
  <2>1. IsFiniteSet(1..n)
    BY FS_Interval
  <2> QED
    BY <1>12, <2>1, FS_Subset
<1>20. SumFunctionOnSet(d, J) = SumFunctionOnSet(k, S)
  BY <1>5, <1>9, <1>18, <1>19, SumMatched
<1>21. DueIn("grpo", len, resp, sc, r) = SumFunctionOnSet(k, S)
  <2>1. DueIn("grpo", len, resp, sc, r) = SumFunction(k)
    BY Zenon, <1>6 DEF DueIn
  <2> QED
    BY Zenon, <1>8, <2>1 DEF SumFunction
<1>22. Grpo(s, idx, i) = SumFunctionOnSet(d, J)
  BY <1>11, <1>12, <1>15, <1>16, GrpoIs
<1>23. SumFunctionOnSet(k, S) \in Int
  BY <1>5, <1>9, SumType
<1>24. Values(d, J) = Values(k, S)
  BY <1>13, <1>14, <1>18 DEF Values, Matches
<1>25. PassK(s, idx, i) = Max({0, Min(Values(d, J))}) /\ PassK(s, idx, i) \in Int
  BY <1>11, <1>12, <1>15, <1>16, PassKIs
<1>26. DueIn("passk", len, resp, sc, r) = Max({0, Min(Values(k, S))})
  <2>1. "passk" # "grpo"
    OBVIOUS
  <2> QED
    BY Zenon, <1>4, <1>6, <2>1 DEF DueIn
<1> QED
  BY <1>2, <1>20, <1>21, <1>22, <1>23, <1>24, <1>25, <1>26

\* A rollout correction only takes tokens out, so masks stay masks.
CreditInv == job \in Estimator => MasksFit(length, response, score, kept)

\* Initially every mask is that of its response.
LEMMA InitCredit == DispatchInit => CreditInv
<1> SUFFICES ASSUME DispatchInit, job \in Estimator PROVE MasksFit(length, response, score, kept)
  BY DEF CreditInv
<1>1. /\ response \in [1..(Prompts * Rollouts) -> Masks]
      /\ score \in [1..(Prompts * Rollouts) -> Outcomes]
      /\ length = [r \in DOMAIN response |-> Len(response[r])]
  BY DEF DispatchInit, Called, Estimator
<1>2. kept = response
  BY DEF DispatchInit, Ready
<1>3. PICK n \in Nat : n = PromptRows
  BY PromptRowsType
<1>4. response \in [1..n -> Masks] /\ score \in [1..n -> Outcomes]
  BY <1>1, <1>3 DEF PromptRows
<1>5. DOMAIN response = 1..n /\ DOMAIN length = 1..n
  BY <1>1, <1>4
<1>6. ASSUME NEW r \in 1..n 
      PROVE  MaskOf(response[r], length[r]) /\ score[r] \in Int /\ Numbers(r, length[r])
  <2>1. response[r] \in Seq({0, 1}) /\ response[r] # <<>>
    BY <1>4, DispatchAssumption
  <2>2. PICK m \in Seq({0, 1}) : m = response[r] /\ m # <<>>
    BY <2>1
  <2>3. PICK l \in Nat : l = Len(m)
    OBVIOUS
  <2>4. l > 0
    BY <2>2, <2>3, EmptySeq
  <2>5. m \in [1..l -> {0, 1}]
    BY <2>3, LenProperties
  <2>6. length[r] = l
    BY <1>1, <1>5, <2>2, <2>3
  <2>7. Numbers(r, l)
    <3>1. DOMAIN m = 1..l
      BY <2>5
    <3>2. m \in Masks /\ r \in 1..(Prompts * Rollouts)
      BY <1>3, <1>4, <2>2 DEF PromptRows
    <3> QED
      BY <3>1, <3>2, DispatchAssumption DEF Numbers
  <2>8. score[r] \in Int
    BY <1>4, DispatchAssumption
  <2> QED
    BY <2>2, <2>4, <2>5, <2>6, <2>7, <2>8 DEF MaskOf
<1> QED
  BY <1>2, <1>3, <1>5, <1>6 DEF MasksFit

\* A step leaves masks that fit, with a case for each action.
LEMMA CreditStep == CreditInv /\ [DispatchNext]_dispatchVars => CreditInv'
<1> SUFFICES ASSUME CreditInv, [DispatchNext]_dispatchVars PROVE CreditInv'
  OBVIOUS
<1>1. CASE UNCHANGED <<job, length, response, score, kept>>
  BY <1>1 DEF CreditInv
<1>2. CASE Reject
  <2>1. job \in Estimator /\ UNCHANGED <<job, length, response, score>>
    BY <1>2 DEF Reject
  <2>2. MasksFit(length, response, score, kept)
    BY <2>1 DEF CreditInv
  <2>3. PICK lost : kept' = [r \in DOMAIN response |-> [t \in DOMAIN response[r] |->
                                IF <<r, t>> \in lost THEN 0 ELSE response[r][t]]]
    BY <1>2 DEF Reject
  <2>4. DOMAIN response = 1..PromptRows
    BY <2>2 DEF MasksFit
  <2>5. ASSUME NEW q \in 1..PromptRows PROVE MaskOf(kept'[q], length[q])
    <3>1. PICK n \in Nat : n = length[q] /\ n > 0
      BY <2>2 DEF MasksFit, MaskOf
    <3>2. PICK m \in [1..n -> {0, 1}] : m = response[q]
      BY <2>2, <3>1 DEF MasksFit, MaskOf
    <3>3. kept'[q] = [t \in 1..n |-> IF <<q, t>> \in lost THEN 0 ELSE m[t]]
      BY <2>3, <2>4, <3>2
    <3>4. kept'[q] \in [1..n -> {0, 1}]
      BY <3>3
    <3> QED
      BY <3>1, <3>4 DEF MaskOf
  <2>6. DOMAIN kept' = 1..PromptRows
    BY <2>3, <2>4
  <2>7. MasksFit(length, response, score, kept')
    BY <2>2, <2>5, <2>6 DEF MasksFit
  <2> QED
    BY <2>1, <2>7 DEF CreditInv
<1>3. CASE Balance BY <1>1, <1>3 DEF Balance, creditVars
<1>4. CASE Pad BY <1>1, <1>4 DEF Pad, creditVars
<1>5. CASE Dispatch BY <1>1, <1>5 DEF Dispatch, creditVars
<1>6. CASE AllReduce BY <1>1, <1>6 DEF AllReduce, creditVars
<1>7. CASE Collect BY <1>1, <1>7 DEF Collect, creditVars
<1>8. CASE Estimate BY <1>1, <1>8 DEF Estimate, creditVars
<1>9. ASSUME NEW w \in Worker, Generate(w) PROVE CreditInv'
  BY <1>1, <1>9 DEF Generate, creditVars
<1>10. ASSUME NEW w \in Worker, Count(w) PROVE CreditInv'
  BY <1>1, <1>10 DEF Count, creditVars
<1>11. ASSUME NEW w \in Worker, Forward(w) PROVE CreditInv'
  BY <1>1, <1>11 DEF Forward, creditVars
<1>12. ASSUME NEW w \in Worker, MiniEnds(w) PROVE CreditInv'
  BY <1>1, <1>12 DEF MiniEnds, creditVars
<1>13. CASE UNCHANGED dispatchVars BY <1>1, <1>13 DEF dispatchVars, creditVars
<1> QED
  BY <1>2, <1>3, <1>4, <1>5, <1>6, <1>7, <1>8, <1>9, <1>10, <1>11, <1>12, <1>13 DEF DispatchNext

\* The batch whose advantages are computed is a permutation of the rows.
LEMMA EstimatedRows ==
  ASSUME DispatchInv, CreditInv, job \in Estimator
  PROVE  /\ MasksFit(length, response, score, kept)
         /\ Permutation(batch, PromptRows) /\ DOMAIN batch = 1..PromptRows
<1>1. MasksFit(length, response, score, kept)
  BY DEF CreditInv
<1>2. PICK n \in Nat : n = PromptRows
  BY PromptRowsType
<1>3. BatchFits(batch, step, job, Rows, PadSize)
  BY DEF DispatchInv, BatchInv
<1>4. Rows = n
  <2>1. DOMAIN length = 1..n
    BY <1>1, <1>2 DEF MasksFit
  <2>2. Len(length) \in Nat /\ DOMAIN length = 1..Len(length)
    BY DEF DispatchInv, CallInv, CallFits
  <2>3. PICK l \in Nat : l = Len(length)
    BY <2>2
  <2>4. 1..l = 1..n
    BY <2>1, <2>2, <2>3
  <2>5. l = n
    <3>1. ASSUME l < n PROVE FALSE
      <4>1. n \in 1..n /\ n \notin 1..l
        BY <3>1
      <4> QED
        BY <2>4, <4>1
    <3>2. ASSUME n < l PROVE FALSE
      <4>1. l \in 1..l /\ l \notin 1..n
        BY <3>2
      <4> QED
        BY <2>4, <4>1
    <3> QED
      BY <3>1, <3>2
  <2> QED
    BY <2>3, <2>5 DEF Rows
<1>5. job # "validate"
  BY DEF Estimator
<1>6. Len(batch) = n /\ Permutation(batch, n) /\ batch \in Seq(1..n)
  BY <1>3, <1>4, <1>5 DEF BatchFits
<1>7. DOMAIN batch = 1..n
  BY <1>6, LenProperties
<1> QED
  BY <1>1, <1>2, <1>6, <1>7

\* AdvantageAt, for each estimator
RewardIn(len, resp, sc, r) == EarnedBy(r, len[r], resp[r], sc[r])
ValuesIn(r, n) == [t \in 1..n |-> Value(r, t)]
GaeAt(i) ==
  Gae(RewardIn(length, response, score, batch[i]), ValuesIn(batch[i], length[batch[i]]),
      kept[batch[i]])
GrpoAt(i) ==
  Broadcast(Grpo(ScoresIn(batch, length, response, score), UidIn(batch), i), kept[batch[i]])
PassKAt(i) ==
  Broadcast(PassK(ScoresIn(batch, length, response, score), UidIn(batch), i), kept[batch[i]])

\* Which of them it is
LEMMA AdvantageIs ==
  ASSUME NEW i
  PROVE  /\ job = "gae" => AdvantageAt(i) = GaeAt(i)
         /\ job = "grpo" => AdvantageAt(i) = GrpoAt(i)
         /\ job = "passk" => AdvantageAt(i) = PassKAt(i)
<1>1. AdvantageAt(i) = CASE job = "gae" -> GaeAt(i)
                         [] job = "grpo" -> GrpoAt(i)
                         [] job = "passk" -> PassKAt(i)
  BY Zenon DEF AdvantageAt, GaeAt, GrpoAt, PassKAt, ScoresIn, UidIn, ScoreOf, ScoreBy, Reward,
               EarnedBy, RewardIn, ValuesIn
<1> QED
  BY <1>1

\* OutcomeCredit speaks of nothing else, before a step
LEMMA CreditIs ==
  OutcomeCredit = CreditIn(step, job, batch, length, response, score, kept, result)
<1>1. PICK P : P = CreditIn(step, job, batch, length, response, score, kept, result)
  OBVIOUS
<1>2. \A r : DueIn(job, length, response, score, r) = DueStated(job, length, response, score, r)
  BY DueIsStated
<1>3. OutcomeCredit <=> CreditIn(step, job, batch, length, response, score, kept, result)
  BY <1>2, CreditNow DEF CreditIn
<1> QED
  BY <1>3 DEF CreditIn, OutcomeCredit

\* and after it.
LEMMA CreditThen ==
  OutcomeCredit' = CreditIn(step', job', batch', length', response', score', kept', result')
<1>1. OutcomeCredit' = ((step' = "done" /\ job' \in {"grpo", "passk"}) =>
        \A i \in DOMAIN batch' : \A t \in 1..length'[batch'[i]] :
          result'[i][t] = kept'[batch'[i]][t]
                            * DueStated(job', length', response', score', batch'[i]))
  BY Zenon DEF OutcomeCredit, Outcome, DueStated, LeadIn, OthersIn, ValuesOfLead, OutcomeIn,
               OutcomeBy, Charges, Generated
<1>2. \A r : DueIn(job', length', response', score', r)
            = DueStated(job', length', response', score', r)
  BY DueIsStated
<1> QED
  BY <1>1, <1>2 DEF CreditIn

\* Estimate gives every token left what its row is due.
LEMMA EstimateCredits ==
  ASSUME DispatchInv, CreditInv, Estimate
  PROVE  OutcomeCredit'
<1>1. UNCHANGED <<job, length, batch, response, score, kept>>
  BY DEF Estimate, creditVars
<1>2. PICK R : R = [i \in DOMAIN batch |-> AdvantageAt(i)]
  OBVIOUS
<1>3. step' = "done" /\ result' = R
  BY <1>2 DEF Estimate
<1>4. CreditIn("done", job, batch, length, response, score, kept, R)
  <2>1. SUFFICES ASSUME job \in {"grpo", "passk"},
                        NEW i \in DOMAIN batch, NEW t \in 1..length[batch[i]]
                 PROVE  R[i][t] = kept[batch[i]][t]
                                    * DueIn(job, length, response, score, batch[i])
    BY DEF CreditIn
  <2>2. job \in Estimator
    BY <2>1 DEF Estimator
  <2>3. MasksFit(length, response, score, kept)
    BY <2>2, EstimatedRows
  <2>4. PICK n \in Nat : n = PromptRows
    BY PromptRowsType
  <2>5. Permutation(batch, n) /\ DOMAIN batch = 1..n
    BY <2>2, <2>4, EstimatedRows
  <2>6. PICK s : s = ScoresIn(batch, length, response, score)
    OBVIOUS
  <2>7. PICK u : u = UidIn(batch)
    OBVIOUS
  <2>8. i \in 1..n
    BY <2>5
  <2>9. PICK r \in 1..n : r = batch[i]
    <3>1. batch[i] \in 1..n
      BY <2>5, <2>8, PermutationFacts
    <3> QED
      BY <3>1
  <2>10. MaskOf(kept[r], length[r])
    BY <2>3, <2>4 DEF MasksFit
  <2>11. PICK a \in Int : a = DueIn(job, length, response, score, r)
    BY <2>1, <2>3, <2>4, <2>5, <2>6, <2>7, <2>8, <2>9, RowDue
  <2>12. AdvantageAt(i) = Broadcast(a, kept[r])
    <3>1. CASE job = "grpo"
      <4>1. Grpo(s, u, i) = a
        BY <2>3, <2>4, <2>5, <2>6, <2>7, <2>8, <2>9, <2>11, <3>1, RowDue, SMTT(30)
      <4> QED
        BY <2>6, <2>7, <2>9, <3>1, <4>1, AdvantageIs DEF GrpoAt
    <3>2. CASE job = "passk"
      <4>1. PassK(s, u, i) = a
        BY <2>3, <2>4, <2>5, <2>6, <2>7, <2>8, <2>9, <2>11, <3>2, RowDue
      <4> QED
        BY <2>6, <2>7, <2>9, <3>2, <4>1, AdvantageIs DEF PassKAt
    <3> QED
      BY <2>1, <3>1, <3>2
  <2>13. R[i] = Broadcast(a, kept[r])
    BY <1>2, <2>12
  <2>14. kept[r][t] \in {0, 1} /\ t \in DOMAIN kept[r]
    BY <2>1, <2>9, <2>10 DEF MaskOf
  <2>15. R[i][t] = a * kept[r][t]
    BY <2>13, <2>14 DEF Broadcast
  <2>16. PICK m \in Int : m = kept[r][t]
    BY <2>14
  <2>17. a * m = m * a
    OBVIOUS
  <2> QED
    BY <2>9, <2>11, <2>15, <2>16, <2>17
<1>5. CreditIn(step', job', batch', length', response', score', kept', result')
  BY <1>1, <1>3, <1>4
<1> QED
  BY <1>5, CreditThen

\* There is a worker.
LEMMA SomeWorker == \E w : w \in Worker
<1>1. 1 \in 1..Ranks
  BY DispatchAssumption
<1> QED
  BY <1>1, SpeakerIs

\* Only Estimate ends a call of an estimator.
LEMMA OnlyEstimate ==
  ASSUME DispatchInv, DispatchNext, ~Estimate
  PROVE  step' # "done" \/ job' \notin Estimator
<1>1. CASE Collect BY <1>1 DEF Collect, DispatchInv, StepInv, StepFits
<1>2. CASE Balance BY <1>2 DEF Balance
<1>3. CASE Pad BY <1>3 DEF Pad
<1>4. CASE Dispatch BY <1>4 DEF Dispatch
<1>5. CASE Reject BY <1>5 DEF Reject
<1>6. CASE AllReduce
  <2>1. \A w \in Worker : AtWork(w)
    BY <1>6 DEF AllReduce, Reducing
  <2>2. PICK w : w \in Worker
    BY SomeWorker
  <2>3. step = "wait"
    BY <2>1, <2>2 DEF AtWork
  <2> QED
    BY <1>6, <2>3 DEF AllReduce
<1>7. ASSUME NEW w \in Worker, Generate(w) \/ Count(w) \/ Forward(w) \/ MiniEnds(w)
      PROVE  step' # "done" \/ job' \notin Estimator
  BY <1>7 DEF Generate, Count, Forward, MiniEnds, AtWork
<1> QED
  BY <1>1, <1>2, <1>3, <1>4, <1>5, <1>6, <1>7 DEF DispatchNext

\* Nothing else touches a batch whose advantages are computed.
LEMMA OutcomeStep ==
  DispatchInv /\ CreditInv /\ OutcomeCredit /\ [DispatchNext]_dispatchVars => OutcomeCredit'
<1> SUFFICES ASSUME DispatchInv, CreditInv, OutcomeCredit, [DispatchNext]_dispatchVars
             PROVE  OutcomeCredit'
  OBVIOUS
<1>1. CASE Estimate
  BY <1>1, EstimateCredits
<1>2. CASE DispatchNext /\ ~Estimate
  <2>1. step' # "done" \/ job' \notin {"grpo", "passk"}
    BY <1>2, OnlyEstimate DEF Estimator
  <2>2. CreditIn(step', job', batch', length', response', score', kept', result')
    BY <2>1 DEF CreditIn
  <2> QED
    BY <2>2, CreditThen
<1>3. CASE UNCHANGED dispatchVars
  <2>1. UNCHANGED <<step, job, batch, length, response, score, kept, result>>
    BY <1>3 DEF dispatchVars, creditVars
  <2>2. CreditIn(step, job, batch, length, response, score, kept, result)
    BY CreditIs
  <2>3. CreditIn(step', job', batch', length', response', score', kept', result')
    BY <2>1, <2>2
  <2> QED
    BY <2>3, CreditThen
<1> QED
  BY <1>1, <1>2, <1>3

(* Every token left of a response has the advantage of its row's outcome over      *)
(* those of its prompt, for any prompts, any responses and any batch: balancing    *)
(* moves the rows of a prompt apart and rollout correction takes tokens out of     *)
(* the masks, and neither changes what a row is due.                               *)
THEOREM OutcomeIsCredited == DispatchSpec => []OutcomeCredit
<1>1. DispatchInit => CreditInv /\ OutcomeCredit
  <2>1. DispatchInit => step # "done"
    BY DEF DispatchInit, Ready
  <2>2. step # "done" => OutcomeCredit
    BY DEF OutcomeCredit
  <2> QED
    BY <2>1, <2>2, InitCredit
<1>2. DispatchInv /\ CreditInv /\ OutcomeCredit /\ [DispatchNext]_dispatchVars
        => CreditInv' /\ OutcomeCredit'
  BY CreditStep, OutcomeStep
<1> QED
  BY <1>1, <1>2, DispatchInvariant, PTL DEF DispatchSpec

-----------------------------------------------------------------------------
(* Discounted sums *)

PowersTo(p, b, n) == p = [k \in 0..n |-> IF k = 0 THEN 1 ELSE b * p[k - 1]]

\* The first power is one, and each is the one before times the base.
LEMMA PowersAt ==
  ASSUME NEW p, NEW b, NEW n \in Nat, PowersTo(p, b, n)
  PROVE  /\ p[0] = 1 /\ \A k \in 1..n : p[k] = b * p[k - 1]
         /\ DOMAIN p = 0..n
<1>1. PICK q : q = p
  OBVIOUS
<1>2. p = [k \in 0..n |-> IF k = 0 THEN 1 ELSE b * q[k - 1]]
  BY Zenon, <1>1 DEF PowersTo
<1>3. DOMAIN p = 0..n /\ \A k \in 0..n : p[k] = IF k = 0 THEN 1 ELSE b * q[k - 1]
  BY <1>2
<1> QED
  BY <1>1, <1>3

\* There are powers up to any number,
LEMMA PowersExist ==
  ASSUME NEW b, NEW n \in Nat
  PROVE  \E p : PowersTo(p, b, n)
<1> DEFINE Z == {l \in Nat : \E p : PowersTo(p, b, l)}
<1>1. 0 \in Z
  <2>1. PICK p : p = [k \in 0..0 |-> 1]
    OBVIOUS
  <2>2. p = [k \in 0..0 |-> IF k = 0 THEN 1 ELSE b * p[k - 1]]
    BY <2>1
  <2>3. PowersTo(p, b, 0)
    BY Zenon, <2>2 DEF PowersTo
  <2> QED
    BY <2>3
<1>2. ASSUME NEW l \in Nat, l \in Z PROVE l + 1 \in Z
  <2>1. PICK p : PowersTo(p, b, l)
    BY <1>2
  <2>2. p[0] = 1 /\ \A k \in 1..l : p[k] = b * p[k - 1]
    BY <2>1, PowersAt
  <2>3. PICK q : q = [k \in 0..(l + 1) |-> IF k = l + 1 THEN b * p[l] ELSE p[k]]
    OBVIOUS
  <2>4. ASSUME NEW k \in 0..(l + 1) PROVE q[k] = IF k = 0 THEN 1 ELSE b * q[k - 1]
    <3>1. CASE k = l + 1
      BY <2>3, <3>1
    <3>2. CASE k # l + 1
      <4>1. k \in 0..l /\ (k # 0 => k \in 1..l /\ k - 1 \in 0..(l + 1) /\ k - 1 # l + 1)
        BY <3>2
      <4>2. q[k] = p[k] /\ (k # 0 => q[k - 1] = p[k - 1])
        BY <2>3, <3>2, <4>1
      <4> QED
        BY <2>2, <4>1, <4>2
    <3> QED
      BY <3>1, <3>2
  <2>5. q = [k \in 0..(l + 1) |-> q[k]]
    BY <2>3
  <2>6. q = [k \in 0..(l + 1) |-> IF k = 0 THEN 1 ELSE b * q[k - 1]]
    BY <2>4, <2>5
  <2>7. PowersTo(q, b, l + 1)
    BY Zenon, <2>6 DEF PowersTo
  <2> QED
    BY <2>7
<1> HIDE DEF Z
<1>3. n \in Z
  BY <1>1, <1>2, EachNatural
<1> QED
  BY <1>3 DEF Z

\* and Power is one of them.
LEMMA PowerIs ==
  ASSUME NEW b, NEW n \in Nat
  PROVE  \E p : PowersTo(p, b, n) /\ Power(b, n) = p[n]
<1>1. PICK p : p = CHOOSE q : PowersTo(q, b, n)
  OBVIOUS
<1>2. PowersTo(p, b, n)
  BY Zenon, <1>1, PowersExist
<1>3. Power(b, n) = p[n]
  BY Zenon, <1>1 DEF Power, PowersTo
<1> QED
  BY <1>2, <1>3

\* Power, one factor after another
LEMMA PowerFacts ==
  ASSUME NEW b \in Int, NEW n \in Nat
  PROVE  /\ Power(b, 0) = 1
         /\ Power(b, n) \in Int
         /\ Power(b, n + 1) = Times(b, Power(b, n))
<1>1. PICK p : PowersTo(p, b, n) /\ Power(b, n) = p[n]
  BY PowerIs
<1>2. PICK q : PowersTo(q, b, n + 1) /\ Power(b, n + 1) = q[n + 1]
  BY PowerIs
<1>3. PICK o : PowersTo(o, b, 0) /\ Power(b, 0) = o[0]
  BY PowerIs
<1>4. o[0] = 1
  BY <1>3, PowersAt
<1>5. p[0] = 1 /\ \A k \in 1..n : p[k] = b * p[k - 1]
  BY <1>1, PowersAt
<1>6. q[0] = 1 /\ \A k \in 1..(n + 1) : q[k] = b * q[k - 1]
  BY <1>2, PowersAt
<1> DEFINE Z == {k \in Nat : k <= n => p[k] \in Int /\ p[k] = q[k]}
<1>7. 0 \in Z
  BY <1>5, <1>6
<1>8. ASSUME NEW k \in Nat, k \in Z PROVE k + 1 \in Z
  <2>1. SUFFICES ASSUME k + 1 <= n PROVE p[k + 1] \in Int /\ p[k + 1] = q[k + 1]
    OBVIOUS
  <2>2. p[k] \in Int /\ p[k] = q[k]
    BY <1>8, <2>1
  <2>3. k + 1 \in 1..n /\ k + 1 \in 1..(n + 1) /\ (k + 1) - 1 = k
    BY <2>1
  <2>4. p[k + 1] = b * p[k]
    BY <1>5, <2>3
  <2>5. q[k + 1] = b * q[k]
    BY <1>6, <2>3
  <2>6. b * p[k] \in Int
    BY <2>2
  <2> QED
    BY <2>2, <2>4, <2>5, <2>6
<1> HIDE DEF Z
<1>9. n \in Z
  BY <1>7, <1>8, EachNatural
<1>10. p[n] \in Int /\ p[n] = q[n]
  BY <1>9 DEF Z
<1>11. q[n + 1] = b * q[n]
  <2>1. n + 1 \in 1..(n + 1) /\ (n + 1) - 1 = n
    OBVIOUS
  <2> QED
    BY <1>6, <2>1
<1> QED
  BY <1>1, <1>2, <1>3, <1>4, <1>10, <1>11 DEF Times

\* The tokens left from t on, and how many there are before u
FromOn(L, t) == {u \in L : u >= t}
Between(L, t, u) == {v \in L : t <= v /\ v < u}
Gap(L, t, u) == Cardinality(Between(L, t, u))
\* The value of the first of them, the error of prediction and its part in the sum
NextValue(L, v, t) == IF FromOn(L, t) = {} THEN 0 ELSE v[Min(FromOn(L, t))]
Error(L, w, v, t) == w[t] + Gamma * NextValue(L, v, t + 1) - v[t]
Discounted(L, w, v, t) ==
  [u \in FromOn(L, t) |-> Power(Gamma * Lam, Gap(L, t, u)) * Error(L, w, v, u)]
SumOn(L, w, v, t) == SumFunctionOnSet(Discounted(L, w, v, t), FromOn(L, t))

\* n tokens, those left, their rewards and values
TokensFit(n, L, w, v) ==
  n \in Nat /\ L \in SUBSET (1..n) /\ w \in [1..n -> Int] /\ v \in [1..n -> Int]

\* The tokens from t on are some of the row's.
LEMMA FromFacts ==
  ASSUME NEW n, NEW L, NEW w, NEW v, TokensFit(n, L, w, v), NEW t \in Nat
  PROVE  /\ IsFiniteSet(FromOn(L, t)) /\ FromOn(L, t) \in SUBSET L
         /\ FromOn(L, t) \in SUBSET (1..n)
         /\ NextValue(L, v, t) \in Int
         /\ \A u \in Nat : IsFiniteSet(Between(L, t, u)) /\ Gap(L, t, u) \in Nat
<1>1. n \in Nat /\ L \in SUBSET (1..n) /\ \A u \in 1..n : v[u] \in Int
  BY DEF TokensFit
<1>2. IsFiniteSet(1..n)
  BY <1>1, FS_Interval
<1>3. PICK F \in SUBSET (1..n) : F = FromOn(L, t) /\ F \in SUBSET L
  BY <1>1 DEF FromOn
<1>4. IsFiniteSet(F)
  BY <1>2, FS_Subset
<1>5. ASSUME NEW u \in Nat PROVE IsFiniteSet(Between(L, t, u)) /\ Gap(L, t, u) \in Nat
  <2>1. PICK B \in SUBSET (1..n) : B = Between(L, t, u)
    BY <1>1 DEF Between
  <2>2. IsFiniteSet(B)
    BY <1>2, FS_Subset
  <2> QED
    BY <2>1, <2>2, FS_CardinalityType DEF Gap
<1>6. NextValue(L, v, t) \in Int
  <2>1. CASE F = {}
    BY <1>3, <2>1 DEF NextValue
  <2>2. CASE F # {}
    <3>1. PICK m \in F : \A u \in F : m <= u
      <4>1. F \in SUBSET Nat
        BY <1>1
      <4> QED
        BY <2>2, <4>1, LeastExists
    <3>2. Min(F) \in F
      <4>1. \E x \in F : \A y \in F : x <= y
        BY <3>1
      <4> QED
        BY Zenon, <4>1 DEF Min
    <3>3. v[Min(F)] \in Int
      BY <1>1, <3>2
    <3> QED
      BY <1>3, <2>2, <3>3 DEF NextValue
  <2> QED
    BY <2>1, <2>2
<1> QED
  BY <1>3, <1>4, <1>5, <1>6

\* The parts of the sum are integers.
LEMMA DiscountedFacts ==
  ASSUME NEW n, NEW L, NEW w, NEW v, TokensFit(n, L, w, v), NEW t \in Nat,
         NEW F, F = FromOn(L, t), NEW d, d = Discounted(L, w, v, t)
  PROVE  /\ Ints(d, F)
         /\ \A u \in F : /\ Error(L, w, v, u) \in Int
                         /\ d[u] = Times(Power(Times(Gamma, Lam), Gap(L, t, u)), Error(L, w, v, u))
<1>1. n \in Nat /\ L \in SUBSET (1..n) /\ \A u \in 1..n : v[u] \in Int /\ w[u] \in Int
  BY DEF TokensFit
<1>2. F \in SUBSET (1..n)
  BY FromFacts
<1>3. PICK g \in Int : g = Gamma
  BY DiscountAssumption
<1>4. PICK b \in Int : b = Times(Gamma, Lam) /\ b = Gamma * Lam
  BY DiscountAssumption, TimesFacts DEF Times
<1>5. ASSUME NEW u \in F
      PROVE  /\ Error(L, w, v, u) \in Int
             /\ d[u] = Times(Power(b, Gap(L, t, u)), Error(L, w, v, u))
             /\ d[u] \in Int
  <2>1. u \in 1..n /\ u \in Nat /\ u + 1 \in Nat
    BY <1>1, <1>2
  <2>2. PICK x \in Int : x = NextValue(L, v, u + 1)
    BY <2>1, FromFacts
  <2>3. g * x \in Int
    OBVIOUS
  <2>4. PICK e \in Int : e = Error(L, w, v, u)
    BY <1>1, <1>3, <2>1, <2>2, <2>3 DEF Error
  <2>5. PICK k \in Nat : k = Gap(L, t, u)
    BY <2>1, FromFacts
  <2>6. PICK p \in Int : p = Power(b, k)
    BY PowerFacts
  <2>7. d[u] = Power(Gamma * Lam, Gap(L, t, u)) * Error(L, w, v, u)
    BY DEF Discounted
  <2>8. d[u] = p * e
    BY <1>4, <2>4, <2>5, <2>6, <2>7
  <2>9. p * e \in Int
    OBVIOUS
  <2> QED
    BY <2>4, <2>5, <2>6, <2>8, <2>9 DEF Times
<1> QED
  BY <1>4, <1>5 DEF Ints

\* A token that is not left changes nothing,
LEMMA SumSkips ==
  ASSUME NEW n, NEW L, NEW w, NEW v, TokensFit(n, L, w, v), NEW t \in 1..n, t \notin L
  PROVE  /\ NextValue(L, v, t) = NextValue(L, v, t + 1)
         /\ SumOn(L, w, v, t) = SumOn(L, w, v, t + 1)
<1>1. n \in Nat /\ L \in SUBSET (1..n) /\ t \in Nat /\ t + 1 \in Nat
  BY DEF TokensFit
<1>2. PICK F : F = FromOn(L, t)
  OBVIOUS
<1>3. F = FromOn(L, t + 1)
  <2>1. \A u \in L : u \in Int /\ (u >= t <=> u >= t + 1)
    BY <1>1
  <2> QED
    BY <1>2, <2>1 DEF FromOn
<1>4. NextValue(L, v, t) = NextValue(L, v, t + 1)
  BY <1>2, <1>3 DEF NextValue
<1>5. ASSUME NEW u \in F PROVE Gap(L, t, u) = Gap(L, t + 1, u)
  <2>1. \A x \in L : x \in Int /\ (t <= x <=> t + 1 <= x)
    BY <1>1
  <2>2. Between(L, t, u) = Between(L, t + 1, u)
    BY <2>1 DEF Between
  <2> QED
    BY <2>2 DEF Gap
<1>6. PICK d : d = Discounted(L, w, v, t)
  OBVIOUS
<1>7. PICK e : e = Discounted(L, w, v, t + 1)
  OBVIOUS
<1>8. \A u \in F : d[u] = Times(Power(Times(Gamma, Lam), Gap(L, t, u)), Error(L, w, v, u))
  BY <1>1, <1>2, <1>6, DiscountedFacts
<1>9. \A u \in F : e[u] = Times(Power(Times(Gamma, Lam), Gap(L, t + 1, u)), Error(L, w, v, u))
  BY <1>1, <1>3, <1>7, DiscountedFacts
<1>10. Ints(e, F) /\ IsFiniteSet(F)
  BY <1>1, <1>2, <1>3, <1>7, DiscountedFacts, FromFacts
<1>11. \A u \in F : d[u] = e[u]
  BY <1>5, <1>8, <1>9
<1>12. SumFunctionOnSet(d, F) = SumFunctionOnSet(e, F)
  BY <1>10, <1>11, SumSame
<1> QED
  BY <1>2, <1>3, <1>4, <1>6, <1>7, <1>12 DEF SumOn

\* Products of three
LEMMA TimesGroups ==
  ASSUME NEW a \in Int, NEW b \in Int, NEW c \in Int
  PROVE  Times(Times(a, b), c) = Times(a, Times(b, c))
BY DEF Times

\* A product with one
LEMMA TimesOne ==
  ASSUME NEW a \in Int
  PROVE  Times(1, a) = a
BY DEF Times

\* and one that is left puts its error before the rest.
LEMMA SumTakes ==
  ASSUME NEW n, NEW L, NEW w, NEW v, TokensFit(n, L, w, v), NEW t \in 1..n, t \in L
  PROVE  /\ NextValue(L, v, t) = v[t]
         /\ SumOn(L, w, v, t)
              = Error(L, w, v, t) + Times(Times(Gamma, Lam), SumOn(L, w, v, t + 1))
<1>1. n \in Nat /\ L \in SUBSET (1..n) /\ t \in Nat /\ t + 1 \in Nat
  BY DEF TokensFit
<1>2. PICK F : F = FromOn(L, t)
  OBVIOUS
<1>3. PICK G : G = FromOn(L, t + 1)
  OBVIOUS
<1>4. \A u \in L : u \in Int
  BY <1>1
<1>5. t \in F /\ \A u \in F : t <= u /\ u \in Int
  BY <1>1, <1>2, <1>4 DEF FromOn
<1>6. G = F \ {t}
  <2>1. \A u \in L : u >= t + 1 <=> (u >= t /\ u # t)
    BY <1>1, <1>4
  <2> QED
    BY <1>2, <1>3, <2>1 DEF FromOn
<1>7. NextValue(L, v, t) = v[t]
  <2>1. \E x \in F : \A y \in F : x <= y
    BY <1>5
  <2>2. PICK x : x = Min(F)
    OBVIOUS
  <2>3. x \in F /\ \A y \in F : x <= y
    BY Zenon, <2>1, <2>2 DEF Min
  <2>4. x = t
    BY <1>1, <1>5, <2>3
  <2> QED
    BY <1>2, <1>5, <2>2, <2>4 DEF NextValue
<1>8. PICK b \in Int : b = Times(Gamma, Lam)
  BY DiscountAssumption, TimesFacts
<1>9. PICK d : d = Discounted(L, w, v, t)
  OBVIOUS
<1>10. PICK e : e = Discounted(L, w, v, t + 1)
  OBVIOUS
<1>11. Ints(d, F) /\ IsFiniteSet(F)
  BY <1>1, <1>2, <1>9, DiscountedFacts, FromFacts
<1>12. Ints(e, G) /\ IsFiniteSet(G)
  BY <1>1, <1>3, <1>10, DiscountedFacts, FromFacts
<1>13. d[t] = Error(L, w, v, t)
  <2>1. Error(L, w, v, t) \in Int /\ d[t] = Times(Power(b, Gap(L, t, t)), Error(L, w, v, t))
    BY <1>1, <1>2, <1>5, <1>8, <1>9, DiscountedFacts
  <2>2. Between(L, t, t) = {}
    <3>1. \A x \in L : ~(t <= x /\ x < t)
      BY <1>1, <1>4
    <3> QED
      BY <3>1 DEF Between
  <2>3. Gap(L, t, t) = 0
    BY <2>2, FS_EmptySet DEF Gap
  <2>4. Power(b, 0) = 1
    <3>1. 0 \in Nat
      OBVIOUS
    <3> QED
      BY <3>1, PowerFacts
  <2> QED
    BY <2>1, <2>3, <2>4, TimesOne
<1>14. ASSUME NEW u \in G PROVE d[u] = Times(b, e[u])
  <2>1. u \in F /\ u # t /\ u \in L /\ u \in Nat /\ t < u
    <3>1. u \in F /\ u # t
      BY <1>6
    <3>2. u \in L
      BY <1>2, <3>1 DEF FromOn
    <3> QED
      BY <1>1, <1>5, <3>1, <3>2
  <2>2. PICK B : B = Between(L, t, u)
    OBVIOUS
  <2>3. PICK C : C = Between(L, t + 1, u)
    OBVIOUS
  <2>4. t \in B /\ C = B \ {t}
    <3>1. \A x \in L : t + 1 <= x <=> (t <= x /\ x # t)
      BY <1>1, <1>4
    <3>2. t \in B
      BY <1>1, <2>1, <2>2 DEF Between
    <3> QED
      BY <2>2, <2>3, <3>1, <3>2 DEF Between
  <2>5. IsFiniteSet(B) /\ Cardinality(B) \in Nat
    BY <1>1, <2>1, <2>2, FromFacts DEF Gap
  <2>6. PICK k \in Nat : k = Gap(L, t + 1, u)
    BY <1>1, <2>1, FromFacts
  <2>7. Gap(L, t, u) = k + 1
    <3>1. Cardinality(C) = Cardinality(B) - 1
      BY <2>4, <2>5, FS_RemoveElement
    <3>2. k = Cardinality(C) /\ Gap(L, t, u) = Cardinality(B)
      BY <2>2, <2>3, <2>6 DEF Gap
    <3> QED
      BY <2>5, <3>1, <3>2
  <2>8. PICK p \in Int : p = Power(b, k) /\ Power(b, k + 1) = Times(b, p)
    BY PowerFacts
  <2>9. PICK x \in Int : x = Error(L, w, v, u)
    BY <1>1, <1>2, <1>9, <2>1, DiscountedFacts
  <2>10. d[u] = Times(Power(b, k + 1), x)
    BY <1>1, <1>2, <1>8, <1>9, <2>1, <2>7, <2>9, DiscountedFacts
  <2>11. e[u] = Times(p, x)
    BY <1>1, <1>3, <1>8, <1>10, <2>6, <2>8, <2>9, DiscountedFacts
  <2>12. d[u] = Times(Times(b, p), x)
    BY <2>8, <2>10
  <2> QED
    BY <2>11, <2>12, TimesGroups
<1>15. Scales(d, b, e, G)
  BY <1>14 DEF Scales, Times
<1>16. SumFunctionOnSet(d, G) = Times(b, SumFunctionOnSet(e, G))
  BY <1>12, <1>15, SumScales
<1>17. SumFunctionOnSet(d, F) = d[t] + SumFunctionOnSet(d, G)
  BY <1>5, <1>6, <1>11, SumAny
<1>18. /\ SumOn(L, w, v, t) = SumFunctionOnSet(d, F)
       /\ SumOn(L, w, v, t + 1) = SumFunctionOnSet(e, G)
  BY Zenon, <1>2, <1>3, <1>9, <1>10 DEF SumOn
<1> QED
  BY <1>7, <1>8, <1>13, <1>16, <1>17, <1>18

\* After the last there is nothing.
LEMMA SumEnds ==
  ASSUME NEW n, NEW L, NEW w, NEW v, TokensFit(n, L, w, v)
  PROVE  NextValue(L, v, n + 1) = 0 /\ SumOn(L, w, v, n + 1) = 0
<1>1. n \in Nat /\ L \in SUBSET (1..n)
  BY DEF TokensFit
<1>2. FromOn(L, n + 1) = {}
  <2>1. \A u \in L : ~(u >= n + 1)
    BY <1>1
  <2> QED
    BY <2>1 DEF FromOn
<1>3. PICK d : d = Discounted(L, w, v, n + 1)
  OBVIOUS
<1>4. SumFunctionOnSet(d, {}) = 0
  BY SumNone
<1>5. SumOn(L, w, v, n + 1) = 0
  BY Zenon, <1>2, <1>3, <1>4 DEF SumOn
<1> QED
  BY <1>2, <1>5 DEF NextValue

-----------------------------------------------------------------------------
(* Gae *)

\* A token's entry, from the one after it
Ahead(w, v, m, t, x) ==
  IF m[t] = 0 THEN x
  ELSE [next |-> v[t],
        sum |-> w[t] + Gamma * x.next - v[t] + Gamma * Lam * x.sum]
NoEntry == [next |-> 0, sum |-> 0]
GaeRuns(f, n, w, v, m) ==
  f = [t \in 1..(n + 1) |-> IF t = n + 1 THEN NoEntry ELSE Ahead(w, v, m, t, f[t + 1])]
\* What it should be
EntryAt(L, w, v, t) == [next |-> NextValue(L, v, t), sum |-> SumOn(L, w, v, t)]

\* The entry follows from the next as in the code.
LEMMA EntryAhead ==
  ASSUME NEW n, NEW m, MaskOf(m, n), NEW L, L = Generated(n, m), NEW w, NEW v,
         TokensFit(n, L, w, v), NEW t \in 1..n
  PROVE  EntryAt(L, w, v, t) = Ahead(w, v, m, t, EntryAt(L, w, v, t + 1))
<1>1. m[t] \in {0, 1} /\ (t \in L <=> m[t] = 1)
  BY DEF MaskOf, Generated
<1>2. CASE t \notin L
  <2>1. NextValue(L, v, t) = NextValue(L, v, t + 1) /\ SumOn(L, w, v, t) = SumOn(L, w, v, t + 1)
    BY <1>2, SumSkips
  <2> QED
    BY <1>1, <1>2, <2>1 DEF EntryAt, Ahead
<1>3. CASE t \in L
  <2>1. NextValue(L, v, t) = v[t]
    BY <1>3, SumTakes
  <2>2. PICK x : x = EntryAt(L, w, v, t + 1)
    OBVIOUS
  <2>3. x.next = NextValue(L, v, t + 1) /\ x.sum = SumOn(L, w, v, t + 1)
    BY <2>2 DEF EntryAt
  <2>4. SumOn(L, w, v, t) = w[t] + Gamma * NextValue(L, v, t + 1) - v[t]
                            + Gamma * Lam * SumOn(L, w, v, t + 1)
    <3>1. SumOn(L, w, v, t) = Error(L, w, v, t) + Times(Times(Gamma, Lam), SumOn(L, w, v, t + 1))
      BY <1>3, SumTakes
    <3> QED
      BY Zenon, <3>1 DEF Error, Times
  <2>5. SumOn(L, w, v, t) = w[t] + Gamma * x.next - v[t] + Gamma * Lam * x.sum
    BY Zenon, <2>3, <2>4
  <2>6. Ahead(w, v, m, t, x) =
          [next |-> v[t], sum |-> w[t] + Gamma * x.next - v[t] + Gamma * Lam * x.sum]
    BY <1>1, <1>3 DEF Ahead
  <2> QED
    BY Zenon, <2>1, <2>2, <2>5, <2>6 DEF EntryAt
<1> QED
  BY <1>2, <1>3

\* compute_gae_advantage_return: at a token that is left, the discounted sum from it on
LEMMA GaeIs ==
  ASSUME NEW n, NEW m, MaskOf(m, n), NEW L, L = Generated(n, m), NEW w, NEW v,
         TokensFit(n, L, w, v), NEW t \in 1..n
  PROVE  Gae(w, v, m)[t] = SumOn(L, w, v, t)
<1>1. n \in Nat /\ m \in [1..n -> {0, 1}]
  BY DEF MaskOf
<1>2. Len(m) = n
  BY <1>1, FunctionLength
<1>3. \E f : GaeRuns(f, n, w, v, m)
  <2>1. PICK f : f = [u \in 1..(n + 1) |-> EntryAt(L, w, v, u)]
    OBVIOUS
  <2>2. ASSUME NEW u \in 1..(n + 1)
        PROVE  f[u] = IF u = n + 1 THEN NoEntry ELSE Ahead(w, v, m, u, f[u + 1])
    <3>1. CASE u = n + 1
      <4>1. f[u] = EntryAt(L, w, v, n + 1)
        BY <2>1, <3>1
      <4> QED
        BY <3>1, <4>1, SumEnds DEF EntryAt, NoEntry
    <3>2. CASE u # n + 1
      <4>1. u \in 1..n /\ u + 1 \in 1..(n + 1)
        BY <1>1, <3>2
      <4>2. EntryAt(L, w, v, u) = Ahead(w, v, m, u, EntryAt(L, w, v, u + 1))
        BY <4>1, EntryAhead
      <4>3. f[u] = EntryAt(L, w, v, u) /\ f[u + 1] = EntryAt(L, w, v, u + 1)
        BY <2>1, <4>1
      <4> QED
        BY <3>2, <4>2, <4>3
    <3> QED
      BY <3>1, <3>2
  <2>3. f = [u \in 1..(n + 1) |-> f[u]]
    BY <2>1
  <2>4. f = [u \in 1..(n + 1) |-> IF u = n + 1 THEN NoEntry ELSE Ahead(w, v, m, u, f[u + 1])]
    BY <2>2, <2>3
  <2> QED
    BY <2>4 DEF GaeRuns
<1>4. PICK f : f = CHOOSE g : GaeRuns(g, n, w, v, m)
  OBVIOUS
<1>5. GaeRuns(f, n, w, v, m)
  BY Zenon, <1>3, <1>4
<1>6. Gae(w, v, m) = [u \in 1..n |-> f[u].sum]
  <2>1. Gae(w, v, m) = [u \in 1..Len(m) |-> (CHOOSE g : GaeRuns(g, Len(m), w, v, m))[u].sum]
    BY Zenon DEF Gae, GaeRuns, NoEntry, Ahead
  <2> QED
    BY Zenon, <1>2, <1>4, <2>1
<1>7. \A u \in 1..(n + 1) : f[u] = IF u = n + 1 THEN NoEntry ELSE Ahead(w, v, m, u, f[u + 1])
  <2>1. PICK g : g = f
    OBVIOUS
  <2>2. f = [u \in 1..(n + 1) |-> IF u = n + 1 THEN NoEntry ELSE Ahead(w, v, m, u, g[u + 1])]
    BY Zenon, <1>5, <2>1 DEF GaeRuns
  <2> QED
    BY <2>1, <2>2
<1> DEFINE Z == {k \in Nat : k <= n => f[n + 1 - k] = EntryAt(L, w, v, n + 1 - k)}
<1>8. 0 \in Z
  <2>1. n + 1 \in 1..(n + 1) /\ n + 1 - 0 = n + 1
    BY <1>1
  <2>2. f[n + 1] = NoEntry
    BY <1>7, <2>1
  <2>3. EntryAt(L, w, v, n + 1) = NoEntry
    BY SumEnds DEF EntryAt, NoEntry
  <2> QED
    BY <2>1, <2>2, <2>3
<1>9. ASSUME NEW k \in Nat, k \in Z PROVE k + 1 \in Z
  <2>1. SUFFICES ASSUME k + 1 <= n PROVE f[n + 1 - (k + 1)] = EntryAt(L, w, v, n + 1 - (k + 1))
    OBVIOUS
  <2>2. PICK u \in 1..n : u = n - k
    BY <1>1, <2>1
  <2>3. n + 1 - (k + 1) = u /\ n + 1 - k = u + 1 /\ u \in 1..(n + 1) /\ u # n + 1
    BY <1>1, <2>1, <2>2
  <2>4. f[u + 1] = EntryAt(L, w, v, u + 1)
    <3>1. k <= n
      BY <1>1, <2>1
    <3> QED
      BY <1>9, <2>3, <3>1
  <2>5. EntryAt(L, w, v, u) = Ahead(w, v, m, u, EntryAt(L, w, v, u + 1))
    BY EntryAhead
  <2>6. f[u] = Ahead(w, v, m, u, f[u + 1])
    BY <1>7, <2>3
  <2> QED
    BY <2>3, <2>4, <2>5, <2>6
<1> HIDE DEF Z
<1>10. PICK k \in Nat : k = n + 1 - t /\ k <= n /\ n + 1 - k = t
  BY <1>1
<1>11. k \in Z
  BY <1>8, <1>9, EachNatural
<1>12. f[t] = EntryAt(L, w, v, t)
  BY <1>10, <1>11 DEF Z
<1> QED
  BY <1>6, <1>12 DEF EntryAt

\* ObservationsSkipped, of what it speaks of
AfterIn(L, t) == {u \in L : u > t}
ValueNext(r, L, t) == IF AfterIn(L, t) = {} THEN 0 ELSE Value(r, Min(AfterIn(L, t)))
ErrorStated(r, L, w, t) == w[t] + Gamma * ValueNext(r, L, t) - Value(r, t)
TermsStated(r, L, w, t) ==
  [u \in {t} \cup AfterIn(L, t) |-> Power(Gamma * Lam, Gap(L, t, u)) * ErrorStated(r, L, w, u)]
SkippedIn(s, j, b, len, resp, sc, kp, res) ==
  (s = "done" /\ j = "gae") =>
    \A i \in DOMAIN b : \A t \in Generated(len[b[i]], kp[b[i]]) :
      res[i][t] = SumFunction(TermsStated(b[i], Generated(len[b[i]], kp[b[i]]),
                                          RewardIn(len, resp, sc, b[i]), t))

\* The property says so before a step
LEMMA SkippedIs ==
  ObservationsSkipped = SkippedIn(step, job, batch, length, response, score, kept, result)
BY Zenon DEF ObservationsSkipped, SkippedIn, TermsStated, ErrorStated, ValueNext, AfterIn,
             Gap, Between, Generated, Reward, RewardIn, EarnedBy

\* and after it.
LEMMA SkippedThen ==
  ObservationsSkipped' =
    SkippedIn(step', job', batch', length', response', score', kept', result')
BY Zenon DEF ObservationsSkipped, SkippedIn, TermsStated, ErrorStated, ValueNext, AfterIn,
             Gap, Between, Generated, Reward, RewardIn, EarnedBy

\* A row's rewards
LEMMA EarnedType ==
  ASSUME NEW r \in Nat, NEW n, Numbers(r, n), NEW m, MaskOf(m, n), NEW sc \in Int
  PROVE  EarnedBy(r, n, m, sc) \in [1..n -> Int] /\ ValuesIn(r, n) \in [1..n -> Int]
<1>1. ASSUME NEW t \in 1..n
      PROVE  /\ Value(r, t) \in Int
             /\ (IF t = n THEN sc ELSE 0) - Divergence(r, t) * m[t] \in Int
  <2>1. m[t] \in {0, 1} /\ Divergence(r, t) \in Int /\ Value(r, t) \in Int
    BY DEF MaskOf, Numbers
  <2> QED
    BY <2>1
<1> QED
  BY <1>1 DEF EarnedBy, ValuesIn

\* The sum as it is stated
LEMMA StatedSum ==
  ASSUME NEW r \in Nat, NEW n, NEW L, NEW w, NEW v, TokensFit(n, L, w, v), v = ValuesIn(r, n),
         NEW t \in L
  PROVE  SumFunction(TermsStated(r, L, w, t)) = SumOn(L, w, v, t)
<1>1. n \in Nat /\ L \in SUBSET (1..n) /\ \A u \in L : u \in Nat
  BY DEF TokensFit
<1>2. PICK F : F = FromOn(L, t)
  OBVIOUS
<1>3. {t} \cup AfterIn(L, t) = F
  <2>1. \A u \in L : u >= t <=> (u = t \/ u > t)
    BY <1>1
  <2> QED
    BY <1>2, <2>1 DEF AfterIn, FromOn
<1>4. ASSUME NEW u \in L PROVE ErrorStated(r, L, w, u) = Error(L, w, v, u)
  <2>1. PICK G : G = AfterIn(L, u)
    OBVIOUS
  <2>2. G = FromOn(L, u + 1)
    <3>1. \A x \in L : x > u <=> x >= u + 1
      BY <1>1
    <3> QED
      BY <2>1, <3>1 DEF AfterIn, FromOn
  <2>3. ValueNext(r, L, u) = NextValue(L, v, u + 1)
    <3>1. CASE G = {}
      BY <2>1, <2>2, <3>1 DEF ValueNext, NextValue
    <3>2. CASE G # {}
      <4>1. G \in SUBSET (1..n)
        BY <1>1, <2>1 DEF AfterIn
      <4>2. PICK least \in G : \A x \in G : least <= x
        <5>1. G \in SUBSET Nat
          BY <1>1, <4>1
        <5> QED
          BY <3>2, <5>1, LeastExists
      <4>3. Min(G) \in G
        <5>1. \E x \in G : \A y \in G : x <= y
          BY <4>2
        <5> QED
          BY Zenon, <5>1 DEF Min
      <4>4. v[Min(G)] = Value(r, Min(G))
        BY <4>1, <4>3 DEF ValuesIn
      <4> QED
        BY <2>1, <2>2, <3>2, <4>4 DEF ValueNext, NextValue
    <3> QED
      BY <3>1, <3>2
  <2>4. v[u] = Value(r, u)
    BY <1>1 DEF ValuesIn
  <2> QED
    BY Zenon, <2>3, <2>4 DEF ErrorStated, Error
<1>5. PICK d : d = TermsStated(r, L, w, t)
  OBVIOUS
<1>6. PICK e : e = Discounted(L, w, v, t)
  OBVIOUS
<1>7. /\ DOMAIN d = F
      /\ \A u \in F : d[u] = Power(Gamma * Lam, Gap(L, t, u)) * ErrorStated(r, L, w, u)
  <2>1. d = [u \in F |-> Power(Gamma * Lam, Gap(L, t, u)) * ErrorStated(r, L, w, u)]
    BY Zenon, <1>3, <1>5 DEF TermsStated
  <2> QED
    BY <2>1
<1>8. \A u \in F : e[u] = Power(Gamma * Lam, Gap(L, t, u)) * Error(L, w, v, u)
  BY <1>2, <1>6 DEF Discounted
<1>9. ASSUME NEW u \in F PROVE d[u] = e[u]
  <2>1. u \in L
    BY <1>2 DEF FromOn
  <2>2. ErrorStated(r, L, w, u) = Error(L, w, v, u)
    BY <1>4, <2>1
  <2> QED
    BY Zenon, <1>7, <1>8, <2>2
<1>10. Ints(e, F) /\ IsFiniteSet(F)
  BY <1>1, <1>2, <1>6, DiscountedFacts, FromFacts
<1>11. SumFunctionOnSet(d, F) = SumFunctionOnSet(e, F)
  BY <1>9, <1>10, SumSame
<1> QED
  BY Zenon, <1>2, <1>5, <1>6, <1>7, <1>11 DEF SumFunction, SumOn

\* Estimate gives every token left its discounted sum.
LEMMA EstimateSkips ==
  ASSUME DispatchInv, CreditInv, Estimate
  PROVE  ObservationsSkipped'
<1>1. UNCHANGED <<job, length, batch, response, score, kept>>
  BY DEF Estimate, creditVars
<1>2. PICK R : R = [i \in DOMAIN batch |-> AdvantageAt(i)]
  OBVIOUS
<1>3. step' = "done" /\ result' = R
  BY <1>2 DEF Estimate
<1>4. SkippedIn("done", job, batch, length, response, score, kept, R)
  <2>1. SUFFICES ASSUME job = "gae", NEW i \in DOMAIN batch,
                        NEW t \in Generated(length[batch[i]], kept[batch[i]])
                 PROVE  R[i][t] = SumFunction(TermsStated(batch[i],
                                    Generated(length[batch[i]], kept[batch[i]]),
                                    RewardIn(length, response, score, batch[i]), t))
    BY DEF SkippedIn
  <2>2. job \in Estimator
    BY <2>1 DEF Estimator
  <2>3. MasksFit(length, response, score, kept)
    BY <2>2, EstimatedRows
  <2>4. PICK rows \in Nat : rows = PromptRows
    BY PromptRowsType
  <2>5. Permutation(batch, rows) /\ DOMAIN batch = 1..rows
    BY <2>2, <2>4, EstimatedRows
  <2>6. PICK r \in 1..rows : r = batch[i]
    <3>1. batch[i] \in 1..rows
      BY <2>5, PermutationFacts
    <3> QED
      BY <3>1
  <2>7. /\ MaskOf(kept[r], length[r]) /\ MaskOf(response[r], length[r])
        /\ score[r] \in Int /\ r \in Nat /\ Numbers(r, length[r])
    BY <2>3, <2>4 DEF MasksFit
  <2>8. PICK n \in Nat : n = length[r]
    BY <2>7 DEF MaskOf
  <2>9. PICK m : m = kept[r]
    OBVIOUS
  <2>10. PICK L : L = Generated(n, m)
    OBVIOUS
  <2>11. PICK w : w = RewardIn(length, response, score, r)
    OBVIOUS
  <2>12. PICK v : v = ValuesIn(r, n)
    OBVIOUS
  <2>13. TokensFit(n, L, w, v)
    <3>1. w \in [1..n -> Int] /\ v \in [1..n -> Int]
      BY <2>7, <2>8, <2>11, <2>12, EarnedType DEF RewardIn
    <3>2. L \in SUBSET (1..n)
      BY <2>10 DEF Generated
    <3> QED
      BY <3>1, <3>2 DEF TokensFit
  <2>14. t \in L /\ t \in 1..n
    BY <2>6, <2>8, <2>9, <2>10 DEF Generated
  <2>15. MaskOf(m, n)
    BY <2>7, <2>8, <2>9
  <2>16. Gae(w, v, m)[t] = SumOn(L, w, v, t)
    BY <2>10, <2>13, <2>14, <2>15, GaeIs
  <2>17. AdvantageAt(i) = Gae(w, v, m)
    BY <2>1, <2>6, <2>8, <2>9, <2>11, <2>12, AdvantageIs DEF GaeAt
  <2>18. R[i] = Gae(w, v, m)
    BY <1>2, <2>17
  <2>19. SumFunction(TermsStated(r, L, w, t)) = SumOn(L, w, v, t)
    BY <2>7, <2>12, <2>13, <2>14, StatedSum
  <2> QED
    BY Zenon, <2>6, <2>8, <2>9, <2>10, <2>11, <2>16, <2>18, <2>19
<1>5. SkippedIn(step', job', batch', length', response', score', kept', result')
  BY <1>1, <1>3, <1>4
<1> QED
  BY <1>5, SkippedThen

\* Nothing else touches a batch whose advantages are computed.
LEMMA SkippedStep ==
  DispatchInv /\ CreditInv /\ ObservationsSkipped /\ [DispatchNext]_dispatchVars
    => ObservationsSkipped'
<1> SUFFICES ASSUME DispatchInv, CreditInv, ObservationsSkipped, [DispatchNext]_dispatchVars
             PROVE  ObservationsSkipped'
  OBVIOUS
<1>1. CASE Estimate
  BY <1>1, EstimateSkips
<1>2. CASE DispatchNext /\ ~Estimate
  <2>1. step' # "done" \/ job' # "gae"
    BY <1>2, OnlyEstimate DEF Estimator
  <2>2. SkippedIn(step', job', batch', length', response', score', kept', result')
    BY <2>1 DEF SkippedIn
  <2> QED
    BY <2>2, SkippedThen
<1>3. CASE UNCHANGED dispatchVars
  <2>1. UNCHANGED <<step, job, batch, length, response, score, kept, result>>
    BY <1>3 DEF dispatchVars, creditVars
  <2>2. SkippedIn(step, job, batch, length, response, score, kept, result)
    BY SkippedIs
  <2>3. SkippedIn(step', job', batch', length', response', score', kept', result')
    BY <2>1, <2>2
  <2> QED
    BY <2>3, SkippedThen
<1> QED
  BY <1>1, <1>2, <1>3

(* For any responses, masks and discounts, a token's advantage in GAE is the       *)
(* discounted sum of the errors of prediction at the tokens left from it on;       *)
(* observations and rejected tokens neither add to it nor discount it.             *)
THEOREM ObservationsAreSkipped == DispatchSpec => []ObservationsSkipped
<1>1. DispatchInit => CreditInv /\ ObservationsSkipped
  <2>1. DispatchInit => step # "done"
    BY DEF DispatchInit, Ready
  <2>2. step # "done" => ObservationsSkipped
    BY DEF ObservationsSkipped
  <2> QED
    BY <2>1, <2>2, InitCredit
<1>2. DispatchInv /\ CreditInv /\ ObservationsSkipped /\ [DispatchNext]_dispatchVars
        => CreditInv' /\ ObservationsSkipped'
  BY CreditStep, SkippedStep
<1> QED
  BY <1>1, <1>2, DispatchInvariant, PTL DEF DispatchSpec
=============================================================================
