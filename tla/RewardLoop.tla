------------------------------ MODULE RewardLoop ------------------------------
(* RateLimitedRewardManager.run_single in several reward workers, with the    *)
(* code reward as its scoring function: the rate limits, the semaphore and    *)
(* the executor are of the process, the containers of the node.               *)
EXTENDS RateLimiter, ContainerPool, Sequences

CONSTANTS LimitersOf,      \* the limiters of each process, in order
          MaxConcurrent,   \* reward_model.max_concurrent
          Executors        \* threads of the default executor of a process

ASSUME RequestsAssumption ==
  /\ Threads = Requests
  /\ LimitersOf \in [Processes -> Seq(Limiters)]

VARIABLES
  passed,   \* limiters each request has passed
  stage     \* of each request: "limits", "scoring", or its "answer"

vars == <<limiterVars, poolVars, passed, stage>>

Of(p) == {r \in Requests : ProcessOf[r] = p}
Order(r) == LimitersOf[ProcessOf[r]]
Scoring(p) == {r \in Of(p) : stage[r] = "scoring"}

(* A thread of the executor is taken from the first statement of the scoring *)
(* function to its last, whether or not anybody still waits for it.           *)
Executing(p) == {r \in Of(p) : at[r] \notin {"idle", "ended"}}

Init ==
  /\ LimiterInit /\ PoolInit
  /\ passed = [r \in Requests |-> 0]
  /\ stage = [r \in Requests |-> "limits"]

Throttle(r) ==
  /\ stage[r] = "limits" /\ passed[r] < Len(Order(r))
  /\ sleep[r].left = 0
  /\ LET l == Order(r)[passed[r] + 1]
     IN  \/ SleepFirst(r, l) /\ UNCHANGED passed
         \/ PayAhead(r, l) /\ UNCHANGED passed
         \/ PayNow(r, l) /\ passed' = [passed EXCEPT ![r] = @ + 1]
         \/ SleptOff(r, l) /\ passed' = [passed EXCEPT ![r] = @ + 1]
  /\ UNCHANGED <<poolVars, stage>>

(* The semaphore is taken and the scoring function handed to the executor. *)
Acquire(r) ==
  /\ stage[r] = "limits" /\ passed[r] = Len(Order(r))
  /\ Cardinality(Scoring(ProcessOf[r])) < MaxConcurrent
  /\ stage' = [stage EXCEPT ![r] = "scoring"]
  /\ UNCHANGED <<limiterVars, poolVars, passed>>

Start(r) ==
  /\ stage[r] = "scoring" /\ at[r] = "idle"
  /\ Cardinality(Executing(ProcessOf[r])) < Executors
  /\ Goes(r, "choose")
  /\ UNCHANGED <<limiterVars, passed, stage, container, known, counter, lock, index, errors>>

Answer(r) ==
  /\ stage[r] = "scoring" /\ at[r] = "ended"
  /\ stage' = [stage EXCEPT ![r] = "answer"]
  /\ UNCHANGED <<limiterVars, poolVars, passed>>

(* wait_for gives up: the answer is 0 and the semaphore is free.  A call that *)
(* has not started is cancelled; a thread cannot be and goes on.              *)
Timeout(r) ==
  /\ stage[r] = "scoring" /\ at[r] # "ended"
  /\ stage' = [stage EXCEPT ![r] = "zero"]
  /\ UNCHANGED <<limiterVars, poolVars, passed>>

Score(r) == PoolStep(r) /\ UNCHANGED <<limiterVars, passed, stage>>

(* Time only matters to those who have not passed the limits. *)
Time ==
  /\ \E r \in Requests : stage[r] = "limits" /\ passed[r] < Len(Order(r))
  /\ Tick
  /\ UNCHANGED <<poolVars, passed, stage>>

Done == \A r \in Requests : stage[r] \in {"answer", "zero"} /\ at[r] \in {"idle", "ended"}

Next ==
  \/ \E r \in Requests :
       Throttle(r) \/ Acquire(r) \/ Start(r) \/ Answer(r) \/ Timeout(r) \/ Score(r)
  \/ Time

Spec == Init /\ [][Next]_vars

Fairness ==
  /\ WF_vars(Time)
  /\ \A r \in Requests :
       /\ WF_vars(Throttle(r)) /\ WF_vars(Acquire(r)) /\ WF_vars(Start(r)) /\ WF_vars(Answer(r))
       /\ WF_vars(ThreadStep(r) /\ UNCHANGED <<limiterVars, passed, stage>>)

FairSpec == Spec /\ Fairness

(* A program is only run in a container that udocker has, whatever races there *)
(* were to create it.  The one exception is a search of udocker's list, after a *)
(* call that failed, that finds the name within another's (code-eval-           *)
(* persistent-1 in -10): then that other container is there.                    *)
FoundInAnother(i) == \E j \in Indices : <<i, j>> \in NamePrefixes /\ container[j] # "absent"
ExistsWhenUsed ==
  \A r \in Requests : at[r] = "run" =>
    \/ container[index[r]] # "absent"
    \/ errors > 0 /\ FoundInAnother(index[r])

(* However many containers fail and however long the limits make it wait, each *)
(* request is answered, with 0 if need be, and its thread ends.               *)
Answered == <>[]Done
=============================================================================
