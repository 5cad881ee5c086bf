----------------------------- MODULE RateLimiter -----------------------------
(* AsyncTokenBucket, of which every process of rate limited reward workers    *)
(* has one for requests and one for tokens.  The tokens of a limiter are      *)
(* counted in what it gains in a tick, so that its rate is one.               *)
EXTENDS Integers

CONSTANTS Requests,
          Limiters,
          Limits        \* of each limiter: its capacity, and what a request costs

ASSUME LimitsAssumption == Limits \in [Limiters -> [max : Nat \ {0}, cost : Nat \ {0}]]

VARIABLES
  bucket,   \* of each limiter: tokens, and the ticks since they were counted
  sleep,    \* of each request: ticks it still sleeps, and the limiter it has paid
  level     \* history: what a limiter let through that time has not covered yet

limiterVars == <<bucket, sleep, level>>

Awake == [left |-> 0, paid |-> {}]

LimiterInit ==
  /\ bucket = [l \in Limiters |-> [tokens |-> Limits[l].max, elapsed |-> 0]]
  /\ sleep = [r \in Requests |-> Awake]
  /\ level = [l \in Limiters |-> 0]

Lesser(a, b) == IF a < b THEN a ELSE b
Oversize(l) == Limits[l].cost > Limits[l].max

(* The time since the last update is credited, up to the capacity. *)
Refilled(l) == Lesser(Limits[l].max, bucket[l].tokens + bucket[l].elapsed)
Missing(l) == Limits[l].cost - Refilled(l)

Counted(l, tokens) == bucket' = [bucket EXCEPT ![l] = [tokens |-> tokens, elapsed |-> 0]]

Sleeps(r, ticks, for) == sleep' = [sleep EXCEPT ![r] = [left |-> ticks, paid |-> for]]

Through(r, l) ==
  /\ level' = [level EXCEPT ![l] = @ + Limits[l].cost]
  /\ sleep' = [sleep EXCEPT ![r] = Awake]

(* A request within the capacity pays at once, or sleeps for what is missing *)
(* and tries again, without a place in a queue.                               *)
PayNow(r, l) ==
  /\ ~Oversize(l) /\ sleep[r] = Awake
  /\ Missing(l) <= 0
  /\ Counted(l, Refilled(l) - Limits[l].cost)
  /\ Through(r, l)

SleepFirst(r, l) ==
  /\ ~Oversize(l) /\ sleep[r] = Awake
  /\ Missing(l) > 0
  /\ Counted(l, Refilled(l))
  /\ Sleeps(r, Missing(l), {})
  /\ UNCHANGED level

\* Mutant of Debt: the balance does not become negative
DebtForgiven(l) == 0

Debt(l) == Refilled(l) - Limits[l].cost

(* A larger one pays in advance, into a negative balance, and sleeps it off. *)
PayAhead(r, l) ==
  /\ Oversize(l) /\ sleep[r] = Awake
  /\ Counted(l, Debt(l))
  /\ Sleeps(r, Missing(l), {l})
  /\ UNCHANGED level

SleptOff(r, l) ==
  /\ sleep[r] = [left |-> 0, paid |-> {l}]
  /\ Through(r, l)
  /\ UNCHANGED bucket

Attempt(r, l) == PayNow(r, l) \/ SleepFirst(r, l) \/ PayAhead(r, l) \/ SleptOff(r, l)

(* A timer fires in the tick it is due.  What is past a full bucket is never *)
(* credited, and not counted.                                                 *)
Due == \E r \in Requests : sleep[r].left = 0 /\ sleep[r].paid # {}
Full(l) == bucket[l].tokens + bucket[l].elapsed >= Limits[l].max

Tick ==
  /\ ~Due
  /\ bucket' = [l \in Limiters |->
                  [bucket[l] EXCEPT !.elapsed = IF Full(l) THEN @ ELSE @ + 1]]
  /\ sleep' = [r \in Requests |->
                 [sleep[r] EXCEPT !.left = IF @ > 0 THEN @ - 1 ELSE 0]]
  /\ level' = [l \in Limiters |-> IF level[l] > 0 THEN level[l] - 1 ELSE 0]

(* Whatever window of time one looks at, a limiter lets through no more than *)
(* its rate times the window and one burst: the level of a leaky bucket that  *)
(* drains at the rate stays within the burst.                                 *)
RateBound ==
  \A l \in Limiters :
    level[l] <= IF Oversize(l) THEN Limits[l].cost ELSE Limits[l].max
=============================================================================
