----------------------------- MODULE DataDispatch -----------------------------
(* A call of the trainer's driver to a group of workers and back: the rows of *)
(* a batch are balanced or padded, split between the data parallel ranks, in  *)
(* each rank into mini batches and micro batches, computed, put in order      *)
(* again and collected.  Forward passes and the agreement on their number are *)
(* collectives of all workers.  Advantages are computed by the driver, from   *)
(* the balanced batch and the response masks that rollout correction leaves.  *)
EXTENDS SeqlenBalancing, Advantages

CONSTANTS Ranks,        \* data parallel ranks, 0 and up
          Parallel,     \* workers to a rank (tensor or sequence parallel)
          Sizes,        \* possible numbers of rows
          MaxLength,    \* possible lengths of a row: 1 and up
          MaxTokens,    \* max_token_len of a micro batch
          MiniSize,     \* ppo_mini_batch_size of a rank
          Prompts,      \* prompts of a batch whose advantages are computed
          Rollouts,     \* rollout.n, the responses to each
          Masks,        \* response masks: 1 for a generated token, 0 for an observation
          Outcomes,     \* what a response may earn
          Value(_, _),  \* what the critic says of a row's token
          Divergence(_, _)  \* what apply_kl_penalty takes off for it

ASSUME DispatchAssumption ==
  /\ Ranks \in Nat \ {0} /\ Parallel \in Nat \ {0} /\ MiniSize \in Nat \ {0}
  /\ Sizes \subseteq Nat \ {0}
  /\ MaxLength \in Nat \ {0} /\ MaxTokens \in Nat
  /\ MaxLength <= MaxTokens             \* asserted by rearrange_micro_batches
  /\ Prompts \in Nat \ {0} /\ Rollouts \in Nat \ {0, 1}
  /\ (Prompts * Rollouts) % Ranks = 0
  /\ Outcomes \subseteq Int
  /\ \A m \in Masks :
       /\ m \in Seq({0, 1}) /\ m # <<>>
       /\ \A r \in 1..(Prompts * Rollouts) : \A t \in DOMAIN m :
            Value(r, t) \in Int /\ Divergence(r, t) \in Int

Worker == 0..(Ranks * Parallel - 1)
RankOf(w) == w \div Parallel            \* dp_rank_mapping
Collects(w) == w % Parallel = 0         \* collect_mask

VARIABLES
  job,      \* what is called: "log_prob", "update", "validate" or an estimator
  length,   \* tokens of each row
  step,     \* where the driver is
  batch,    \* its rows, in their present order
  chunk,    \* the rows a worker has got
  mini,     \* the mini batch it is at
  count,    \* its number of micro batches, in the all_reduce; 0 before
  micro,    \* its micro batches: positions in the mini batch
  begun,    \* forward passes it has begun in this mini batch
  passes,   \* and in the call
  output,   \* what it has computed
  result,   \* what the driver has got
  response, \* the response mask of each row whose advantage is computed
  score,    \* and the outcome of each
  kept      \* response_mask after the correction

creditVars == <<response, score, kept>>
dispatchVars == <<job, length, step, batch, chunk, mini, count, micro, begun, passes,
          output, result, creditVars>>
workerVars == <<mini, count, micro, begun, passes, output>>

Estimator == {"gae", "grpo", "passk"}

(* What may be called, with any rows. *)
Called ==
  \/ /\ job \in {"log_prob", "update", "validate"}
     /\ \E n \in Sizes :
          /\ job # "validate" => n % Ranks = 0
          /\ length \in [1..n -> 1..MaxLength]
     /\ response = <<>> /\ score = <<>>
  \/ /\ job \in Estimator
     /\ response \in [1..(Prompts * Rollouts) -> Masks]
     /\ score \in [1..(Prompts * Rollouts) -> Outcomes]
     /\ length = [r \in DOMAIN response |-> Len(response[r])]

Ready ==
  /\ kept = response
  /\ batch = [i \in DOMAIN length |-> i]
  /\ step = "prepare"
  /\ chunk = [w \in Worker |-> <<>>]
  /\ mini = [w \in Worker |-> 1]
  /\ count = [w \in Worker |-> 0]
  /\ micro = [w \in Worker |-> <<>>]
  /\ begun = [w \in Worker |-> 0]
  /\ passes = [w \in Worker |-> 0]
  /\ output = [w \in Worker |-> <<>>]
  /\ result = <<>>

DispatchInit == Called /\ Ready

WorkOf(rows) == [i \in DOMAIN rows |-> Workload(length[rows[i]])]

(* _balance_batch: as many rows to each rank, the small ones at both ends. *)
Balanced ==
  LET work == WorkOf(batch)
      parts == Partitions(work, Ranks, TRUE)
      Arranged(p) == LET s == ByWork(work, p) IN Evens(s) \o Reverse(Odds(s))
      index == FlattenSeq([r \in DOMAIN parts |-> Arranged(parts[r])])
  IN  [i \in DOMAIN batch |-> batch[index[i]]]

Balance ==
  /\ step = "prepare" /\ job # "validate"
  /\ IF Fair(Partitions(WorkOf(batch), Ranks, TRUE), Len(batch), TRUE)
     THEN batch' = Balanced /\ step' = "dispatch"
     ELSE step' = "failed" /\ UNCHANGED batch
  /\ UNCHANGED <<job, length, chunk, workerVars, result, creditVars>>

PadSize == (Ranks - (Len(length) % Ranks)) % Ranks

(* pad_dataproto_to_divisor: the rows from the first on, again and again. *)
Pad ==
  /\ step = "prepare" /\ job = "validate"
  /\ batch' = batch \o [i \in 1..PadSize |-> batch[((i - 1) % Len(batch)) + 1]]
  /\ step' = "dispatch"
  /\ UNCHANGED <<job, length, chunk, workerVars, result, creditVars>>

(* DataProto.chunk, and a chunk to every worker of its rank. *)
Chunk(r) ==
  LET size == Len(batch) \div Ranks IN SubSeq(batch, r * size + 1, (r + 1) * size)

Dispatch ==
  /\ step = "dispatch" /\ step' = "wait" /\ job \notin Estimator
  /\ chunk' = [w \in Worker |-> Chunk(RankOf(w))]
  /\ UNCHANGED <<job, length, batch, workerVars, result, creditVars>>

(* compute_log_prob takes its rows at once, update_policy in mini batches. *)
MiniBatches(w) ==
  LET size == IF job = "update" THEN MiniSize ELSE Len(chunk[w])
  IN  (Len(chunk[w]) + size - 1) \div size
Mini(w) ==
  LET size == IF job = "update" THEN MiniSize ELSE Len(chunk[w])
      last == mini[w] * size
  IN  SubSeq(chunk[w], last - size + 1, IF last < Len(chunk[w]) THEN last ELSE Len(chunk[w]))

Returned(w) == step = "wait" /\ mini[w] > MiniBatches(w)
AtWork(w) == step = "wait" /\ ~Returned(w)

(* An agent loop worker, or a rollout: every row has its own generation. *)
Generate(w) ==
  /\ job = "validate" /\ AtWork(w)
  /\ output' = [output EXCEPT ![w] = chunk[w]]
  /\ mini' = [mini EXCEPT ![w] = 2]
  /\ UNCHANGED <<job, length, step, batch, chunk, count, micro, begun, passes, result,
                 creditVars>>

Tokens(w) == Total(length, Mini(w))
Needed(w) ==
  LET n == (Tokens(w) + MaxTokens - 1) \div MaxTokens
  IN  IF n < Len(Mini(w)) THEN n ELSE Len(Mini(w))

Count(w) ==
  /\ job # "validate" /\ AtWork(w) /\ count[w] = 0
  /\ count' = [count EXCEPT ![w] = Needed(w)]
  /\ UNCHANGED <<job, length, step, batch, chunk, mini, micro, begun, passes, output,
                 result, creditVars>>

\* Mutant of Agreed: each rank keeps its own number
AgreedOwn(w) == count[w]

(* The all_reduce takes the largest. *)
Agreed(w) == CHOOSE n \in {count[v] : v \in Worker} : \A v \in Worker : count[v] <= n

Reducing(w) == AtWork(w) /\ count[w] > 0 /\ micro[w] = <<>>

AllReduce ==
  /\ \A w \in Worker : Reducing(w)
  /\ IF \A w \in Worker : Fair(Partitions(WorkOf(Mini(w)), Agreed(w), FALSE), 0, FALSE)
     THEN /\ micro' = [w \in Worker |-> MicroBatches(WorkOf(Mini(w)), Agreed(w))]
          /\ UNCHANGED step
     ELSE step' = "failed" /\ UNCHANGED micro
  /\ UNCHANGED <<job, length, batch, chunk, mini, count, begun, passes, output,
                 result, creditVars>>

(* A pass gathers the parameters from all workers, layer by layer: none is   *)
(* through before all have begun it.                                          *)
AllBegan(w) == \A v \in Worker : passes[v] >= passes[w]

Forward(w) ==
  /\ AtWork(w) /\ begun[w] < Len(micro[w]) /\ AllBegan(w)
  /\ begun' = [begun EXCEPT ![w] = @ + 1]
  /\ passes' = [passes EXCEPT ![w] = @ + 1]
  /\ UNCHANGED <<job, length, step, batch, chunk, mini, count, micro, output,
                 result, creditVars>>

(* The log probabilities of the micro batches, one after another, and in the *)
(* order of the rows again; an update has nothing to restore.                 *)
MiniEnds(w) ==
  /\ AtWork(w) /\ micro[w] # <<>> /\ begun[w] = Len(micro[w]) /\ AllBegan(w)
  /\ LET indices == FlattenSeq(micro[w])
         computed == [i \in DOMAIN indices |-> Mini(w)[indices[i]]]
     IN  output' = [output EXCEPT ![w] = @ \o
                      (IF job = "update" THEN computed ELSE Restored(computed, indices))]
  /\ mini' = [mini EXCEPT ![w] = @ + 1]
  /\ count' = [count EXCEPT ![w] = 0]
  /\ micro' = [micro EXCEPT ![w] = <<>>]
  /\ begun' = [begun EXCEPT ![w] = 0]
  /\ UNCHANGED <<job, length, step, batch, chunk, passes, result,
                 creditVars>>

(* One worker of each rank is collected, in the order of the ranks. *)
Collected ==
  FlattenSeq([i \in 1..Ranks |->
    output[CHOOSE w \in Worker : Collects(w) /\ RankOf(w) = i - 1]])

Collect ==
  /\ step = "wait" /\ \A w \in Worker : Returned(w)
  /\ result' = IF job = "validate" THEN SubSeq(Collected, 1, Len(batch) - PadSize) ELSE Collected
  /\ batch' = IF job = "validate" THEN SubSeq(batch, 1, Len(batch) - PadSize) ELSE batch
  /\ step' = "done"
  /\ UNCHANGED <<job, length, chunk, workerVars, creditVars>>

(* The tokens a response mask leaves to learn from, of all rows               *)
Masked ==
  UNION {{<<r, t>> : t \in {u \in DOMAIN response[r] : response[r][u] = 1}} :
           r \in DOMAIN response}

(* Rollout correction writes compute_rollout_rejection_mask's result over     *)
(* response_mask: tokens go by their own divergence, or with all of their row.*)
Reject ==
  /\ step = "dispatch" /\ job \in Estimator /\ step' = "corrected"
  /\ \E lost \in SUBSET Masked :
       kept' = [r \in DOMAIN response |-> [t \in DOMAIN response[r] |->
                  IF <<r, t>> \in lost THEN 0 ELSE response[r][t]]]
  /\ UNCHANGED <<job, length, batch, chunk, workerVars, result, response, score>>

(* The outcome on the last token, less apply_kl_penalty's part of each        *)
(* generated one.                                                             *)
Reward(r) ==
  [t \in 1..length[r] |->
     (IF t = length[r] THEN score[r] ELSE 0) - Divergence(r, t) * response[r][t]]

\* Mutant of ScoreOf: only the tokens left in the mask count
ScoreOfKept(r) == LET reward == Reward(r) IN
  Total([t \in DOMAIN reward |-> reward[t] * kept[r][t]], [t \in DOMAIN reward |-> t])

ScoreOf(r) == Total(Reward(r), [t \in 1..length[r] |-> t])

(* compute_advantage: a prompt's rows are found by its uid.                   *)
Prompt(r) == (r - 1) \div Rollouts

AdvantageAt(i) ==
  LET r == batch[i]
      scores == [j \in DOMAIN batch |-> ScoreOf(batch[j])]
      uid == [j \in DOMAIN batch |-> Prompt(batch[j])]
  IN  CASE job = "gae"   -> Gae(Reward(r), [t \in 1..length[r] |-> Value(r, t)], kept[r])
        [] job = "grpo"  -> Broadcast(Grpo(scores, uid, i), kept[r])
        [] job = "passk" -> Broadcast(PassK(scores, uid, i), kept[r])

Estimate ==
  /\ step = "corrected" /\ step' = "done"
  /\ result' = [i \in DOMAIN batch |-> AdvantageAt(i)]
  /\ UNCHANGED <<job, length, batch, chunk, workerVars, creditVars>>

DispatchNext ==
  \/ Balance \/ Pad \/ Dispatch \/ AllReduce \/ Collect \/ Reject \/ Estimate
  \/ \E w \in Worker : Generate(w) \/ Count(w) \/ Forward(w) \/ MiniEnds(w)

DispatchSpec == DispatchInit /\ [][DispatchNext]_dispatchVars

(* Every row comes back once and beside the row it was computed from, whatever *)
(* was reordered, padded, split and restored on the way (union of the batch    *)
(* with the workers' output); an update trains on every row once.              *)
RowsReturned ==
  step = "done" /\ job \notin Estimator =>
    /\ job # "update" => result = batch
    /\ Len(result) = Len(batch) /\ ToSet(result) = ToSet(batch)
    /\ Len(batch) = Len(length) /\ ToSet(batch) = DOMAIN length

(* No worker waits in a forward pass or in the agreement for one that has made  *)
(* all of its own, which would stop the whole group, and no assertion of the    *)
(* partitioning fails (rearrange_micro_batches).                                *)
NobodyLeftBehind ==
  /\ step # "failed"
  /\ step = "wait" =>
       \/ \A w \in Worker : Returned(w)
       \/ \A w \in Worker : Reducing(w)
       \/ \E w \in Worker : AtWork(w) /\ AllBegan(w) /\ ~Reducing(w)

(* Every token left has the advantage of its row's outcome over those of its    *)
(* prompt: the order of the batch and the tokens rejected in this row or others *)
(* do not count (compute_grpo_outcome_advantage, _passk_; fit's comment on      *)
(* balancing).                                                                  *)
Outcome(r) ==
  LET generated == {t \in 1..length[r] : response[r][t] = 1}
  IN  score[r] - SumFunction([t \in generated |-> Divergence(r, t)])

OutcomeCredit ==
  (step = "done" /\ job \in {"grpo", "passk"}) =>
    \A i \in DOMAIN batch :
      LET r == batch[i]
          others == {q \in DOMAIN length : q # r /\ Prompt(q) = Prompt(r)}
          lead == {Outcome(r) - Outcome(q) : q \in others}
          due == IF job = "grpo"
                 THEN SumFunction([q \in others |-> Outcome(r) - Outcome(q)])
                 ELSE Max({0, Min(lead)})
      IN  \A t \in 1..length[r] : result[i][t] = kept[r][t] * due

(* base to the power n *)
Power(base, n) ==
  LET power[k \in 0..n] == IF k = 0 THEN 1 ELSE base * power[k - 1] IN power[n]

(* A token's advantage is the discounted sum of the errors of prediction from it *)
(* on, as if the response had no tokens but those in the mask: observations,      *)
(* rejected tokens and their values count for nothing, and neither do they for    *)
(* the discount (compute_gae_advantage_return;                                    *)
(* test_multi_turn_compute_gae_advantage_return).                                 *)
ObservationsSkipped ==
  (step = "done" /\ job = "gae") =>
    \A i \in DOMAIN batch :
      LET r == batch[i]
          left == {t \in 1..length[r] : kept[r][t] = 1}
          After(t) == {u \in left : u > t}
          ValueAfter(t) == IF After(t) = {} THEN 0 ELSE Value(r, Min(After(t)))
          Surprise(t) == Reward(r)[t] + Gamma * ValueAfter(t) - Value(r, t)
          Distance(t, u) == Cardinality({v \in left : t <= v /\ v < u})
      IN  \A t \in left :
            result[i][t] =
              SumFunction([u \in {t} \cup After(t) |->
                             Power(Gamma * Lam, Distance(t, u)) * Surprise(u)])
=============================================================================
