------------------------------ MODULE Advantages ------------------------------
(* Advantage estimators (trainer/ppo/core_algos.py).  A row's rewards, values *)
(* and response mask are sequences with an entry for each token.  Whitening   *)
(* over the batch and the division by a standard deviation shift and scale    *)
(* what is computed here, and are left out.                                   *)
EXTENDS Integers, Sequences, FiniteSets, FiniteSetsExt, Functions

CONSTANTS Gamma, Lam     \* integers stand for the discounts: nothing is divided

ASSUME DiscountAssumption == Gamma \in Int /\ Lam \in Int

(* compute_gae_advantage_return, from the last token to the first.            *)
\* Mutant of Gae: an observation's value is taken for the next one
GaeThroughObservations(reward, value, mask) ==
  LET n == Len(mask)
      from[t \in 1..(n + 1)] ==
        IF t = n + 1 THEN [next |-> 0, sum |-> 0]
        ELSE [next |-> value[t],
              sum |-> IF mask[t] = 0 THEN from[t + 1].sum
                      ELSE reward[t] + Gamma * from[t + 1].next - value[t]
                           + Gamma * Lam * from[t + 1].sum]
  IN  [t \in 1..n |-> from[t].sum]

Gae(reward, value, mask) ==
  LET n == Len(mask)
      from[t \in 1..(n + 1)] ==
        IF t = n + 1 THEN [next |-> 0, sum |-> 0]
        ELSE IF mask[t] = 0 THEN from[t + 1]
        ELSE [next |-> value[t],
              sum |-> reward[t] + Gamma * from[t + 1].next - value[t]
                      + Gamma * Lam * from[t + 1].sum]
  IN  [t \in 1..n |-> from[t].sum]

(* The rows with the index of row i, which is their prompt's uid.             *)
\* Mutant of Group: the rows of a prompt are taken to be next to each other
GroupAdjacent(index, i) ==
  LET n == Cardinality({j \in DOMAIN index : index[j] = index[i]})
  IN  {j \in DOMAIN index : (j - 1) \div n = (i - 1) \div n}

Group(index, i) == {j \in DOMAIN index : index[j] = index[i]}

(* compute_grpo_outcome_advantage, times the group's size; RLOO's is the same *)
(* times another number.                                                      *)
Grpo(score, index, i) ==
  LET group == Group(index, i)
  IN  IF Cardinality(group) = 1 THEN score[i]
      ELSE Cardinality(group) * score[i] - SumFunctionOnSet(score, group)

(* compute_grpo_passk_outcome_advantage: the best of a group gets its lead.   *)
PassK(score, index, i) ==
  LET group == Group(index, i)
      best == CHOOSE j \in group : \A k \in group : score[k] <= score[j]
  IN  IF i = best THEN score[i] - Max({score[k] : k \in group \ {i}}) ELSE 0

(* An outcome's advantage is that of every token left in the mask.            *)
Broadcast(a, mask) == [t \in DOMAIN mask |-> a * mask[t]]
=============================================================================
