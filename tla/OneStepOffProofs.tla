--------------------------- MODULE OneStepOffProofs --------------------------
(* What one-step-off training guarantees for every data size, number of      *)
(* tensors and interval, and however often the job dies.                      *)
(*                                                                            *)
(* The engine's weights are those of one step at every moment something is    *)
(* generated (EngineInv), the generation under way and the batch in hand are   *)
(* of that step (FutureInv), and the batches are counted in three places: the  *)
(* history, the dataloader and the last checkpoint (DataInv).                 *)
EXTENDS OneStepOff, SequenceTheorems, FiniteSetTheorems, TLAPS

Serving == {"validate_first", "await", "update", "validate", "save"}
Places == {"load", "send_first", "send", "failed", "finished"} \cup Serving
States == {"none", "running", "done", "none_left"}

Future == [state : States, data : Nat, by : SUBSET Nat, tokens : Nat]
Iterator == [epoch : Nat, yielded : Nat, taken : Nat]

TypeInv ==
  /\ pc \in Places
  /\ step \in Nat /\ actor \in Nat /\ begun \in Nat /\ restarts \in Nat
  /\ sent \in 0..Tensors /\ weights \in [1..Tensors -> Nat] /\ cached \subseteq Nat
  /\ future \in Future /\ iterator \in Iterator
  /\ batch \in [data : Nat, by : SUBSET Nat] /\ validated \subseteq Nat
  /\ trained \in Seq(Nat)
  /\ checkpoint \in [step : Nat, actor : Nat, iterator : Iterator, trained : Seq(Nat)]

\* Whose weights the engine has
First == step = begun + 1
Engine == IF pc \in {"validate_first", "update"} \/ (pc = "await" /\ First) THEN actor
          ELSE actor - 1

EngineInv ==
  /\ pc \notin {"send_first", "send"} => sent = 0
  /\ pc \in {"send_first", "send"} => \A t \in 1..sent : weights[t] = actor
  /\ pc \in Serving => (\A t \in 1..Tensors : weights[t] = Engine) /\ cached \subseteq {Engine}
  /\ pc \in {"send_first", "validate_first"} => step = begun
  /\ pc \in {"await", "send", "update", "validate", "save"} => step > begun

\* The generation of the batch after the one in hand
Ahead == pc = "await" \/ (pc \in {"update", "validate", "save"} /\ ~LastStep)
Made(by) == by = {actor - 1} \/ (by = {actor} /\ First)

FutureInv ==
  /\ future.state = "running" => Ahead
  /\ future.state = "done" => future.tokens > 0
  /\ pc \in {"load", "send_first", "validate_first"} => future.state = "none"
  /\ Ahead => /\ future.state # "none"
              /\ future.by = IF future.tokens = 0 THEN {} ELSE {Engine}
  /\ pc \in {"send", "update"} => Made(batch.by)
  /\ pc = "validate" => validated \subseteq {Engine}

Rising(s, n) ==
  /\ \A i, j \in DOMAIN s : i < j => s[i] < s[j]
  /\ \A i \in DOMAIN s : s[i] <= n /\ s[i] <= i + restarts

Live == Ahead /\ future.state \in {"running", "done"}

CheckpointInv ==
  /\ Rising(checkpoint.trained, checkpoint.iterator.taken)
  /\ Len(checkpoint.trained) = checkpoint.actor
  /\ checkpoint.iterator.taken <= checkpoint.actor + restarts + (IF pc = "load" THEN 0 ELSE 1)

DataInv ==
  /\ Len(trained) = actor /\ Rising(trained, iterator.taken)
  /\ pc \in {"send_first", "validate_first"} => iterator.taken <= actor + restarts
  /\ pc \in {"await", "send", "validate", "save"} => iterator.taken <= actor + 1 + restarts
  /\ Live => /\ future.data = iterator.taken
             /\ pc # "update" => Rising(trained, iterator.taken - 1)
  /\ pc = "send" => batch.data = iterator.taken /\ Rising(trained, iterator.taken - 1)
  /\ pc = "update" =>
       /\ Rising(trained, batch.data - 1) /\ batch.data <= actor + 1 + restarts
       /\ iterator.taken = IF Live THEN batch.data + 1 ELSE batch.data

OffInv == TypeInv /\ EngineInv /\ FutureInv /\ CheckpointInv /\ DataInv

-----------------------------------------------------------------------------
\* What a step does to the iterator and to a generation
LEMMA Bounds == Tensors \in Nat /\ Tensors > 0 /\ TotalSteps \in Nat
BY OneStepAssumption DEF TotalSteps

LEMMA NewIterator ==
  ASSUME NEW i \in Iterator, NEW v \in Nat
  PROVE  /\ [i EXCEPT !.taken = v] \in Iterator /\ [i EXCEPT !.taken = v].taken = v
         /\ [i EXCEPT !.epoch = v] \in Iterator /\ [i EXCEPT !.epoch = v].taken = i.taken
         /\ [i EXCEPT !.yielded = v] \in Iterator /\ [i EXCEPT !.yielded = v].taken = i.taken
BY DEF Iterator

LEMMA Items ==
  ASSUME iterator \in Iterator
  PROVE  NextItem \in Iterator /\ NextItem.taken = iterator.taken + 1
<1> DEFINE i == [iterator EXCEPT !.taken = iterator.taken + 1]
           j == [i EXCEPT !.epoch = i.epoch + 1]
<1>1. i \in Iterator /\ i.taken = iterator.taken + 1
  BY NewIterator DEF Iterator
<1> HIDE DEF i
<1>2. i.yielded + 1 \in Nat /\ i.epoch + 1 \in Nat
  BY <1>1 DEF Iterator
<1>3. [i EXCEPT !.yielded = i.yielded + 1] \in Iterator
      /\ [i EXCEPT !.yielded = i.yielded + 1].taken = i.taken
  BY <1>1, <1>2, NewIterator, Zenon
<1>4. j \in Iterator /\ j.taken = i.taken
  BY <1>1, <1>2, NewIterator, Zenon
<1> HIDE DEF j
<1>5. [j EXCEPT !.yielded = 1] \in Iterator /\ [j EXCEPT !.yielded = 1].taken = j.taken
  BY <1>4, NewIterator
<1>6. NextItem = IF iterator.yielded < EpochLen THEN [i EXCEPT !.yielded = i.yielded + 1]
                 ELSE [j EXCEPT !.yielded = 1]
  BY Zenon DEF NextItem, i, j
<1> QED
  BY <1>1, <1>3, <1>4, <1>5, <1>6, Zenon

FutureOf(state, data, by, tokens) ==
  [state |-> state, data |-> data, by |-> by, tokens |-> tokens]

LEMMA NewFuture ==
  ASSUME NEW f \in Future, NEW v
  PROVE  /\ [f EXCEPT !.state = v] = FutureOf(v, f.data, f.by, f.tokens)
         /\ [f EXCEPT !.data = v] = FutureOf(f.state, v, f.by, f.tokens)
         /\ [f EXCEPT !.by = v] = FutureOf(f.state, f.data, v, f.tokens)
         /\ [f EXCEPT !.tokens = v] = FutureOf(f.state, f.data, f.by, v)
BY DEF Future, FutureOf

LEMMA Token ==
  ASSUME future \in Future, Readers \subseteq Nat
  PROVE  [future EXCEPT !.by = @ \cup Readers, !.tokens = @ + 1] =
           FutureOf(future.state, future.data, future.by \cup Readers, future.tokens + 1)
<1> DEFINE R == Readers  f == [future EXCEPT !.by = future.by \cup R]
<1> HIDE DEF R
<1>1. f = FutureOf(future.state, future.data, future.by \cup R, future.tokens)
  BY NewFuture
<1>2. f \in Future
  BY <1>1 DEF FutureOf, Future, R
<1> HIDE DEF f
<1>3. [f EXCEPT !.tokens = f.tokens + 1] =
        FutureOf(future.state, future.data, future.by \cup R, future.tokens + 1)
  BY <1>1, <1>2, NewFuture DEF FutureOf
<1> QED
  BY <1>3, Zenon DEF f, R

LEMMA Started ==
  /\ [NoFuture EXCEPT !.state = "none_left"] = FutureOf("none_left", 0, {}, 0)
  /\ \A n : [NoFuture EXCEPT !.state = "running", !.data = n] = FutureOf("running", n, {}, 0)
<1>1. NoFuture = FutureOf("none", 0, {}, 0) /\ NoFuture \in Future
  BY DEF NoFuture, FutureOf, Future, States
<1>2. [NoFuture EXCEPT !.state = "none_left"] = FutureOf("none_left", 0, {}, 0)
  BY <1>1, NewFuture DEF FutureOf
<1>3. ASSUME NEW n
      PROVE  [NoFuture EXCEPT !.state = "running", !.data = n] = FutureOf("running", n, {}, 0)
  <2> DEFINE f == [NoFuture EXCEPT !.state = "running"]
  <2>1. f = FutureOf("running", 0, {}, 0) /\ f \in Future
    BY <1>1, NewFuture DEF FutureOf, Future, States
  <2> HIDE DEF f
  <2>2. [f EXCEPT !.data = n] = FutureOf("running", n, {}, 0)
    BY <2>1, NewFuture DEF FutureOf
  <2> QED
    BY <2>2, Zenon DEF f
<1> QED
  BY <1>2, <1>3

LEMMA FutureFields ==
  ASSUME NEW s, NEW d, NEW b, NEW t
  PROVE  LET f == FutureOf(s, d, b, t)
         IN  f.state = s /\ f.data = d /\ f.by = b /\ f.tokens = t
BY DEF FutureOf

LEMMA FutureType ==
  ASSUME NEW s \in States, NEW d \in Nat, NEW b \in SUBSET Nat, NEW t \in Nat
  PROVE  FutureOf(s, d, b, t) \in Future
BY DEF FutureOf, Future

\* What is generated reads the weights of one step
LEMMA OneReader ==
  ASSUME TypeInv, EngineInv, pc \in Serving
  PROVE  Readers = {Engine} /\ Engine \in Nat
<1> DEFINE e == Engine
<1>1. \A t \in 1..Tensors : weights[t] = e
  BY DEF EngineInv
<1>2. cached \subseteq {e}
  BY DEF EngineInv
<1>3. DOMAIN weights = 1..Tensors /\ 1 \in 1..Tensors
  BY Bounds DEF TypeInv
<1> HIDE DEF e
<1>4. Range(weights) = {e} /\ weights[1] = e
  BY <1>1, <1>3 DEF Range
<1>5. weights[1] \in Nat
  BY <1>3 DEF TypeInv
<1> QED
  BY <1>2, <1>4, <1>5 DEF Readers, e

\* What StartGeneration and GenerateToken do, without the records they write
LEMMA Begun ==
  ASSUME TypeInv, StartGeneration
  PROVE  /\ iterator' \in Iterator /\ future' \in Future
         /\ future'.by = {} /\ future'.tokens = 0
         /\ \/ /\ future'.state = "running" /\ future'.data = iterator'.taken
               /\ iterator'.taken = iterator.taken + 1
            \/ future'.state = "none_left" /\ iterator' = iterator
<1>1. CASE Yields
  <2> DEFINE n == NextItem.taken
  <2>1. NextItem \in Iterator /\ n = iterator.taken + 1 /\ iterator.taken \in Nat
    BY Items DEF TypeInv, Iterator
  <2>2. iterator' = NextItem /\ future' = [NoFuture EXCEPT !.state = "running", !.data = n]
    BY <1>1, Zenon DEF StartGeneration
  <2> HIDE DEF n
  <2>3. future' = FutureOf("running", n, {}, 0)
    BY <2>2, Started
  <2>4. iterator'.taken = n
    BY <2>2 DEF n
  <2> QED
    <3>1. n \in Nat /\ {} \in SUBSET Nat /\ "running" \in States
      BY <2>1 DEF States
    <3>2. future' \in Future
      BY <2>3, <3>1, FutureType
    <3>3. future'.state = "running" /\ future'.data = n /\ future'.by = {} /\ future'.tokens = 0
      BY <2>3, FutureFields
    <3> QED
      BY <2>1, <2>2, <2>4, <3>2, <3>3
<1>2. CASE ~Yields
  <2>1. iterator' = iterator /\ future' = FutureOf("none_left", 0, {}, 0)
    BY <1>2, Started, Zenon DEF StartGeneration
  <2> QED
    BY <2>1 DEF FutureOf, Future, States, TypeInv
<1> QED
  BY <1>1, <1>2

LEMMA Tokens ==
  ASSUME TypeInv, EngineInv, GenerateToken, pc \in Serving
  PROVE  /\ future' = FutureOf("running", future.data, future.by \cup {Engine}, future.tokens + 1)
         /\ future' \in Future /\ cached' = {Engine}
<1>1. Readers = {Engine} /\ Engine \in Nat /\ future \in Future
  BY OneReader DEF TypeInv
<1>2. future' = FutureOf("running", future.data, future.by \cup Readers, future.tokens + 1)
  BY <1>1, Token DEF GenerateToken
<1>3. /\ "running" \in States /\ future.data \in Nat /\ future.by \cup {Engine} \in SUBSET Nat
      /\ future.tokens + 1 \in Nat
  BY <1>1 DEF States, Future
<1>4. FutureOf("running", future.data, future.by \cup {Engine}, future.tokens + 1) \in Future
  BY <1>3, FutureType
<1>5. future.state = "running" /\ cached' = Readers
  BY DEF GenerateToken
<1> QED
  BY <1>1, <1>2, <1>4, <1>5

LEMMA Frames ==
  ASSUME TypeInv, FutureInv, [OneStepNext]_oneStepVars
  PROVE  \/ GenerateToken /\ pc \in Serving
         \/ GenerateEnd \/ ValidateToken \/ Driver \/ Restart \/ UNCHANGED oneStepVars
<1>1. GenerateToken => pc \in Serving
  BY DEF GenerateToken, FutureInv, Ahead, Serving
<1> QED
  BY <1>1 DEF OneStepNext, Rollout, Again, Crash

LEMMA TypeStep == TypeInv /\ EngineInv /\ FutureInv /\ [OneStepNext]_oneStepVars => TypeInv'
<1> SUFFICES ASSUME TypeInv, EngineInv, FutureInv, [OneStepNext]_oneStepVars PROVE TypeInv'
  OBVIOUS
<1> USE DEF TypeInv, Places, Serving
<1>0. restarts' \in Nat
  BY DEF OneStepNext, oneStepVars, rest, Rollout, GenerateToken, GenerateEnd, ValidateToken, Driver, Load, SendTensor,
     FirstSync, FirstGeneration, AwaitBatch, NextGeneration, UpdateActor, ValidationEnd, Save, Again, Crash
<1>1. CASE GenerateToken /\ pc \in Serving
  <2>1. future' \in Future /\ cached' \subseteq Nat
    BY <1>1, Tokens, OneReader
  <2> QED
    BY <1>1, <2>1 DEF GenerateToken, rest
<1>2. CASE GenerateEnd
  <2>1. future' \in Future
    BY <1>2 DEF GenerateEnd, Future, States
  <2> QED
    BY <1>2, <2>1 DEF GenerateEnd, engineVars, rest
<1>3. CASE ValidateToken
  <2>1. Readers \subseteq Nat
    BY <1>3, OneReader DEF ValidateToken
  <2> QED
    BY <1>3, <2>1 DEF ValidateToken, rest
<1>4. CASE Load
  <2>1. IteratorRestored \in Iterator
    BY NewIterator DEF IteratorRestored
  <2> QED
    BY <1>4, <2>1 DEF Load, engineVars
<1>5. CASE SendTensor
  <2>1. sent + 1 \in 1..Tensors
    BY <1>5, Bounds DEF SendTensor
  <2> QED
    BY <1>5, <2>1 DEF SendTensor, rest
<1>6. CASE FirstSync
  BY <1>6, Bounds DEF FirstSync, Synced, ClearedCache, rest
<1>7. CASE FirstGeneration
  <2>1. iterator' \in Iterator /\ future' \in Future
    BY <1>7, Begun DEF FirstGeneration
  <2> QED
    BY <1>7, <2>1 DEF FirstGeneration, engineVars, rest
<1>8. CASE AwaitBatch
  <2>1. batch' \in [data : Nat, by : SUBSET Nat]
    BY <1>8 DEF AwaitBatch, Future
  <2> QED
    BY <1>8, <2>1 DEF AwaitBatch, engineVars, rest
<1>9. CASE NextGeneration
  <2>1. iterator' \in Iterator /\ future' \in Future
    BY <1>9, Begun DEF NextGeneration
  <2> QED
    BY <1>9, <2>1, Bounds DEF NextGeneration, Synced, ClearedCache, rest
<1>10. CASE UpdateActor
  <2>1. trained' \in Seq(Nat)
    BY <1>10, AppendProperties DEF UpdateActor
  <2>2. pc' \in Places /\ validated' \subseteq Nat
    BY <1>10 DEF UpdateActor
  <2>3. actor' \in Nat
    BY <1>10 DEF UpdateActor
  <2> QED
    BY <1>10, <2>1, <2>2, <2>3 DEF UpdateActor, engineVars, rest
<1>11. CASE ValidationEnd
  BY <1>11 DEF ValidationEnd, engineVars, rest
<1>12. CASE Save
  <2>1. batch' \in [data : Nat, by : SUBSET Nat]
    BY <1>12 DEF Save, NoBatch
  <2>2. checkpoint' \in [step : Nat, actor : Nat, iterator : Iterator, trained : Seq(Nat)]
    BY <1>12 DEF Save
  <2>3. pc' \in Places /\ step' \in Nat
    BY <1>12 DEF Save
  <2> QED
    BY <1>12, <2>1, <2>2, <2>3 DEF Save, engineVars
<1>13. CASE Restart
  <2>1. Unloaded \in [1..Tensors -> Nat]
    BY DEF Unloaded
  <2>2. Start \in Iterator /\ NoFuture \in Future /\ NoBatch \in [data : Nat, by : SUBSET Nat]
    BY DEF Start, Iterator, NoFuture, Future, States, NoBatch
  <2>3. <<>> \in Seq(Nat)
    OBVIOUS
  <2> QED
    BY <1>0, <1>13, <2>1, <2>2, <2>3, Bounds DEF Restart
<1>14. CASE UNCHANGED oneStepVars
  BY <1>14 DEF oneStepVars, engineVars, rest
<1> QED
  BY <1>1, <1>2, <1>3, <1>4, <1>5, <1>6, <1>7, <1>8, <1>9, <1>10, <1>11, <1>12, <1>13, <1>14, Frames
     DEF Driver

\* The engine's weights through a transfer
LEMMA EngineStep == TypeInv /\ EngineInv /\ FutureInv /\ [OneStepNext]_oneStepVars => EngineInv'
<1> SUFFICES ASSUME TypeInv, EngineInv, FutureInv, [OneStepNext]_oneStepVars PROVE EngineInv'
  OBVIOUS
<1> USE DEF Serving
<1>0. /\ Tensors \in Nat /\ sent \in 0..Tensors /\ DOMAIN weights = 1..Tensors
      /\ step \in Nat /\ begun \in Nat /\ actor \in Nat
  BY Bounds DEF TypeInv
<1>1. CASE GenerateToken /\ pc \in Serving
  <2>1. cached' = {Engine}
    BY <1>1, Tokens
  <2>2. Engine' = Engine /\ UNCHANGED <<pc, step, actor, sent, weights, begun>>
    BY <1>1 DEF GenerateToken, rest, Engine, First
  <2> HIDE DEF Engine
  <2> QED
    BY <1>1, <2>1, <2>2 DEF EngineInv
<1>2. CASE GenerateEnd
  BY <1>2 DEF GenerateEnd, engineVars, rest, EngineInv, Engine, First
<1>3. CASE ValidateToken
  <2>1. cached' = {Engine}
    BY <1>3, OneReader DEF ValidateToken
  <2>2. Engine' = Engine /\ UNCHANGED <<pc, step, actor, sent, weights, begun>>
    BY <1>3 DEF ValidateToken, rest, Engine, First
  <2> HIDE DEF Engine
  <2> QED
    BY <1>3, <2>1, <2>2 DEF EngineInv
<1>4. CASE Load
  BY <1>0, <1>4 DEF Load, engineVars, EngineInv
<1>5. CASE SendTensor
  <2>1. /\ sent' = sent + 1 /\ weights' = [weights EXCEPT ![sent + 1] = actor]
        /\ UNCHANGED <<pc, step, actor, begun>> /\ pc \in {"send_first", "send"}
        /\ sent < Tensors
    BY <1>5 DEF SendTensor, rest
  <2>2. \A t \in 1..sent' : weights'[t] = actor
    BY <1>0, <2>1 DEF EngineInv
  <2> QED
    BY <2>1, <2>2 DEF EngineInv
<1>6. CASE FirstSync
  <2>1. /\ sent' = 0 /\ cached' = {} /\ weights' = weights /\ pc = "send_first" /\ pc' = "validate_first"
        /\ sent = Tensors /\ UNCHANGED <<step, actor, begun>>
    BY <1>6 DEF FirstSync, Synced, ClearedCache, rest
  <2> QED
    BY <2>1 DEF EngineInv, Engine
<1>7. CASE FirstGeneration
  <2>1. pc = "validate_first" /\ pc' = "await" /\ step' = step + 1 /\ UNCHANGED <<actor, sent, weights, cached, begun>>
    BY <1>7 DEF FirstGeneration, engineVars, rest
  <2> QED
    BY <1>0, <2>1 DEF EngineInv, Engine, First
<1>8. CASE AwaitBatch
  BY <1>0, <1>8 DEF AwaitBatch, engineVars, rest, EngineInv
<1>9. CASE NextGeneration
  <2>1. /\ sent' = 0 /\ cached' = {} /\ weights' = weights /\ pc = "send" /\ pc' = "update"
        /\ sent = Tensors /\ UNCHANGED <<step, actor, begun>>
    BY <1>9 DEF NextGeneration, Synced, ClearedCache, rest
  <2> QED
    BY <2>1 DEF EngineInv, Engine
<1>10. CASE UpdateActor
  <2>1. /\ pc = "update" /\ pc' \in {"validate", "save"} /\ actor' = actor + 1
        /\ UNCHANGED <<step, sent, weights, cached, begun>>
    BY <1>10 DEF UpdateActor, engineVars, rest
  <2> QED
    BY <1>0, <2>1 DEF EngineInv, Engine
<1>11. CASE ValidationEnd
  BY <1>11 DEF ValidationEnd, engineVars, rest, EngineInv, Engine
<1>12. CASE Save
  <2>1. /\ pc = "save" /\ pc' \in {"await", "finished"} /\ step' = step + 1
        /\ UNCHANGED <<actor, sent, weights, cached, begun>>
    BY <1>12 DEF Save, engineVars
  <2> QED
    BY <1>0, <2>1 DEF EngineInv, Engine, First
<1>13. CASE Restart
  BY <1>13 DEF Restart, EngineInv
<1>14. CASE UNCHANGED oneStepVars
  BY <1>14 DEF oneStepVars, engineVars, rest, EngineInv, Engine, First
<1> QED
  BY <1>1, <1>2, <1>3, <1>4, <1>5, <1>6, <1>7, <1>8, <1>9, <1>10, <1>11, <1>12, <1>13, <1>14, Frames
     DEF Driver

\* What the generation under way and the batch in hand were made by
LEMMA FutureStep == TypeInv /\ EngineInv /\ FutureInv /\ [OneStepNext]_oneStepVars => FutureInv'
<1> SUFFICES ASSUME TypeInv, EngineInv, FutureInv, [OneStepNext]_oneStepVars PROVE FutureInv'
  OBVIOUS
<1>0. /\ step \in Nat /\ begun \in Nat /\ actor \in Nat /\ TotalSteps \in Nat
      /\ future \in Future /\ future.tokens \in Nat
  BY Bounds DEF TypeInv, Future
<1>1. CASE GenerateToken /\ pc \in Serving
  <2>1. /\ future' = FutureOf("running", future.data, future.by \cup {Engine}, future.tokens + 1)
        /\ future.state = "running"
    BY <1>1, Tokens DEF GenerateToken
  <2>2. /\ future'.state = future.state /\ future'.tokens = future.tokens + 1
        /\ future'.by = future.by \cup {Engine}
    BY <2>1, FutureFields
  <2>3. UNCHANGED <<pc, step, actor, begun, batch, validated>> /\ Engine' = Engine /\ Ahead' = Ahead
    BY <1>1 DEF GenerateToken, rest, Engine, First, Ahead, LastStep
  <2>4. Ahead /\ future'.by = {Engine}
    BY <1>0, <2>1, <2>2 DEF FutureInv
  <2>5. pc \notin {"load", "send_first", "validate_first"}
    BY <2>4 DEF Ahead
  <2>6. /\ pc' \in {"send", "update"} => Made(batch.by)'
        /\ pc' = "validate" => validated' \subseteq {Engine'}
    BY <2>3 DEF FutureInv, Made, First
  <2>7. future'.state = "running" /\ future'.tokens # 0
    BY <1>0, <2>1, <2>2
  <2> HIDE DEF Engine, Ahead
  <2> QED
    BY <2>3, <2>4, <2>5, <2>6, <2>7 DEF FutureInv
<1>2. CASE GenerateEnd
  <2>1. future' = FutureOf("done", future.data, future.by, future.tokens)
    BY <1>0, <1>2, NewFuture DEF GenerateEnd
  <2>2. /\ future'.state = "done" /\ future'.tokens = future.tokens /\ future'.by = future.by
        /\ future.state = "running" /\ future.tokens > 0
    BY <1>2, <2>1, FutureFields DEF GenerateEnd
  <2>3. UNCHANGED <<pc, step, actor, begun, batch, validated>> /\ Engine' = Engine /\ Ahead' = Ahead
    BY <1>2 DEF GenerateEnd, rest, Engine, First, Ahead, LastStep
  <2>4. Ahead
    BY <2>2 DEF FutureInv
  <2>5. pc \notin {"load", "send_first", "validate_first"}
    BY <2>4 DEF Ahead
  <2> HIDE DEF Engine, Ahead
  <2> QED
    BY <2>2, <2>3, <2>4, <2>5 DEF FutureInv, Made, First
<1>3. CASE ValidateToken
  <2>1. Readers = {Engine} /\ validated' = validated \cup Readers
    BY <1>3, OneReader DEF ValidateToken, Serving
  <2>2. UNCHANGED <<pc, step, actor, begun, batch, future>> /\ Engine' = Engine /\ Ahead' = Ahead
    BY <1>3 DEF ValidateToken, rest, Engine, First, Ahead, LastStep
  <2> HIDE DEF Engine, Ahead, Readers
  <2> QED
    BY <2>1, <2>2 DEF FutureInv, Made, First
<1>4. CASE Load
  BY <1>4 DEF Load, FutureInv, Ahead
<1>5. CASE SendTensor
  BY <1>5 DEF SendTensor, rest, FutureInv, Ahead, Made, First
<1>6. CASE FirstSync
  BY <1>6 DEF FirstSync, rest, FutureInv, Ahead
<1>7. CASE FirstGeneration
  <2>1. future'.by = {} /\ future'.tokens = 0 /\ future'.state \in {"running", "none_left"}
    BY <1>7, Begun DEF FirstGeneration
  <2>2. pc' = "await"
    BY <1>7 DEF FirstGeneration
  <2> QED
    BY <2>1, <2>2 DEF FutureInv, Ahead
<1>8. CASE AwaitBatch
  <2>1. pc = "await" /\ UNCHANGED <<step, actor, begun, future>>
    BY <1>8 DEF AwaitBatch, rest
  <2>2. CASE future.state = "done" /\ batch' = [data |-> future.data, by |-> future.by] /\ pc' = "send"
    <3>1. batch'.by = {Engine}
      BY <2>1, <2>2 DEF FutureInv, Ahead
    <3>2. Made(batch'.by)
      BY <2>1, <3>1 DEF Engine, Made
    <3> QED
      BY <2>1, <2>2, <3>2 DEF FutureInv, Made, First, Ahead
  <2>3. CASE future.state = "none_left" /\ pc' = "failed"
    BY <2>1, <2>3 DEF FutureInv, Ahead
  <2> QED
    BY <1>8, <2>2, <2>3 DEF AwaitBatch
<1>9. CASE NextGeneration
  <2>1. pc = "send" /\ pc' = "update" /\ UNCHANGED <<step, actor, begun, batch>>
    BY <1>9 DEF NextGeneration, rest
  <2>2. CASE LastStep
    <3>1. future' = future /\ LastStep'
      BY <1>9, <2>1, <2>2 DEF NextGeneration, LastStep
    <3> QED
      BY <2>1, <3>1 DEF FutureInv, Ahead, Made, First
  <2>3. CASE ~LastStep
    <3>1. future'.by = {} /\ future'.tokens = 0 /\ future'.state \in {"running", "none_left"} /\ ~LastStep'
      BY <1>9, <2>1, <2>3, Begun DEF NextGeneration, LastStep
    <3> QED
      BY <2>1, <3>1 DEF FutureInv, Ahead, Made, First
  <2> QED
    BY <2>2, <2>3
<1>10. CASE UpdateActor
  <2>1. /\ pc = "update" /\ pc' \in {"validate", "save"} /\ actor' = actor + 1
        /\ UNCHANGED <<step, begun, future>> /\ (pc' = "validate" => validated' = {})
    BY <1>10 DEF UpdateActor, rest
  <2>2. Engine' = Engine /\ Ahead' = Ahead
    BY <1>0, <2>1 DEF Engine, Ahead, LastStep
  <2> HIDE DEF Engine, Ahead
  <2> QED
    BY <2>1, <2>2 DEF FutureInv
<1>11. CASE ValidationEnd
  <2>1. pc = "validate" /\ pc' = "save" /\ UNCHANGED <<step, actor, begun, future>>
    BY <1>11 DEF ValidationEnd, rest
  <2>2. Engine' = Engine /\ Ahead' = Ahead
    BY <2>1 DEF Engine, Ahead, LastStep
  <2> HIDE DEF Engine, Ahead
  <2> QED
    BY <2>1, <2>2 DEF FutureInv
<1>12. CASE Save
  <2>1. /\ pc = "save" /\ pc' = (IF LastStep THEN "finished" ELSE "await") /\ step' = step + 1
        /\ UNCHANGED <<actor, begun, future>> /\ step > begun
    BY <1>12 DEF Save, EngineInv
  <2>2. Engine' = Engine /\ (Ahead' <=> Ahead)
    BY <1>0, <2>1 DEF Engine, Ahead, First
  <2> HIDE DEF Engine, Ahead
  <2> QED
    BY <2>1, <2>2 DEF FutureInv
<1>13. CASE Restart
  BY <1>13 DEF Restart, FutureInv, NoFuture, Ahead
<1>14. CASE UNCHANGED oneStepVars
  BY <1>14 DEF oneStepVars, engineVars, rest, FutureInv, Ahead, LastStep, Engine, First, Made
<1> QED
  BY <1>1, <1>2, <1>3, <1>4, <1>5, <1>6, <1>7, <1>8, <1>9, <1>10, <1>11, <1>12, <1>13, <1>14, Frames
     DEF Driver

-----------------------------------------------------------------------------
\* The batches
LEMMA RisingOps ==
  ASSUME NEW s \in Seq(Nat), NEW n \in Int, Rising(s, n), restarts \in Nat
  PROVE  /\ \A m \in Int : n <= m => Rising(s, m)
         /\ \A d \in Nat : d > n /\ d <= Len(s) + 1 + restarts => Rising(Append(s, d), d)
<1>1. ASSUME NEW m \in Int, n <= m PROVE Rising(s, m)
  BY <1>1 DEF Rising
<1>2. ASSUME NEW d \in Nat, d > n, d <= Len(s) + 1 + restarts PROVE Rising(Append(s, d), d)
  <2> DEFINE t == Append(s, d)  k == Len(s)
  <2>1. /\ k \in Nat /\ DOMAIN s = 1..k /\ DOMAIN t = 1..(k + 1) /\ t[k + 1] = d
        /\ \A i \in 1..k : t[i] = s[i] /\ s[i] \in Nat
    BY AppendProperties
  <2> HIDE DEF t, k
  <2>2. ASSUME NEW i \in 1..k PROVE t[i] < d /\ t[i] <= i + restarts
    <3>1. s[i] <= n /\ s[i] <= i + restarts
      BY <2>1 DEF Rising
    <3> QED
      BY <1>2, <2>1, <3>1
  <2>3. ASSUME NEW i \in DOMAIN t, NEW j \in DOMAIN t, i < j PROVE t[i] < t[j]
    <3>1. CASE j = k + 1
      BY <2>1, <2>2, <2>3, <3>1
    <3>2. CASE j # k + 1
      BY <2>1, <2>3, <3>2 DEF Rising
    <3> QED
      BY <3>1, <3>2
  <2>4. ASSUME NEW i \in DOMAIN t PROVE t[i] <= d /\ t[i] <= i + restarts
    <3>1. CASE i = k + 1
      BY <1>2, <2>1, <3>1 DEF k
    <3>2. CASE i # k + 1
      BY <2>1, <2>2, <2>4, <3>2
    <3> QED
      BY <3>1, <3>2
  <2> QED
    BY <2>3, <2>4 DEF Rising, t
<1> QED
  BY <1>1, <1>2

LEMMA RisingLater ==
  ASSUME NEW s \in Seq(Nat), NEW n \in Int, Rising(s, n), restarts \in Nat, restarts' \in Nat,
         restarts <= restarts'
  PROVE  Rising(s, n)'
BY DEF Rising

LEMMA CheckpointStep == TypeInv /\ CheckpointInv /\ DataInv /\ [OneStepNext]_oneStepVars => CheckpointInv'
<1> SUFFICES ASSUME TypeInv, CheckpointInv, DataInv, [OneStepNext]_oneStepVars PROVE CheckpointInv'
  OBVIOUS
<1>0. /\ actor \in Nat /\ restarts \in Nat /\ trained \in Seq(Nat) /\ iterator.taken \in Nat
      /\ checkpoint.trained \in Seq(Nat) /\ checkpoint.actor \in Nat
      /\ checkpoint.iterator.taken \in Nat
  BY DEF TypeInv, Iterator
<1>1. \A t, n : restarts' = restarts => Rising(t, n)' = Rising(t, n)
  BY DEF Rising
<1>2. CASE Crash \/ Again
  <2>1. restarts' = restarts + 1 /\ checkpoint' = checkpoint /\ pc' = "load"
    BY <1>2 DEF Crash, Again, Restart
  <2>2. Rising(checkpoint.trained, checkpoint.iterator.taken)'
    BY <1>0, <2>1 DEF Rising, CheckpointInv
  <2>3. checkpoint.iterator.taken <= checkpoint.actor + restarts + 1
    BY <1>0 DEF CheckpointInv
  <2> QED
    BY <1>0, <2>1, <2>2, <2>3 DEF CheckpointInv
<1>3. CASE Save
  <2>1. restarts' = restarts /\ pc = "save" /\ pc' # "load"
    BY <1>3 DEF Save
  <2>2. CASE checkpoint' = checkpoint
    BY <1>0, <1>1, <2>1, <2>2 DEF CheckpointInv
  <2>3. CASE checkpoint' = [step |-> step, actor |-> actor, iterator |-> iterator, trained |-> trained]
    <3>1. /\ checkpoint'.trained = trained /\ checkpoint'.iterator = iterator
          /\ checkpoint'.actor = actor
      BY <2>3
    <3>2. /\ Rising(trained, iterator.taken) /\ Len(trained) = actor
          /\ iterator.taken <= actor + restarts + 1
      BY <1>0, <2>1 DEF DataInv
    <3>3. Rising(checkpoint.trained, checkpoint.iterator.taken)'
      BY <2>1, <3>1, <3>2 DEF Rising
    <3> QED
      BY <2>1, <3>1, <3>2, <3>3 DEF CheckpointInv
  <2> QED
    BY <1>3, <2>2, <2>3 DEF Save
<1>4. ASSUME checkpoint' = checkpoint, restarts' = restarts, pc' = "load" => pc = "load"
      PROVE  CheckpointInv'
  BY <1>0, <1>1, <1>4 DEF CheckpointInv
<1>5. CASE Rollout \/ UNCHANGED oneStepVars
  BY <1>4, <1>5 DEF Rollout, GenerateToken, GenerateEnd, ValidateToken, oneStepVars, rest
<1>6. CASE Load \/ SendTensor \/ FirstSync \/ FirstGeneration
  BY <1>4, <1>6 DEF Load, SendTensor, FirstSync, FirstGeneration, rest
<1>7. CASE AwaitBatch \/ NextGeneration \/ UpdateActor \/ ValidationEnd
  BY <1>4, <1>7 DEF AwaitBatch, NextGeneration, UpdateActor, ValidationEnd, rest
<1> QED
  BY <1>2, <1>3, <1>5, <1>6, <1>7 DEF OneStepNext, Driver

LEMMA DataStep ==
  TypeInv /\ EngineInv /\ FutureInv /\ CheckpointInv /\ DataInv /\ [OneStepNext]_oneStepVars => DataInv'
<1> SUFFICES ASSUME TypeInv, EngineInv, FutureInv, CheckpointInv, DataInv, [OneStepNext]_oneStepVars PROVE DataInv'
  OBVIOUS
<1> DEFINE taken == iterator.taken  data == batch.data
<1>0. /\ step \in Nat /\ actor \in Nat /\ TotalSteps \in Nat /\ restarts \in Nat
      /\ future.data \in Nat /\ taken \in Nat /\ trained \in Seq(Nat) /\ data \in Nat
      /\ checkpoint.trained \in Seq(Nat) /\ checkpoint.actor \in Nat
      /\ checkpoint.iterator \in Iterator /\ checkpoint.iterator.taken \in Nat
  BY Bounds DEF TypeInv, Future, Iterator
<1>1. \A t, n : restarts' = restarts => Rising(t, n)' = Rising(t, n)
  BY DEF Rising
<1>2. Len(trained) = actor /\ Rising(trained, taken)
  BY DEF DataInv
<1>3. \A m \in Int, n \in Int : m <= n /\ Rising(trained, m) => Rising(trained, n)
  BY <1>0, RisingOps
<1>4. ASSUME restarts' = restarts, UNCHANGED <<actor, trained, iterator, step, batch>>,
             UNCHANGED pc \/ (pc = "validate" /\ pc' = "save"),
             Live' => Live /\ future'.data = future.data, pc = "update" => Live' = Live
      PROVE  DataInv'
  BY <1>1, <1>4 DEF DataInv
<1>5. CASE GenerateToken /\ pc \in Serving
  <2>1. future'.data = future.data /\ future'.state = "running" /\ future.state = "running"
    BY <1>5, Tokens, FutureFields DEF GenerateToken
  <2> QED
    BY <1>4, <1>5, <2>1 DEF GenerateToken, rest, Live, Ahead, LastStep
<1>6. CASE GenerateEnd
  <2>1. future' = FutureOf("done", future.data, future.by, future.tokens) /\ future.state = "running"
    BY <1>6, NewFuture DEF GenerateEnd, TypeInv
  <2>2. future'.data = future.data /\ future'.state = "done"
    BY <2>1, FutureFields
  <2> QED
    BY <1>4, <1>6, <2>1, <2>2 DEF GenerateEnd, rest, Live, Ahead, LastStep
<1>7. CASE ValidateToken \/ ValidationEnd \/ UNCHANGED oneStepVars
  BY <1>4, <1>7 DEF ValidateToken, ValidationEnd, rest, oneStepVars, engineVars, Live, Ahead, LastStep
<1>8. CASE Load
  <2>1. /\ pc = "load" /\ pc' = "send_first" /\ actor' = checkpoint.actor /\ iterator' = IteratorRestored
        /\ trained' = checkpoint.trained /\ restarts' = restarts
    BY <1>8 DEF Load
  <2>2. iterator'.taken = checkpoint.iterator.taken
    BY <1>0, <2>1, NewIterator DEF IteratorRestored
  <2>3. /\ Rising(checkpoint.trained, checkpoint.iterator.taken)
        /\ Len(checkpoint.trained) = checkpoint.actor
        /\ checkpoint.iterator.taken <= checkpoint.actor + restarts
    BY <1>0, <2>1 DEF CheckpointInv
  <2>4. Rising(trained, iterator.taken)'
    BY <2>1, <2>2, <2>3 DEF Rising
  <2> QED
    BY <2>1, <2>2, <2>3, <2>4 DEF DataInv, Live, Ahead
<1>9. CASE SendTensor
  <2>1. UNCHANGED <<pc, actor, trained, iterator, restarts, batch>> /\ pc \in {"send_first", "send"}
    BY <1>9 DEF SendTensor, rest
  <2> QED
    BY <1>1, <2>1 DEF DataInv, Live, Ahead
<1>10. CASE FirstSync
  <2>1. /\ pc = "send_first" /\ pc' = "validate_first"
        /\ UNCHANGED <<actor, trained, iterator, restarts>>
    BY <1>10 DEF FirstSync, rest
  <2> QED
    BY <1>1, <2>1 DEF DataInv, Live, Ahead
<1>11. CASE FirstGeneration
  <2>1. /\ pc = "validate_first" /\ pc' = "await" /\ UNCHANGED <<actor, trained, restarts>>
        /\ StartGeneration
    BY <1>11 DEF FirstGeneration, rest
  <2>2. /\ iterator'.taken \in {taken, taken + 1}
        /\ Live' => future'.data = iterator'.taken /\ iterator'.taken = taken + 1
    BY <2>1, Begun DEF Live
  <2>3. taken <= actor + restarts
    BY <2>1 DEF DataInv
  <2>4. Rising(trained, iterator'.taken) /\ (Live' => Rising(trained, iterator'.taken - 1))
    BY <1>0, <1>2, <1>3, <2>2
  <2>5. Rising(trained, iterator.taken)' /\ (Live' => Rising(trained, iterator.taken - 1)')
    BY <2>1, <2>4 DEF Rising
  <2> QED
    BY <1>0, <1>2, <2>1, <2>2, <2>3, <2>5 DEF DataInv
<1>12. CASE AwaitBatch
  <2>1. pc = "await" /\ UNCHANGED <<actor, trained, iterator, future, restarts>>
    BY <1>12 DEF AwaitBatch, rest
  <2>2. CASE future.state = "done" /\ batch'.data = future.data /\ pc' = "send"
    <3>1. Live /\ ~Live'
      BY <2>1, <2>2 DEF Live, Ahead
    <3>2. future.data = taken /\ Rising(trained, taken - 1) /\ taken <= actor + 1 + restarts
      BY <2>1, <3>1 DEF DataInv
    <3> QED
      BY <1>1, <1>2, <2>1, <2>2, <3>1, <3>2 DEF DataInv
  <2>3. CASE pc' = "failed"
    BY <1>1, <1>2, <2>1, <2>3 DEF DataInv, Live, Ahead
  <2> QED
    BY <1>12, <2>2, <2>3 DEF AwaitBatch
<1>13. CASE NextGeneration
  <2>1. /\ pc = "send" /\ pc' = "update" /\ UNCHANGED <<actor, trained, step, batch, restarts>>
        /\ (LastStep /\ UNCHANGED <<iterator, future>>) \/ (~LastStep /\ StartGeneration)
    BY <1>13 DEF NextGeneration, rest
  <2>2. data = taken /\ Rising(trained, taken - 1) /\ taken <= actor + 1 + restarts
    BY <2>1 DEF DataInv
  <2>3. iterator'.taken = (IF Live' THEN data + 1 ELSE data) /\ (Live' => future'.data = iterator'.taken)
    <3>1. CASE LastStep
      BY <2>1, <2>2, <3>1 DEF Live, Ahead, LastStep
    <3>2. CASE ~LastStep
      <4>1. Ahead'
        BY <2>1, <3>2 DEF Ahead, LastStep
      <4> QED
        BY <2>1, <2>2, <3>2, <4>1, Begun DEF Live
    <3> QED
      BY <3>1, <3>2
  <2>4. Rising(trained, iterator'.taken)
    BY <1>0, <1>2, <1>3, <2>2, <2>3
  <2>5. Rising(trained, iterator.taken)' /\ Rising(trained, batch.data - 1)'
    BY <2>1, <2>2, <2>4 DEF Rising
  <2> QED
    BY <1>2, <2>1, <2>2, <2>3, <2>5 DEF DataInv
<1>14. CASE UpdateActor
  <2>1. /\ pc = "update" /\ pc' \in {"validate", "save"} /\ actor' = actor + 1
        /\ trained' = Append(trained, data) /\ UNCHANGED <<step, iterator, future, restarts>>
    BY <1>14 DEF UpdateActor, rest
  <2>2. /\ Rising(trained, data - 1) /\ data <= actor + 1 + restarts
        /\ taken = IF Live THEN data + 1 ELSE data
        /\ Live => future.data = taken
    BY <2>1 DEF DataInv
  <2>3. Rising(trained', data) /\ Len(trained') = actor' /\ trained' \in Seq(Nat)
    BY <1>0, <1>2, <2>1, <2>2, RisingOps, AppendProperties
  <2>4. Live' = Live
    BY <2>1 DEF Live, Ahead, LastStep
  <2>5. Rising(trained', taken) /\ (Live => Rising(trained', taken - 1))
    BY <1>0, <2>2, <2>3, RisingOps
  <2>6. Rising(trained, iterator.taken)' /\ (Live' => Rising(trained, iterator.taken - 1)')
    BY <2>1, <2>4, <2>5 DEF Rising
  <2> HIDE DEF Live
  <2> QED
    BY <1>0, <2>1, <2>2, <2>3, <2>4, <2>6 DEF DataInv
<1>15. CASE Save
  <2>1. /\ pc = "save" /\ pc' = (IF LastStep THEN "finished" ELSE "await")
        /\ UNCHANGED <<actor, trained, iterator, future, restarts>>
    BY <1>15 DEF Save
  <2>2. Live' => Live
    BY <2>1 DEF Live, Ahead
  <2> HIDE DEF Live
  <2> QED
    BY <1>1, <1>2, <2>1, <2>2 DEF DataInv
<1>16. CASE Restart
  <2>1. pc' = "load" /\ actor' = 0 /\ iterator' = Start /\ trained' = <<>> /\ future' = NoFuture
    BY <1>16 DEF Restart
  <2> QED
    BY <2>1 DEF DataInv, Rising, Live, Ahead, Start
<1> QED
  BY <1>5, <1>6, <1>7, <1>8, <1>9, <1>10, <1>11, <1>12, <1>13, <1>14, <1>15, <1>16, Frames DEF Driver

-----------------------------------------------------------------------------
\* Together
LEMMA OffInit == OneStepInit => OffInv
<1> SUFFICES ASSUME OneStepInit PROVE OffInv
  OBVIOUS
<1> USE DEF OneStepInit
<1>1. TypeInv
  <2>1. /\ Unloaded \in [1..Tensors -> Nat] /\ <<>> \in Seq(Nat)
        /\ Start \in Iterator /\ NoFuture \in Future /\ NoBatch \in [data : Nat, by : SUBSET Nat]
    BY DEF Unloaded, Start, Iterator, NoFuture, Future, States, NoBatch
  <2>2. NoCheckpoint \in [step : Nat, actor : Nat, iterator : Iterator, trained : Seq(Nat)]
    BY <2>1 DEF NoCheckpoint
  <2> QED
    BY <2>1, <2>2, Bounds DEF TypeInv, Places
<1>2. EngineInv
  BY DEF EngineInv, Serving
<1>3. FutureInv
  BY DEF FutureInv, Ahead, NoFuture
<1>4. CheckpointInv
  BY DEF CheckpointInv, Rising, NoCheckpoint, Start
<1>5. DataInv
  BY DEF DataInv, Rising, Live, Ahead, Start
<1> QED
  BY <1>1, <1>2, <1>3, <1>4, <1>5 DEF OffInv

LEMMA Invariant == OneStepSpec => []OffInv
<1>1. OffInv /\ [OneStepNext]_oneStepVars => OffInv'
  BY TypeStep, EngineStep, FutureStep, CheckpointStep, DataStep, Zenon DEF OffInv
<1> QED
  BY <1>1, OffInit, PTL DEF OneStepSpec

(* No token mixes the weights of two steps, whatever is transferred, trained   *)
(* and validated beside its generation; a batch is of the weights of the step   *)
(* before its own, or of its own at the start of a process, and a validation is *)
(* of the step before: for any number of tensors, tokens and restarts (the order *)
(* of await, transfer, clear and prefetch in OneStepOffRayTrainer.fit).       *)
THEOREM AlwaysOneBehind == OneStepSpec => []OneStepBehind
<1>1. OffInv => OneStepBehind
  <2> SUFFICES ASSUME OffInv PROVE OneStepBehind
    OBVIOUS
  <2>0. TypeInv /\ EngineInv /\ FutureInv
    BY DEF OffInv
  <2>1. future.state = "running" \/ pc \in {"validate_first", "validate"} => Cardinality(Readers) = 1
    <3>1. future.state = "running" \/ pc \in {"validate_first", "validate"} => pc \in Serving
      BY <2>0 DEF FutureInv, Ahead, Serving
    <3>2. pc \in Serving => Readers = {Engine}
      BY <2>0, OneReader
    <3>3. Cardinality({Engine}) = 1
      BY FS_Singleton
    <3> QED
      BY <3>1, <3>2, <3>3
  <2>2. pc = "update" => batch.by = {actor - 1} \/ (batch.by = {actor} /\ step = begun + 1)
    BY <2>0 DEF FutureInv, Made, First
  <2>3. pc = "validate" => validated \subseteq {actor - 1}
    BY <2>0 DEF FutureInv, Engine
  <2> QED
    BY <2>1, <2>2, <2>3 DEF OneStepBehind
<1> QED
  BY <1>1, Invariant, PTL

(* The batches behind the weights are those of the data in order, each once,   *)
(* and each restart passes over one at most: for any data, save interval and    *)
(* number of restarts (_create_continuous_iterator, _save_checkpoint).        *)
THEOREM AlwaysInOrder == OneStepSpec => []TrainedInOrder
<1>1. OffInv => TrainedInOrder
  BY DEF OffInv, DataInv, Rising, TrainedInOrder
<1> QED
  BY <1>1, Invariant, PTL
=============================================================================
