--------------------------- MODULE WeightTransfer ---------------------------
(***************************************************************************)
(* The checkpoint engine of the asynchronous pipeline: the actors broadcast *)
(* their weights in buckets to the rollout workers, in turns all ranks work *)
(* out alike.  Overlapped, a rank receives a bucket into one half of its    *)
(* buffer while a thread of it loads the last one out of the other half.    *)
(* (checkpoint_engine.py, fsdp_workers.py)                                  *)
(***************************************************************************)
EXTENDS Integers, Sequences, SequencesExt, FiniteSetsExt

CONSTANTS Actors, Rollouts,   \* numbers of workers
          Sizes,              \* sizes of the tensors of weights_info
          DeviceBuffer,       \* device_buffer_size_M
          Overlaps            \* settings of overlap_broadcast_and_consume to consider

ASSUME TransferAssumption ==
  /\ {Actors, Rollouts, DeviceBuffer} \subseteq Nat \ {0}
  /\ Sizes \in Seq(Nat \ {0}) /\ Sizes # <<>>
  /\ Overlaps \subseteq BOOLEAN

ActorRank == 0..(Actors - 1)
RolloutRank == Actors..(Actors + Rollouts - 1)
Rank == ActorRank \cup RolloutRank
Tensor == 1..Len(Sizes)

-----------------------------------------------------------------------------
\* register_checkpoint: the buckets, the same on every rank

BucketSize == Max({DeviceBuffer} \cup {Sizes[t] : t \in Tensor})

SizeOf(bucket) == FoldSeq(LAMBDA t, size : size + Sizes[t], 0, bucket)

\* The tensors go to the actors in turn, and there into the last bucket or a new one.
Packed[t \in 0..Len(Sizes)] ==
  IF t = 0 THEN [a \in ActorRank |-> << <<>> >>]
  ELSE LET a == (t - 1) % Actors
           buckets == Packed[t - 1][a]
           fits == SizeOf(Last(buckets)) + Sizes[t] <= BucketSize
       IN  [Packed[t - 1] EXCEPT ![a] =
              IF fits THEN Append(Front(buckets), Append(Last(buckets), t))
                      ELSE Append(buckets, <<t>>)]

GlobalBuckets == Packed[Len(Sizes)]

\* Mutant of Rounds: as many as the first actor has buckets
RoundsOfFirst == Len(GlobalBuckets[0])

\* get_max_buckets_num_per_rank
Rounds == Max({Len(GlobalBuckets[a]) : a \in ActorRank})

\* In every round each actor that has a bucket left broadcasts it: the n-th
\* iteration of the two loops, from 0.
Round(n) == n \div Actors + 1
Source(n) == n % Actors
Over(n) == Round(n) > Rounds
HasBucket(n) == Round(n) <= Len(GlobalBuckets[Source(n)])
BucketOf(n) == GlobalBuckets[Source(n)][Round(n)]

-----------------------------------------------------------------------------
VARIABLES
  overlap,    \* overlap_broadcast_and_consume
  published,  \* the version of the weights transferred
  pc,         \* where each rank is in sync_rollout_weights_by_checkpoint
  turn,       \* iterations of the loops behind a rank
  gidx,       \* buckets it has received
  memory,     \* the version in memory_buffers, or Nothing
  buffer,     \* the halves of broadcast_load_buffer
  sent,       \* the broadcasts begun, in turn
  loader,     \* the thread of a rank: what it loads, tensors to load, out of which half
  replied,    \* has the thread's answer arrived?
  model       \* the inference models: the version of each tensor

transferVars == <<overlap, published, pc, turn, gidx, memory, buffer, sent, loader, replied, model>>

Nothing == -1
Garbage == [turn |-> Nothing, version |-> Nothing]
Resting == [turn |-> Nothing, tensors |-> <<>>, slot |-> 0, busy |-> FALSE]

TransferInit ==
  /\ overlap \in Overlaps
  /\ published = Nothing
  /\ pc = [r \in Rank |-> "done"]
  /\ turn = [r \in Rank |-> 0] /\ gidx = [r \in Rank |-> 0]
  /\ memory = [r \in Rank |-> Nothing]
  /\ buffer = [r \in Rank |-> [slot \in 0..1 |-> Garbage]]
  /\ sent = <<>>
  /\ loader = [r \in Rank |-> Resting] /\ replied = [r \in Rank |-> FALSE]
  /\ model = [r \in RolloutRank |-> [t \in Tensor |-> Nothing]]

All(place) == \A r \in Rank : pc[r] = place
Everywhere(place) == pc' = [r \in Rank |-> place]

\* Mutant of Slot: the second half is never used
SlotOne(g) == 0

Slot(g) == IF overlap THEN g % 2 ELSE 0

\* The buffers of a call of sync_rollout_weights_by_checkpoint are new.
StartTransfer(version) ==
  /\ All("done")
  /\ published' = version
  /\ Everywhere("cache")
  /\ turn' = [r \in Rank |-> 0] /\ gidx' = [r \in Rank |-> 0]
  /\ buffer' = [r \in Rank |-> [slot \in 0..1 |-> Garbage]]
  /\ sent' = <<>>
  /\ UNCHANGED <<overlap, memory, loader, replied, model>>

\* cache_actor_weights_to_cpu and register_checkpoint
Register(r) ==
  /\ pc[r] = "cache"
  /\ pc' = [pc EXCEPT ![r] = "registered"]
  /\ memory' = [memory EXCEPT ![r] = IF r \in ActorRank THEN published ELSE Nothing]
  /\ UNCHANGED <<overlap, published, turn, gidx, buffer, sent, loader, replied, model>>

\* The barrier before update_checkpoint, which starts the thread
StartThreads ==
  /\ All("registered")
  /\ Everywhere("turn")
  /\ loader' = [r \in Rank |-> [Resting EXCEPT !.busy = overlap]]
  /\ UNCHANGED <<overlap, published, turn, gidx, memory, buffer, sent, replied, model>>

\* The actor whose turn it is has no bucket left.
Skip(r) ==
  /\ pc[r] = "turn" /\ ~Over(turn[r]) /\ ~HasBucket(turn[r])
  /\ turn' = [turn EXCEPT ![r] = @ + 1]
  /\ UNCHANGED <<overlap, published, pc, gidx, memory, buffer, sent, loader, replied, model>>

\* A rank takes part in the next broadcast. Its source copies the bucket from
\* memory over h2d_buffer, and its call returns; another's buffer is overwritten
\* from now on.
Broadcast(r) ==
  LET source == Source(turn[r]) = r
      copied == [turn |-> turn[r], version |-> memory[r]]
  IN  /\ pc[r] = "turn" /\ ~Over(turn[r]) /\ HasBucket(turn[r])
      /\ buffer' = [buffer EXCEPT ![r][Slot(gidx[r])] = IF source THEN copied ELSE Garbage]
      /\ sent' = IF source THEN Append(sent, copied) ELSE sent
      /\ pc' = [pc EXCEPT ![r] = IF ~source THEN "receive" ELSE IF overlap THEN "answer" ELSE "load"]
      /\ UNCHANGED <<overlap, published, turn, gidx, memory, loader, replied, model>>

\* The broadcasts of the group are matched in the order of their calls.
Receive(r) ==
  /\ pc[r] = "receive" /\ gidx[r] < Len(sent)
  /\ buffer' = [buffer EXCEPT ![r][Slot(gidx[r])] = sent[gidx[r] + 1]]
  /\ pc' = [pc EXCEPT ![r] = IF overlap THEN "answer" ELSE "load"]
  /\ UNCHANGED <<overlap, published, turn, gidx, memory, sent, loader, replied, model>>

\* What load_weights makes of a tensor in a half of the buffer
Extracted(r, slot, t) ==
  LET held == buffer[r][slot]
  IN  IF held # Garbage /\ t \in Range(BucketOf(held.turn)) THEN held.version ELSE Nothing

\* Not overlapped, a rank loads the bucket before it goes on.
LoadDirectly(r) ==
  /\ pc[r] = "load"
  /\ model' = IF r \in ActorRank THEN model
              ELSE [model EXCEPT ![r] = [t \in Tensor |->
                      IF t \in Range(BucketOf(turn[r])) THEN Extracted(r, 0, t) ELSE @[t]]]
  /\ turn' = [turn EXCEPT ![r] = @ + 1]
  /\ gidx' = [gidx EXCEPT ![r] = @ + 1]
  /\ pc' = [pc EXCEPT ![r] = "turn"]
  /\ UNCHANGED <<overlap, published, memory, buffer, sent, loader, replied>>

\* Mutant of Answered: nobody waits for the thread
AnsweredAlways(r) == TRUE

Answered(r) == replied[r]

\* Overlapped, it waits until its thread has loaded the last bucket, then for all
\* others, and hands over this one.
Answer(r) ==
  /\ pc[r] = "answer" /\ Answered(r)
  /\ replied' = [replied EXCEPT ![r] = FALSE]
  /\ pc' = [pc EXCEPT ![r] = "barrier"]
  /\ UNCHANGED <<overlap, published, turn, gidx, memory, buffer, sent, loader, model>>

HandOver ==
  /\ All("barrier")
  /\ loader' = [r \in Rank |->
        [turn |-> turn[r], slot |-> Slot(gidx[r]), busy |-> TRUE,
         tensors |-> IF r \in ActorRank THEN <<>> ELSE BucketOf(turn[r])]]
  /\ turn' = [r \in Rank |-> turn[r] + 1]
  /\ gidx' = [r \in Rank |-> gidx[r] + 1]
  /\ Everywhere("turn")
  /\ UNCHANGED <<overlap, published, memory, buffer, sent, replied, model>>

LoadTensor(r) ==
  /\ loader[r].busy /\ loader[r].tensors # <<>>
  /\ model' = [model EXCEPT ![r][Head(loader[r].tensors)] =
                 Extracted(r, loader[r].slot, Head(loader[r].tensors))]
  /\ loader' = [loader EXCEPT ![r].tensors = Tail(@)]
  /\ UNCHANGED <<overlap, published, pc, turn, gidx, memory, buffer, sent, replied>>

Reply(r) ==
  /\ loader[r].busy /\ loader[r].tensors = <<>>
  /\ loader' = [loader EXCEPT ![r].busy = FALSE]
  /\ replied' = [replied EXCEPT ![r] = TRUE]
  /\ UNCHANGED <<overlap, published, pc, turn, gidx, memory, buffer, sent, model>>

\* All turns are over: the thread is waited for and ended.
Drain(r) ==
  /\ pc[r] = "turn" /\ Over(turn[r])
  /\ overlap => Answered(r)
  /\ replied' = [replied EXCEPT ![r] = FALSE]
  /\ pc' = [pc EXCEPT ![r] = "leave"]
  /\ UNCHANGED <<overlap, published, turn, gidx, memory, buffer, sent, loader, model>>

Leave ==
  /\ All("leave")
  /\ Everywhere("done")
  /\ memory' = [r \in Rank |-> Nothing]
  /\ UNCHANGED <<overlap, published, turn, gidx, buffer, sent, loader, replied, model>>

RankStep(r) ==
  \/ Register(r) \/ Skip(r) \/ Broadcast(r) \/ Receive(r) \/ LoadDirectly(r)
  \/ Answer(r) \/ LoadTensor(r) \/ Reply(r) \/ Drain(r)

TransferStep == StartThreads \/ HandOver \/ Leave \/ \E r \in Rank : RankStep(r)

TransferNext == TransferStep \/ \E version \in Nat : StartTransfer(version)

TransferSpec == TransferInit /\ [][TransferNext]_transferVars

-----------------------------------------------------------------------------
\* Properties

\* A thread finds in its half of the buffer the bucket it was told to load, of the
\* version transferred, although the next bucket is received meanwhile; so does a
\* rank without a thread (update_checkpoint).
LoadsWhole ==
  \A r \in Rank :
    /\ loader[r].busy /\ loader[r].tensors # <<>>
         => buffer[r][loader[r].slot] = [turn |-> loader[r].turn, version |-> published]
    /\ pc[r] = "load" => buffer[r][0] = [turn |-> turn[r], version |-> published]

\* When all ranks have left, every inference model has every tensor of that version.
Delivered == All("done") => \A r \in RolloutRank, t \in Tensor : model[r][t] = published

WeightsWhole == LoadsWhole /\ Delivered
=============================================================================
