-------------------------- MODULE StreamingEngine ---------------------------
(***************************************************************************)
(* What the two streaming checkpoint engines have in common: rank 0 fills  *)
(* one bucket while the last one is on its way, and a receiver hands out   *)
(* the tensors of one bucket while the next one arrives.  Every process    *)
(* has two buffers, which send_weights and receive_weights swap.           *)
(*                                                                         *)
(* A tensor is its place in the generator.  The names of bucket_meta are   *)
(* consecutive tensors, from..upto, at consecutive offsets of the buffer.  *)
(* (checkpoint_engine/base.py, nccl_, nixl_checkpoint_engine.py)           *)
(***************************************************************************)
EXTENDS Integers, Sequences, FiniteSetsExt

CONSTANTS Receivers,    \* number of receiving processes
          Late,         \* those whose subscription may come too late for the first
                        \* messages (BroadcastEngine)
          Bytes,        \* the size of each tensor
          BucketSize    \* bucket_size

ASSUME StreamingAssumption ==
  /\ Receivers \in Nat \ {0} /\ BucketSize \in Nat \ {0}
  /\ Late \subseteq 1..Receivers
  /\ Bytes \in Seq(1..BucketSize)

Rank == 0..Receivers
Receiver == 1..Receivers
Punctual == Receiver \ Late
Count == Len(Bytes)

VARIABLES
  place,     \* where each rank is in send_weights or receive_weights
  taken,     \* tensors rank 0 has taken from the generator
  bucket,    \* rank 0: the bucket being filled; others: the one being handed out
  half,      \* which of the two buffers is send_buf
  buffers,   \* their contents: the tensor at each offset
  offset,    \* tensors of its bucket a receiver has handed out
  handed     \* what each receiver has handed out: names and contents

streamVars == <<place, taken, bucket, half, buffers, offset, handed>>

Garbage == 0
Zeros == [o \in 1..Count |-> Garbage]
NoBucket == [from |-> 1, upto |-> 0, last |-> FALSE]

StreamInit ==
  /\ place = [r \in Rank |-> IF r = 0 THEN "fill" ELSE "first"]
  /\ taken = 0
  /\ bucket = [r \in Rank |-> NoBucket]
  /\ half = [r \in Rank |-> 0]
  /\ buffers = [r \in Rank |-> [h \in 0..1 |-> Zeros]]
  /\ offset = [r \in Rank |-> 0]
  /\ handed = [r \in Receiver |-> <<>>]

-----------------------------------------------------------------------------
(* The sender *)

BytesOf(b) == MapThenSumSet(LAMBDA t : Bytes[t], b.from..b.upto)
Left == taken < Count
Fits == BytesOf(bucket[0]) + Bytes[taken + 1] <= BucketSize

(* A tensor goes behind those in the bucket. *)
Fill ==
  /\ place[0] = "fill" /\ Left /\ Fits
  /\ taken' = taken + 1
  /\ buffers' = [buffers EXCEPT ![0][half[0]][taken + 2 - bucket[0].from] = taken + 1]
  /\ bucket' = [bucket EXCEPT ![0].upto = taken + 1]
  /\ UNCHANGED <<place, half, offset, handed>>

(* The bucket is full, or the generator is at its end. *)
Complete == place[0] = "fill" /\ (Left => ~Fits)

(* What is sent with a bucket *)
BucketMeta == [from |-> bucket[0].from, upto |-> bucket[0].upto, last |-> ~Left]

(* The bucket is on its way: the next one goes into the other buffer. *)
SwapSender ==
  /\ half' = [half EXCEPT ![0] = 1 - @]
  /\ bucket' = [bucket EXCEPT ![0].from = taken + 1]
  /\ place' = [place EXCEPT ![0] = IF Left THEN "fill" ELSE "wait"]

-----------------------------------------------------------------------------
(* A receiver *)

BufferSwapped(r) == 1 - half[r]

(* A bucket has arrived in recv_buf. *)
SwapReceiver(r, meta) ==
  /\ half' = [half EXCEPT ![r] = BufferSwapped(r)]
  /\ bucket' = [bucket EXCEPT ![r] = meta]
  /\ offset' = [offset EXCEPT ![r] = 0]

HandedOut(r) == bucket[r].from + offset[r] > bucket[r].upto

(* A tensor is a view of send_buf, gone once the receiver asks for the next. *)
Yield(r) ==
  /\ place[r] = "yield" /\ ~HandedOut(r)
  /\ handed' = [handed EXCEPT ![r] =
       Append(@, [name |-> bucket[r].from + offset[r],
                  tensor |-> buffers[r][half[r]][offset[r] + 1]])]
  /\ offset' = [offset EXCEPT ![r] = @ + 1]
  /\ UNCHANGED <<place, taken, bucket, half, buffers>>

-----------------------------------------------------------------------------
(* Properties *)

HandedPunctual == [r \in Punctual |-> handed[r]]

Promised == INSTANCE WeightStream WITH
  Receiver <- Punctual, handed <- HandedPunctual,
  Weights <- [t \in 1..Count |-> [name |-> t, tensor |-> t]]

(* Every receiver that has subscribed in time is handed the tensors of the    *)
(* generator, in order, each under its name with its contents, although       *)
(* buffers are filled, read by other processes and handed out at the same     *)
(* time, and whatever becomes of a receiver that came late (CheckpointEngine).*)
HandedInOrder == Promised!Spec

(* Every process has returned and every receiver has been handed everything. *)
AllHanded ==
  /\ \A r \in Rank : place[r] = "done"
  /\ \A r \in Receiver : Len(handed[r]) = Count
=============================================================================
