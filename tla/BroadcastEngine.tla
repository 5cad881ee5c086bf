-------------------------- MODULE BroadcastEngine ---------------------------
(* NCCLCheckpointEngine: rank 0 broadcasts each bucket to all receivers in    *)
(* one collective call, and its names by a PUB socket before.  On every rank  *)
(* a BroadcastOperation does both in a thread of its own.                     *)
(* (checkpoint_engine/nccl_checkpoint_engine.py)                              *)
EXTENDS StreamingEngine

CONSTANT MaxMissed    \* the first messages a late receiver may miss

ASSUME BroadcastAssumption == MaxMissed \in Nat

VARIABLES
  op,         \* the BroadcastOperation of each rank: what its thread does next
  missed,     \* messages a receiver is still going to miss
  metas,      \* the messages that wait in its SUB socket
  wire,       \* the collective's data, call by call
  joined      \* calls of the collective a receiver has taken part in

broadcastVars == <<op, missed, metas, wire, joined>>
broadcastEngineVars == <<streamVars, broadcastVars>>

NoOp == [state |-> "done", half |-> 0, meta |-> NoBucket]

BroadcastIdle ==
  /\ op = [r \in Rank |-> NoOp]
  /\ missed \in [Receiver -> 0..MaxMissed]
  /\ \A r \in Punctual : missed[r] = 0
  /\ metas = [r \in Receiver |-> <<>>]
  /\ wire = <<>>
  /\ joined = [r \in Receiver |-> 0]

BroadcastInit == StreamInit /\ BroadcastIdle

Started(h, meta) == [state |-> "meta", half |-> h, meta |-> meta]

-----------------------------------------------------------------------------
(* The thread of an operation: _run *)

(* PUB drops what a receiver has not subscribed to yet. *)
Publish ==
  /\ op[0].state = "meta"
  /\ metas' = [r \in Receiver |-> IF missed[r] > 0 THEN metas[r] ELSE Append(metas[r], op[0].meta)]
  /\ missed' = [r \in Receiver |-> IF missed[r] > 0 THEN missed[r] - 1 ELSE 0]
  /\ op' = [op EXCEPT ![0].state = "data"]
  /\ UNCHANGED <<streamVars, wire, joined>>

(* The call of the source returns once its buffer has been read. *)
BroadcastBucket ==
  /\ op[0].state = "data"
  /\ wire' = Append(wire, buffers[0][op[0].half])
  /\ op' = [op EXCEPT ![0].state = "done"]
  /\ UNCHANGED <<streamVars, missed, metas, joined>>

(* From its call on, a receiver's buffer may be overwritten. *)
ReceiveMeta(r) ==
  /\ op[r].state = "meta" /\ metas[r] # <<>>
  /\ op' = [op EXCEPT ![r].state = "data", ![r].meta = Head(metas[r])]
  /\ metas' = [metas EXCEPT ![r] = Tail(@)]
  /\ buffers' = [buffers EXCEPT ![r][op[r].half] = Zeros]
  /\ UNCHANGED <<place, taken, bucket, half, offset, handed, missed, wire, joined>>

(* The calls of a group are matched in order. *)
ReceiveBucket(r) ==
  /\ op[r].state = "data" /\ joined[r] < Len(wire)
  /\ buffers' = [buffers EXCEPT ![r][op[r].half] = wire[joined[r] + 1]]
  /\ joined' = [joined EXCEPT ![r] = @ + 1]
  /\ op' = [op EXCEPT ![r].state = "done"]
  /\ UNCHANGED <<place, taken, bucket, half, offset, handed, missed, metas, wire>>

-----------------------------------------------------------------------------
(* send_weights and receive_weights *)

\* Mutant of OpDone: the operation before is not waited for
OpDoneAlways(r) == TRUE

(* wait_for_complete *)
OpDone(r) == op[r].state = "done"

BroadcastSend ==
  /\ Complete /\ OpDone(0)
  /\ op' = [op EXCEPT ![0] = Started(half[0], BucketMeta)]
  /\ SwapSender
  /\ UNCHANGED <<taken, buffers, offset, handed, missed, metas, wire, joined>>

BroadcastSent ==
  /\ place[0] = "wait" /\ OpDone(0)
  /\ place' = [place EXCEPT ![0] = "done"]
  /\ UNCHANGED <<taken, bucket, half, buffers, offset, handed, broadcastVars>>

ReceiveFirst(r) ==
  /\ place[r] = "first"
  /\ op' = [op EXCEPT ![r] = Started(1 - half[r], NoBucket)]
  /\ place' = [place EXCEPT ![r] = "read"]
  /\ UNCHANGED <<taken, bucket, half, buffers, offset, handed, missed, metas, wire, joined>>

(* A bucket is there: the buffers are swapped and, unless it is the last one, *)
(* the next operation is started before it is handed out.                     *)
Received(r) ==
  /\ place[r] = "read" /\ OpDone(r)
  /\ SwapReceiver(r, op[r].meta)
  /\ op' = IF op[r].meta.last THEN op ELSE [op EXCEPT ![r] = Started(half[r], NoBucket)]
  /\ place' = [place EXCEPT ![r] = "yield"]
  /\ UNCHANGED <<taken, buffers, handed, missed, metas, wire, joined>>

BucketOver(r) ==
  /\ place[r] = "yield" /\ HandedOut(r)
  /\ place' = [place EXCEPT ![r] = IF bucket[r].last THEN "done" ELSE "read"]
  /\ UNCHANGED <<taken, bucket, half, buffers, offset, handed, broadcastVars>>

BroadcastSender ==
  BroadcastSend \/ BroadcastSent \/ Publish \/ BroadcastBucket
  \/ (Fill /\ UNCHANGED broadcastVars)
BroadcastReceiver(r) ==
  ReceiveFirst(r) \/ Received(r) \/ BucketOver(r) \/ ReceiveMeta(r) \/ ReceiveBucket(r)
  \/ (Yield(r) /\ UNCHANGED broadcastVars)

BroadcastNext == BroadcastSender \/ \E r \in Receiver : BroadcastReceiver(r)

BroadcastSpec == BroadcastInit /\ [][BroadcastNext]_broadcastEngineVars

(* The processes run on their own. *)
BroadcastFairness ==
  /\ WF_broadcastEngineVars(BroadcastSender)
  /\ \A r \in Receiver : WF_broadcastEngineVars(BroadcastReceiver(r))
=============================================================================
