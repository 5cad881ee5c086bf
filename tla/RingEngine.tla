----------------------------- MODULE RingEngine -----------------------------
(* NIXLCheckpointEngine: the ranks form a chain.  A rank announces a bucket   *)
(* to the next one, which reads it out of its memory and notifies it.         *)
(* (checkpoint_engine/nixl_checkpoint_engine.py)                              *)
EXTENDS StreamingEngine

VARIABLES
  inbox,      \* the messages of the previous agent
  incoming,   \* read_op: the bucket read, and which buffer of the previous agent
  reading,    \* is the transfer under way?
  copied,     \* offsets it has copied
  announced,  \* ReadableOperations of a rank so far
  notified    \* those of which it got the notification

ringVars == <<inbox, incoming, reading, copied, announced, notified>>
ringEngineVars == <<streamVars, ringVars>>

NoMessage == [meta |-> NoBucket, half |-> 0]

RingIdle ==
  /\ inbox = [r \in Receiver |-> <<>>]
  /\ incoming = [r \in Receiver |-> NoMessage]
  /\ reading = [r \in Receiver |-> FALSE]
  /\ copied = [r \in Receiver |-> 0]
  /\ announced = [r \in Rank |-> 0]
  /\ notified = [r \in Rank |-> 0]

RingInit == StreamInit /\ RingIdle

(* ReadableOperation(...) *)
Announce(r, meta, h) ==
  /\ inbox' = [inbox EXCEPT ![r + 1] = Append(@, [meta |-> meta, half |-> h])]
  /\ announced' = [announced EXCEPT ![r] = @ + 1]

\* Mutant of ReadByNext: the sender goes on without the notification
ReadByNextUnlessFirst(r) == r = 0 \/ notified[r] = announced[r]

(* ReadableOperation.wait_for_complete of the last one *)
ReadByNext(r) == notified[r] = announced[r]

(* send_weights waits until the bucket before is read before it announces    *)
(* this one, and after the last one.                                          *)
RingSend ==
  /\ Complete /\ ReadByNext(0)
  /\ Announce(0, BucketMeta, half[0])
  /\ SwapSender
  /\ UNCHANGED <<taken, buffers, offset, handed, incoming, reading, copied, notified>>

RingSent ==
  /\ place[0] = "wait" /\ ReadByNext(0)
  /\ place' = [place EXCEPT ![0] = "done"]
  /\ UNCHANGED <<taken, bucket, half, buffers, offset, handed, ringVars>>

(* ReadOperation.read_metadata and begin_read: of the first bucket, or of the *)
(* next one before this one is handed out                                     *)
BeginRead(r) ==
  /\ place[r] \in {"first", "next"} /\ inbox[r] # <<>>
  /\ incoming' = [incoming EXCEPT ![r] = Head(inbox[r])]
  /\ inbox' = [inbox EXCEPT ![r] = Tail(@)]
  /\ reading' = [reading EXCEPT ![r] = TRUE]
  /\ copied' = [copied EXCEPT ![r] = 0]
  /\ place' = [place EXCEPT ![r] = IF @ = "first" THEN "read" ELSE "yield"]
  /\ UNCHANGED <<taken, bucket, half, buffers, offset, handed, announced, notified>>

Incoming(r) == incoming[r].meta
CopiedAll(r) == Incoming(r).from + copied[r] > Incoming(r).upto

(* The transfer takes place whatever the two processes do meanwhile. *)
CopyTensor(r) ==
  /\ reading[r] /\ ~CopiedAll(r)
  /\ buffers' = [buffers EXCEPT ![r][1 - half[r]][copied[r] + 1] =
                   buffers[r - 1][incoming[r].half][copied[r] + 1]]
  /\ copied' = [copied EXCEPT ![r] = @ + 1]
  /\ UNCHANGED <<place, taken, bucket, half, offset, handed, inbox, incoming, reading,
                 announced, notified>>

(* Its end is seen on both sides. *)
EndRead(r) ==
  /\ reading[r] /\ CopiedAll(r)
  /\ reading' = [reading EXCEPT ![r] = FALSE]
  /\ notified' = [notified EXCEPT ![r - 1] = @ + 1]
  /\ UNCHANGED <<streamVars, inbox, incoming, copied, announced>>

(* A bucket is there: the buffers are swapped and it is announced to the next *)
(* agent, if there is one.                                                    *)
Arrived(r) ==
  /\ place[r] = "read" /\ ~reading[r]
  /\ SwapReceiver(r, Incoming(r))
  /\ IF r < Receivers THEN Announce(r, Incoming(r), 1 - half[r])
                      ELSE UNCHANGED <<inbox, announced>>
  /\ place' = [place EXCEPT ![r] = IF Incoming(r).last THEN "yield" ELSE "next"]
  /\ UNCHANGED <<taken, buffers, handed, incoming, reading, copied, notified>>

(* The bucket is handed out and the next agent has read it. *)
Passed(r) ==
  /\ place[r] = "yield" /\ HandedOut(r) /\ ReadByNext(r)
  /\ place' = [place EXCEPT ![r] = IF bucket[r].last THEN "done" ELSE "read"]
  /\ UNCHANGED <<taken, bucket, half, buffers, offset, handed, ringVars>>

RingSender == RingSend \/ RingSent \/ (Fill /\ UNCHANGED ringVars)
RingReceiver(r) == BeginRead(r) \/ Arrived(r) \/ Passed(r) \/ (Yield(r) /\ UNCHANGED ringVars)
RingWire(r) == CopyTensor(r) \/ EndRead(r)

RingNext == RingSender \/ \E r \in Receiver : RingReceiver(r) \/ RingWire(r)

RingSpec == RingInit /\ [][RingNext]_ringEngineVars

(* The processes run on their own, and so do transfers. *)
RingFairness ==
  /\ WF_ringEngineVars(RingSender)
  /\ \A r \in Receiver : WF_ringEngineVars(RingReceiver(r)) /\ WF_ringEngineVars(RingWire(r))
=============================================================================
