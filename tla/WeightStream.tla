---------------------------- MODULE WeightStream ----------------------------
(* What a CheckpointEngine promises: send_weights takes the tensors of a      *)
(* generator one by one, and receive_weights hands every receiver the same    *)
(* ones in the same order, each as it was sent (base.py).  It has no buckets, *)
(* buffers, messages or ranks in between.                                     *)
EXTENDS Integers, Sequences

CONSTANTS Receiver,   \* the inference processes
          Weights     \* what the generator yields, in order

VARIABLES taken,      \* tensors taken from the generator
          handed      \* what each receiver has been handed

Init == taken = 0 /\ handed = [r \in Receiver |-> <<>>]

Take ==
  /\ taken < Len(Weights)
  /\ taken' = taken + 1
  /\ UNCHANGED handed

Hand(r) ==
  /\ Len(handed[r]) < taken
  /\ handed' = [handed EXCEPT ![r] = Append(@, Weights[Len(@) + 1])]
  /\ UNCHANGED taken

Next == Take \/ \E r \in Receiver : Hand(r)

Spec == Init /\ [][Next]_<<taken, handed>>
=============================================================================
