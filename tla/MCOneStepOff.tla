---------------------------- MODULE MCOneStepOff ----------------------------
(* Configurations of a training step's workers for TLC, of which only one     *)
(* part moves: a run of the one-step-off trainer with its restarts, a         *)
(* transfer of weights by either of the streaming checkpoint engines, or the  *)
(* calls of an actor with masking and perturbation.                           *)
EXTENDS OneStepOff, RingEngine, BroadcastEngine, MCCotMasking

VARIABLE part

(* The last receiver's subscription may come after the first message. *)
MCBytes == <<1, 1, 2, 1>>
MCLate == {2}
InTime == \A r \in Receiver : missed[r] = 0
Broadcasting == part \in {"broadcast", "late broadcast"}

(* While another part moves, the actor has one fixed sequence. *)
AtRest == ~substring /\ ~pep.on /\ input = [p \in Position |-> a]

MCInit ==
  /\ part \in {"driver", "ring", "broadcast", "late broadcast", "actor"}
  /\ OneStepInit /\ StreamInit /\ RingIdle /\ BroadcastIdle
  /\ InTime <=> part # "late broadcast"
  /\ Init
  /\ part # "actor" => AtRest
MCNext ==
  /\ UNCHANGED part
  /\ \/ part = "driver" /\ OneStepNext /\ UNCHANGED <<streamVars, ringVars, broadcastVars, vars>>
     \/ part = "ring" /\ RingNext /\ UNCHANGED <<oneStepVars, broadcastVars, vars>>
     \/ Broadcasting /\ BroadcastNext /\ UNCHANGED <<oneStepVars, ringVars, vars>>
     \/ part = "actor" /\ Next /\ UNCHANGED <<oneStepVars, streamVars, ringVars, broadcastVars>>
MCSpec ==
  /\ MCInit
  /\ [][MCNext]_<<part, oneStepVars, streamVars, ringVars, broadcastVars, vars>>
  /\ \/ part = "driver" /\ Fairness
     \/ part = "ring" /\ RingFairness
     \/ Broadcasting /\ BroadcastFairness
     \/ part = "actor"

(* However often the job dies, all the steps of a run are made in the end;    *)
(* and in the end all the weights of a transfer are handed to every receiver, *)
(* if none has subscribed too late: neither waits for good (fit, send_weights *)
(* and receive_weights).                                                      *)
Finishes ==
  <>( /\ part = "driver" => Finished
      /\ part \in {"ring", "broadcast"} => AllHanded )
=============================================================================
