----------------------------- MODULE MCResponses -----------------------------
(* Model-checking instance of what happens to the responses of a batch: their *)
(* requests for a score in the reward workers, or a call that sends their     *)
(* rows to the workers of a group and back, with responses that end with an   *)
(* observation or have one in them.                                           *)
EXTENDS RewardLoop, DataDispatch

CONSTANTS p1, p2, r1, r2, r3

MCProcessOf == r1 :> p1 @@ r2 :> p1 @@ r3 :> p2
MCLimitersOf == p1 :> <<"rpm", "tpm">> @@ p2 :> <<>>
MCLimits == "rpm" :> [max |-> 1, cost |-> 1] @@ "tpm" :> [max |-> 1, cost |-> 2]
MCPrefixes == {<<0, 1>>}
MCMasks == {<<1, 0>>, <<1, 0, 1>>}
MCValue(r, t) == 5 * r + 11 * t
MCDivergence(r, t) == r + 2 * t

VARIABLE part

NoCall == job = "none" /\ length = <<>> /\ response = <<>> /\ score = <<>> /\ Ready
NoRequest ==
  /\ LimiterInit /\ PoolInit /\ counter = [p \in Processes |-> 0]
  /\ passed = [r \in Requests |-> 0]
  /\ stage = [r \in Requests |-> "answer"]

MCInit ==
  \/ part = "score" /\ Init /\ NoCall
  \/ /\ part = "dispatch" /\ NoRequest /\ DispatchInit
     /\ job = "gae" => score = [r \in DOMAIN length |-> 100]
MCNext ==
  /\ UNCHANGED part
  /\ \/ part = "score" /\ Next /\ UNCHANGED dispatchVars
     \/ part = "dispatch" /\ DispatchNext /\ UNCHANGED vars
MCSpec ==
  /\ MCInit
  /\ [][MCNext]_<<part, vars, dispatchVars>>
  /\ part = "score" => Fairness
=============================================================================
