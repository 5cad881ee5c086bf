----------------------------- MODULE TrainingRun -----------------------------
(* What a training run promises, whatever happens to its processes: it makes *)
(* one step after another, a crash takes it back to the step that was made    *)
(* durable last and no further, and it is never more than a save interval      *)
(* ahead of that step.                                                        *)
EXTENDS Naturals

CONSTANTS MaxSteps, SaveEvery

VARIABLES progress, durable

runVars == <<progress, durable>>

Init == progress = 0 /\ durable = 0

Step ==
  /\ progress < MaxSteps
  /\ progress - durable < SaveEvery
  /\ progress' = progress + 1
  /\ UNCHANGED durable

Save == durable' = progress /\ UNCHANGED progress

FallBack == progress' = durable /\ UNCHANGED durable

Next == Step \/ Save \/ FallBack

Spec == Init /\ [][Next]_runVars
=============================================================================
