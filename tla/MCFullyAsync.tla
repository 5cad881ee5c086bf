---------------------------- MODULE MCFullyAsync ----------------------------
(* Model-checking instances of FullyAsync: one trainer; each .cfg chooses  *)
(* the mode (partial rollout or not, staleness) and sizes that make a      *)
(* pause, a resume and a full queue happen.                                *)
EXTENDS FullyAsync

CONSTANT trainer
=============================================================================
