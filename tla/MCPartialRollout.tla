-------------------------- MODULE MCPartialRollout --------------------------
(* Model-checking instance of PartialRollout: the trajectories of one      *)
(* sample, through up to Syncs weight synchronizations.                    *)
EXTENDS PartialRollout

CONSTANTS t1, t2
=============================================================================
