-------------------------- MODULE Synchronization --------------------------
(***************************************************************************)
(* The trainer's fit() with what its synchronizations consist of: Validation *)
(* with the weights of ActorWeights, sent by WeightTransfer.                 *)
(***************************************************************************)
EXTENDS Validation, ActorWeights, WeightTransfer

ASSUME TriggerAssumption == \A m \in Modes : m.trigger <= MaxTrigger

VARIABLE transferring    \* is sync_weights in its transfer?

syncVars == <<valVars, actorVars, transferVars, transferring>>

SyncInit == ValInit /\ ActorInit /\ TransferInit /\ transferring = FALSE

\* sync_weights has been called.
SyncCalled == fit = "starting" \/ (fit \in {"sync", "lastSync"} /\ LastValid)

BeginTransfer ==
  /\ SyncCalled /\ ~transferring
  /\ StartTransfer(actor.heap[actor.param])
  /\ transferring' = TRUE
  /\ UNCHANGED <<valVars, actorVars>>

Transfer == TransferStep /\ UNCHANGED <<valVars, actorVars, transferring>>

EndTransfer ==
  /\ transferring /\ All("done")
  /\ FirstSync \/ TriggerSync \/ LastSync
  /\ Synced
  /\ transferring' = FALSE
  /\ UNCHANGED transferVars

TrainStep == Train /\ TrainWeights(step) /\ UNCHANGED <<transferVars, transferring>>

FitStep ==
  \/ BeginTransfer \/ Transfer \/ EndTransfer \/ TrainStep
  \/ /\ Begin \/ OwnValidation \/ Log \/ Finish \/ Remaining \/ LastTrigger \/ LastLog \/ Raise
     /\ UNCHANGED <<actorVars, transferVars, transferring>>

Remote(A) == A /\ UNCHANGED <<actorVars, transferVars, transferring>>

SyncNext ==
  \/ FitStep
  \/ Remote(UpdateParamVersion) \/ Remote(DoValidate) \/ Remote(ValidateProcess)

\* Calls submitted are executed, and fit() goes on where it can.
SyncFairness ==
  /\ WF_syncVars(FitStep)
  /\ WF_syncVars(Remote(UpdateParamVersion))
  /\ WF_syncVars(Remote(DoValidate))
  /\ WF_syncVars(Remote(ValidateProcess))

SyncSpec == SyncInit /\ [][SyncNext]_syncVars /\ SyncFairness

-----------------------------------------------------------------------------
\* Properties

\* No update is lost in the exchange of weights, and the old log probabilities of
\* every batch come from the weights the Rollouter has (_process_batch_common).
OldPolicy ==
  /\ actor.heap[actor.param] = updates
  /\ updates > synced => proximal = synced
=============================================================================
