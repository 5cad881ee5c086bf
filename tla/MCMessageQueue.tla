-------------------------- MODULE MCMessageQueue --------------------------
(* Model-checking instance of the two channels of the message queue actor:  *)
(* either two consumers race for samples, or a trainer of five steps        *)
(* transfers its weights and logs the reports on its versions. The Rollouter*)
(* validates every second version, both actors every one, or the Rollouter  *)
(* every one beside its rollout.                                            *)
EXTENDS MessageQueueClients, Synchronization

CONSTANTS c1, c2

Mode(parallel, byTrainer, freq, trigger) ==
  [parallel |-> parallel, byTrainer |-> byTrainer, before |-> TRUE, freq |-> freq, trigger |-> trigger]
MCModes == {Mode(FALSE, FALSE, 2, 2), Mode(FALSE, TRUE, 1, 1), Mode(TRUE, FALSE, 1, 2)}
MCSizes == <<1, 2, 1, 2>>

MCInit == Init /\ SyncInit
MCNext ==
  \/ Next /\ SyncInit /\ UNCHANGED syncVars
  \/ SyncNext /\ Init /\ UNCHANGED vars
MCFairness ==
  /\ \A c \in Consumers : WF_vars(SyncInit /\ caller[c] # "idle" /\ Get(c))
  /\ WF_syncVars(Init /\ FitStep)
  /\ WF_syncVars(Init /\ Remote(UpdateParamVersion))
  /\ WF_syncVars(Init /\ Remote(DoValidate))
  /\ WF_syncVars(Init /\ Remote(ValidateProcess))
MCSpec == MCInit /\ [][MCNext]_<<vars, syncVars>> /\ MCFairness
===========================================================================
