---------------------------- MODULE MCSyncTrainer ----------------------------
(* Configurations of the synchronous trainer for TLC. *)
EXTENDS SyncTrainer

Conf(lora, level, freeCache, offload, critic, keep, warmup) ==
  [lora |-> lora, sleepLevel |-> level, freeCache |-> freeCache, offload |-> offload,
   critic |-> critic, keep |-> keep, warmup |-> warmup,
   dummy |-> ~lora, valFirst |-> lora, asyncReward |-> critic, bypass |-> offload,
   esi |-> keep = 2]

MCConfs == {
  Conf(FALSE, 1, TRUE, TRUE, TRUE, 2, 2),
  Conf(FALSE, 2, TRUE, FALSE, FALSE, 0, 0),
  Conf(FALSE, 1, FALSE, FALSE, TRUE, 3, 0),
  Conf(TRUE, 2, TRUE, TRUE, FALSE, 2, 1),
  Conf(TRUE, 1, TRUE, FALSE, TRUE, 0, 3) }

KeepOne == { Conf(FALSE, 1, TRUE, TRUE, TRUE, 1, 0) }
=============================================================================
