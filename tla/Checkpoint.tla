----------------------------- MODULE Checkpoint -----------------------------
(* The checkpoints of a training run: the files of each step, the tracker    *)
(* file that names the step to resume from, and the manager every rank runs  *)
(* (BaseCheckpointManager, FSDPCheckpointManager).  Files survive a crash;    *)
(* the list of saved paths, which decides what is removed, does not.          *)
EXTENDS Integers, Sequences, FiniteSets

CONSTANTS Ranks,      \* the ranks of a worker group
          Lead        \* the rank that removes and registers

ASSUME LeadAssumption == Lead \in Ranks

VARIABLES
  disk,      \* files: what role and rank saved in the folder of which step
  tracker,   \* latest_checkpointed_iteration.txt: a step, or Absent
  saved,     \* previous_saved_paths of each role's lead rank
  place      \* where each rank is in save_checkpoint

ckptVars == <<disk, tracker, saved, place>>

Absent == 0                   \* no tracker file
Roles == {"actor", "critic"}

(* A shard stands for the model, optimizer and extra files of one rank; it   *)
(* is on disk once all three are.  holds is the state saved in it.           *)
Shard(step, role, rank, holds) ==
  [step |-> step, role |-> role, rank |-> rank, holds |-> holds]

ShardsOf(step, role) == {f \in disk : f.step = step /\ f.role = role}

CkptInit ==
  /\ disk = {}
  /\ tracker = Absent
  /\ saved = [role \in Roles |-> <<>>]
  /\ place = [r \in Ranks |-> "idle"]

(* The paths that stay when all but the last n are removed. *)
Newest(paths, n) ==
  IF Len(paths) <= n THEN paths ELSE SubSeq(paths, Len(paths) - n + 1, Len(paths))

Removed(paths, kept) ==
  {paths[i] : i \in DOMAIN paths} \ {kept[i] : i \in DOMAIN kept}

\* Mutant of AfterCapacity: one checkpoint too many goes before the save
AfterCapacityEager(paths, keep) ==
  IF keep > 1 /\ Len(paths) + 1 >= keep THEN Newest(paths, keep - 2) ELSE paths

(* keep = 0 stands for max_ckpt_to_keep unset: nothing is ever removed. *)
AfterCapacity(paths, keep) ==
  IF keep > 1 /\ Len(paths) >= keep THEN Newest(paths, keep - 1) ELSE paths

AfterRegister(paths, step, keep) ==
  IF keep > 0 THEN Newest(Append(paths, step), keep) ELSE Append(paths, step)

Without(role, steps) == {f \in disk : ~(f.role = role /\ f.step \in steps)}

(* save_checkpoint up to the first barrier: the lead rank makes room. *)
Prepare(r, role, keep) ==
  /\ place[r] = "idle"
  /\ place' = [place EXCEPT ![r] = "ready"]
  /\ LET kept == IF r = Lead THEN AfterCapacity(saved[role], keep) ELSE saved[role]
     IN  /\ saved' = [saved EXCEPT ![role] = kept]
         /\ disk' = Without(role, Removed(saved[role], kept))
  /\ UNCHANGED tracker

(* Past the first barrier every rank writes its own shard. *)
WriteShard(r, role, step, holds) ==
  /\ place[r] = "ready"
  /\ \A q \in Ranks : place[q] # "idle"
  /\ place' = [place EXCEPT ![r] = "written"]
  /\ disk' = {f \in disk : <<f.step, f.role, f.rank>> # <<step, role, r>>}
               \cup {Shard(step, role, r, holds)}
  /\ UNCHANGED <<tracker, saved>>

\* Mutant of Register: a barrier that a rank already through still counts for
RegisterTogether(r, role, step, keep) ==
  /\ place[r] = "written"
  /\ \A q \in Ranks : place[q] = "written"
  /\ place' = [place EXCEPT ![r] = "saved"]
  /\ saved' = [saved EXCEPT ![role] = AfterRegister(@, step, keep)]
  /\ UNCHANGED <<disk, tracker>>

(* Past the second barrier the lead rank registers the checkpoint and        *)
(* removes the ones beyond the limit.                                         *)
Register(r, role, step, keep) ==
  /\ place[r] = "written"
  /\ \A q \in Ranks : place[q] \in {"written", "saved"}
  /\ place' = [place EXCEPT ![r] = "saved"]
  /\ LET kept == IF r = Lead THEN AfterRegister(saved[role], step, keep) ELSE saved[role]
     IN  /\ saved' = [saved EXCEPT ![role] = kept]
         /\ disk' = Without(role, Removed(saved[role], kept))
  /\ UNCHANGED tracker

(* One step of one rank in the save of a role. *)
SaveStep(role, step, holds, keep) ==
  \E r \in Ranks : \/ Prepare(r, role, keep)
                   \/ WriteShard(r, role, step, holds)
                   \/ Register(r, role, step, keep)

Saved == \A r \in Ranks : place[r] = "saved"

(* The state file of the dataloader is written by the driver. *)
WriteData(step, holds) ==
  /\ disk' = {f \in disk : <<f.step, f.role>> # <<step, "data">>}
               \cup {Shard(step, "data", Lead, holds)}
  /\ UNCHANGED <<tracker, saved, place>>

(* The tracker is opened, emptied, written and closed as one step here. *)
WriteTracker(step) == tracker' = step /\ UNCHANGED <<disk, saved, place>>

(* What a process loses when it dies. *)
ForgetPaths ==
  /\ saved' = [role \in Roles |-> <<>>]
  /\ place' = [r \in Ranks |-> "idle"]
  /\ UNCHANGED <<disk, tracker>>

(* Every rank finds its shard of every role in use. *)
Complete(step, roles) ==
  \A role \in roles : {f.rank : f \in ShardsOf(step, role)} = Ranks

DataSaved(step) == ShardsOf(step, "data") # {}

Loaded(step, role) == (CHOOSE f \in ShardsOf(step, role) : f.rank = Lead).holds
=============================================================================
