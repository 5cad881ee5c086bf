---------------------------- MODULE ContainerPool ----------------------------
(* The pool of persistent udocker containers in which the code reward runs a *)
(* program (custom_code_reward_udocker_persistent.py).  The containers are    *)
(* shared by all processes of a node; what each process knows of them, its    *)
(* lock, its round-robin counter and its semaphore are its own.               *)
EXTENDS Integers, FiniteSets

CONSTANTS Threads,      \* threads that execute a program
          Processes,
          ProcessOf,    \* the process of each thread
          PoolSize,     \* POOL_SIZE: containers, and programs at a time
          NamePrefixes,     \* <<i, j>>: the name of i is a prefix of the name of j
          MaxErrors     \* bound: failing udocker calls

ASSUME PoolAssumption ==
  /\ ProcessOf \in [Threads -> Processes]
  /\ PoolSize \in Nat \ {0}
  /\ NamePrefixes \subseteq (0..(PoolSize - 1)) \X (0..(PoolSize - 1))

VARIABLES
  container,  \* what udocker has under each name
  known,      \* _containers_created
  counter,    \* _container_counter modulo PoolSize
  lock,       \* who holds _creation_lock
  at,         \* where each thread is in execute_code_with_udocker
  index,      \* the container it was given
  errors      \* failing calls so far

poolVars == <<container, known, counter, lock, at, index, errors>>

Indices == 0..(PoolSize - 1)
Free == "free"

PoolInit ==
  /\ container = [i \in Indices |-> "absent"]
  /\ known = [p \in Processes |-> {}]
  /\ counter \in [Processes -> Indices]         \* the process id
  /\ lock = [p \in Processes |-> Free]
  /\ at = [t \in Threads |-> "idle"]
  /\ index = [t \in Threads |-> 0]
  /\ errors = 0

Goes(t, place) == at' = [at EXCEPT ![t] = place]
Known(t) == index[t] \in known[ProcessOf[t]]
Notes(t) == known' = [known EXCEPT ![ProcessOf[t]] = @ \cup {index[t]}]

\* Mutant of Unlocks: a return does not release the lock
UnlocksNever(t) == UNCHANGED lock

Unlocks(t) == lock' = [lock EXCEPT ![ProcessOf[t]] = Free]

(* _get_container_from_pool: the lock is held only to count on. *)
Choose(t) ==
  /\ at[t] = "choose"
  /\ lock[ProcessOf[t]] = Free
  /\ index' = [index EXCEPT ![t] = counter[ProcessOf[t]]]
  /\ counter' = [counter EXCEPT ![ProcessOf[t]] = (@ + 1) % PoolSize]
  /\ Goes(t, "look")
  /\ UNCHANGED <<container, known, lock, errors>>

(* _ensure_container: looked up without the lock, and again under it. *)
Look(t) ==
  /\ at[t] = "look"
  /\ Goes(t, IF Known(t) THEN "wait" ELSE "lock")
  /\ UNCHANGED <<container, known, counter, lock, index, errors>>

Lock(t) ==
  /\ at[t] = "lock"
  /\ lock[ProcessOf[t]] = Free
  /\ IF Known(t) THEN Goes(t, "wait") /\ UNCHANGED lock
                 ELSE Goes(t, "create") /\ lock' = [lock EXCEPT ![ProcessOf[t]] = t]
  /\ UNCHANGED <<container, known, counter, index, errors>>

(* udocker create; of several processes one succeeds and the others are told *)
(* that the name is in use.                                                   *)
Create(t) ==
  /\ at[t] = "create"
  /\ IF container[index[t]] = "absent"
     THEN /\ container' = [container EXCEPT ![index[t]] = "created"]
          /\ Goes(t, "setup")
          /\ UNCHANGED <<known, lock>>
     ELSE /\ Notes(t) /\ Unlocks(t) /\ Goes(t, "wait")
          /\ UNCHANGED container
  /\ UNCHANGED <<counter, index, errors>>

(* It fails, or takes more than 30 seconds and may have succeeded all the    *)
(* same.                                                                      *)
CreateFails(t) ==
  /\ at[t] = "create"
  /\ errors < MaxErrors /\ errors' = errors + 1
  /\ \/ UNCHANGED container
     \/ container[index[t]] = "absent" /\ container' = [container EXCEPT ![index[t]] = "created"]
  /\ Goes(t, "check")
  /\ UNCHANGED <<known, counter, lock, index>>

Setup(t) ==
  /\ at[t] = "setup"
  /\ container' = [container EXCEPT ![index[t]] = "ready"]
  /\ Notes(t) /\ Unlocks(t) /\ Goes(t, "wait")
  /\ UNCHANGED <<counter, index, errors>>

(* A setup that fails is not noticed; one that takes too long raises.        *)
SetupFails(t) ==
  /\ at[t] = "setup"
  /\ errors < MaxErrors /\ errors' = errors + 1
  /\ \/ Notes(t) /\ Unlocks(t) /\ Goes(t, "wait")
     \/ Goes(t, "check") /\ UNCHANGED <<known, lock>>
  /\ UNCHANGED <<container, counter, index>>

\* Mutant of Listed: whatever udocker ps says, the container is taken for created
ListedAlways(i) == TRUE

(* The name is searched in the text that udocker ps -a prints; the command   *)
(* may fail as well, and then the container is taken for missing.             *)
Listed(i) == \/ container[i] # "absent"
             \/ \E j \in Indices : container[j] # "absent" /\ <<i, j>> \in NamePrefixes

Check(t) ==
  /\ at[t] = "check"
  /\ \/ Listed(index[t]) /\ Notes(t) /\ Goes(t, "wait")
     \/ UNCHANGED known /\ Goes(t, "ended")
  /\ Unlocks(t)
  /\ UNCHANGED <<container, counter, index, errors>>

Running(p) == {t \in Threads : ProcessOf[t] = p /\ at[t] = "run"}

(* The semaphore lets PoolSize programs of a process run at a time. *)
Run(t) ==
  /\ at[t] = "wait"
  /\ Cardinality(Running(ProcessOf[t])) < PoolSize
  /\ Goes(t, "run")
  /\ UNCHANGED <<container, known, counter, lock, index, errors>>

(* The program ends, or is killed after its time. *)
RunEnds(t) ==
  /\ at[t] = "run"
  /\ Goes(t, "ended")
  /\ UNCHANGED <<container, known, counter, lock, index, errors>>

ThreadStep(t) ==
  \/ Choose(t) \/ Look(t) \/ Lock(t) \/ Create(t) \/ Setup(t) \/ Check(t)
  \/ Run(t) \/ RunEnds(t)
PoolStep(t) == ThreadStep(t) \/ CreateFails(t) \/ SetupFails(t)
=============================================================================
