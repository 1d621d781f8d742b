--------------------------- MODULE TaskLifecycle ---------------------------
(***************************************************************************)
(* What one training task of the Aggregation Server promises, whatever     *)
(* the number of threads that operate on it: an EMPTY task may be claimed  *)
(* by one trainer, only that trainer's claim may be committed or revoked,  *)
(* and a round reset takes the task back to EMPTY.  Every operation is one *)
(* atomic step here; TaskWord shows the compare-and-swap loops of the      *)
(* native index implement it, AggregationServer that its handlers do.      *)
(***************************************************************************)

CONSTANTS Trainers,    \* the client tokens (SIDs)
          NoTrainer    \* trainer field of an EMPTY task, 0 in the code

VARIABLES state, trainer

lifecycleVars == <<state, trainer>>

EMPTY == "EMPTY"
PENDING == "PENDING"
COMMITTED == "COMMITTED"
TaskState == {EMPTY, PENDING, COMMITTED}

LifecycleInit == state = EMPTY /\ trainer = NoTrainer

Claim(c) ==
    /\ state = EMPTY
    /\ state' = PENDING
    /\ trainer' = c

Commit(c) ==
    /\ state = PENDING /\ trainer = c
    /\ state' = COMMITTED
    /\ UNCHANGED trainer

Release(c) ==
    /\ state = PENDING /\ trainer = c
    /\ state' = EMPTY
    /\ trainer' = NoTrainer

Reset ==
    /\ state' = EMPTY
    /\ trainer' = NoTrainer

LifecycleNext ==
    \/ \E c \in Trainers : Claim(c) \/ Commit(c) \/ Release(c)
    \/ Reset

LifecycleSpec == LifecycleInit /\ [][LifecycleNext]_lifecycleVars
=============================================================================
