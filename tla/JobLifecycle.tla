---------------------------- MODULE JobLifecycle ----------------------------
(***************************************************************************)
(* What the system promises about a job's life: it is created pending or   *)
(* scheduled, moves only along the lifecycle graph of job_state.go, and is *)
(* forgotten only once it has completed.  A forgotten job never returns.   *)
(* One script may move a whole batch, so a step moves any number of jobs.  *)
(***************************************************************************)
EXTENDS JobAggregate

CONSTANT Jobs

VARIABLE life   \* life[j]: where job j is, "unborn" before and "gone" after

TypeOK == life \in [Jobs -> JobState \cup {"unborn", "gone"}]

Init == life = [j \in Jobs |-> "unborn"]

MayBecome(old, new) ==
  \/ old = new
  \/ old = "unborn" /\ new \in {"pending", "scheduled"}
  \/ old \in JobState /\ new \in JobState /\ CanTransitionTo(old, new)
  \/ old = "completed" /\ new = "gone"

Next ==
  /\ life' \in [Jobs -> JobState \cup {"unborn", "gone"}]
  /\ \A j \in Jobs : MayBecome(life[j], life'[j])

Spec == Init /\ [][Next]_life

=============================================================================
