---------------------------- MODULE JobLifecycle ----------------------------
(***************************************************************************)
(* What the reconciler of ActionsRunners may rely on about the             *)
(* ActionsRunnerJob (ARJ) it creates and deletes, and what the detailed    *)
(* model of the reconciler of ActionsRunnerJobs implements.                *)
(***************************************************************************)

VARIABLE arj   \* the ARJ in the API server

JobPhases == {"absent", "active", "completed", "deleting"}

LifecycleInit == arj = "absent"

Created   == arj = "absent" /\ arj' = "active"

\* The status reports a claim that is lost, or a pod that has ended or is unknown.
Completed == arj = "active" /\ arj' = "completed"

\* The pod or the claim that ended the job is replaced before the ARJ is deleted.
Reverted  == arj = "completed" /\ arj' = "active"

Deleted   == arj \in {"active", "completed"} /\ arj' = "deleting"

\* Foreground deletion: once what the ARJ owns is gone
Removed   == arj = "deleting" /\ arj' = "absent"

LifecycleNext == Created \/ Completed \/ Reverted \/ Deleted \/ Removed

LifecycleSpec == LifecycleInit /\ [][LifecycleNext]_arj

=============================================================================
