--------------------- MODULE MCActionsRunnerReplicaSet ---------------------
(***************************************************************************)
(* Small instances of ActionsRunnerReplicaSet for TLC.                     *)
(***************************************************************************)
EXTENDS ActionsRunnerReplicaSet

\* What Reconcile holds is read again before it is used by the next reconciliation.
View == <<pc, queued, faults, edits, set, cachedSet, runners, cachedRunners, pending,
          IF pc = "idle" THEN current \ {"reconcile"} ELSE current,
          IF pc = "idle" THEN set ELSE replicaSet,
          IF pc \in {"create", "delete", "update"} THEN items ELSE cachedRunners>>

=============================================================================
