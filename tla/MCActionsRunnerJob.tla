------------------------- MODULE MCActionsRunnerJob -------------------------
(***************************************************************************)
(* Small instances of ActionsRunnerJob for TLC.                            *)
(***************************************************************************)
EXTENDS ActionsRunnerJob

\* What Reconcile holds is read again before it is used by the next reconciliation, and
\* no step depends on the history of the pods.
View == <<pc, queued, faults, objectVars, cacheVars, pending, runner, volume, edits,
          IF pc = "idle" THEN current \ {"reconcile"} ELSE current,
          IF pc = "idle" THEN job ELSE copy>>

=============================================================================
