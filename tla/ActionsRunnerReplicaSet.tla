---------------------- MODULE ActionsRunnerReplicaSet ----------------------
(***************************************************************************)
(* actionsrunnerreplicaset/reconciler.go: the reconciler that keeps        *)
(* Spec.Replicas ActionsRunners (ARs) with the spec of Spec.Template for   *)
(* an ActionsRunnerReplicaSet (ARRS).  It reads the ARRS and the ARs from  *)
(* two informer caches that lag behind the API server independently, and   *)
(* changes one AR per reconciliation.  Users scale the ARRS, change its    *)
(* template and delete it or its ARs meanwhile.                            *)
(***************************************************************************)
EXTENDS Controller, FiniteSets

CONSTANTS
    Runners,      \* names of ARs: as many as the namespace has room for
    MaxReplicas,  \* bound: the largest Spec.Replicas
    MaxTemplate,  \* bound: changes of Spec.Template
    MaxEdits      \* bound: steps of users

ASSUME ReplicaSetBounds ==
    /\ IsFiniteSet(Runners)
    /\ MaxReplicas \in Nat /\ MaxTemplate \in Nat /\ MaxEdits \in Nat

VARIABLES
    set,            \* the ARRS in the API server
    cachedSet,      \* the ARRS in the informer cache
    runners,        \* the ARs in the API server
    cachedRunners,  \* the ARs in the informer cache
    pending,        \* events of ARs are on their way to the cache
    replicaSet,     \* Reconcile's actionsRunnerReplicaSet
    items,          \* Reconcile's items: the list of ARs it works with
    edits           \* steps users may still take

vars == <<controllerVars, set, cachedSet, runners, cachedRunners, pending, replicaSet, items, edits>>

apiRunners == <<runners, pending>>

Phases    == {"live", "deleting", "absent"}
Labels    == {"idle", "list", "create", "delete", "update", "status"}
Templates == 0..MaxTemplate

ReplicaSets == [phase : Phases, replicas : 0..MaxReplicas, template : Templates,
                status : 0..(Cardinality(Runners) + 1), selector : BOOLEAN]

RunnerLists == [Runners -> [phase : Phases, spec : Templates]]

NoRunner == [phase |-> "absent", spec |-> 0]

\* Type correctness; the unsigned Status.Replicas never wraps around.
TypeOK ==
    /\ ControllerTypeOK(Labels)
    /\ set \in ReplicaSets /\ cachedSet \in ReplicaSets /\ replicaSet \in ReplicaSets
    /\ runners \in RunnerLists /\ cachedRunners \in RunnerLists /\ items \in RunnerLists
    /\ pending \in BOOLEAN
    /\ edits \in 0..MaxEdits

Init ==
    /\ ControllerInit
    /\ \E n \in 0..MaxReplicas :
         set = [phase |-> "live", replicas |-> n, template |-> 0, status |-> 0, selector |-> FALSE]
    /\ cachedSet = set /\ replicaSet = set
    /\ runners = [r \in Runners |-> NoRunner]
    /\ cachedRunners = runners /\ items = runners
    /\ pending = FALSE
    /\ edits = MaxEdits

Live(list)   == {r \in Runners : list[r].phase = "live"}
Exists(list) == {r \in Runners : list[r].phase # "absent"}

\* A change of the ARs in the API server
WriteRunners(list) ==
    /\ runners' = list
    /\ pending' = (pending \/ list # runners)

desiredActionsRunner == [phase |-> "live", spec |-> replicaSet.template]

actual  == Cardinality(Live(items))
desired == replicaSet.replicas

-----------------------------------------------------------------------------
(* Reconcile, reconciler.go 116-232.                                       *)

\* The ARRS is read from the cache; one that is gone or being deleted is left alone.
\* A Status.Selector that is not set is set first.
ReconcileGet ==
    /\ pc = "idle"
    /\ queued /\ queued' = FALSE
    /\ ReadFromCache
    /\ replicaSet' = [cachedSet EXCEPT !.selector = TRUE]
    /\ pc' = CASE cachedSet.phase # "live" -> "idle"
               [] cachedSet.phase = "live" /\ ~cachedSet.selector -> "status"
               [] cachedSet.phase = "live" /\ cachedSet.selector -> "list"
    /\ UNCHANGED <<faults, set, cachedSet, apiRunners, cachedRunners, items, edits>>

\* The ARs are listed, and those that are not being deleted are counted.
ReconcileList ==
    /\ pc = "list"
    /\ \/ /\ items' = cachedRunners
          /\ LET n == Cardinality(Live(cachedRunners))
             IN  Continue(IF n < desired THEN "create" ELSE IF n > desired THEN "delete" ELSE "update")
          /\ UNCHANGED faults
       \/ Fault /\ ReturnError /\ UNCHANGED items
    /\ UNCHANGED <<current, set, cachedSet, apiRunners, cachedRunners, replicaSet, edits>>

\* Variant: the error of a creation is dropped.
ReconcileCreateOnce ==
    /\ pc = "create"
    /\ \/ /\ \E r \in Runners \ (Exists(runners) \cup Exists(cachedRunners)) :
               WriteRunners([runners EXCEPT ![r] = desiredActionsRunner])
          /\ replicaSet' = [replicaSet EXCEPT !.status = actual + 1]
          /\ Continue("status")
          /\ UNCHANGED faults
       \/ Fault /\ Return /\ UNCHANGED <<apiRunners, replicaSet>>
    /\ UNCHANGED <<current, set, cachedSet, cachedRunners, items, edits>>

\* An AR is created under a generated name; a namespace without room refuses it.
ReconcileCreate ==
    LET names == Runners \ (Exists(runners) \cup Exists(cachedRunners) \cup Exists(items))
    IN  /\ pc = "create"
        /\ \/ /\ \E r \in names :
                   WriteRunners([runners EXCEPT ![r] = desiredActionsRunner])
              /\ replicaSet' = [replicaSet EXCEPT !.status = actual + 1]
              /\ Continue("status")
              /\ UNCHANGED faults
           \/ /\ \/ names = {} /\ UNCHANGED faults
                 \/ Fault
              /\ ReturnError
              /\ UNCHANGED <<apiRunners, replicaSet>>
        /\ UNCHANGED <<current, set, cachedSet, cachedRunners, items, edits>>

\* Variant: the status is computed from the number of replicas desired.
ReconcileDeleteDesired ==
    /\ pc = "delete"
    /\ \E r \in Exists(items) :
         WriteRunners([runners EXCEPT ![r].phase = IF @ = "live" THEN "deleting" ELSE @])
    /\ replicaSet' = [replicaSet EXCEPT !.status = desired - 1]
    /\ Continue("status")
    /\ UNCHANGED <<current, faults, set, cachedSet, cachedRunners, items, edits>>

\* items[0] is deleted: the list comes from a cache that has no order, and ARs that are
\* being deleted are in it.  For these the deletion has no effect, for one that is gone
\* it fails.
ReconcileDelete ==
    /\ pc = "delete"
    /\ \/ \E r \in Exists(items) :
            /\ runners[r].phase # "absent"
            /\ WriteRunners([runners EXCEPT ![r].phase = "deleting"])
            /\ replicaSet' = [replicaSet EXCEPT !.status = actual - 1]
            /\ Continue("status")
            /\ UNCHANGED faults
       \/ /\ \/ Fault
             \/ UNCHANGED faults /\ \E r \in Exists(items) : runners[r].phase = "absent"
          /\ ReturnError
          /\ UNCHANGED <<apiRunners, replicaSet>>
    /\ UNCHANGED <<current, set, cachedSet, cachedRunners, items, edits>>

\* Status().Update sends the status with the resourceVersion of the copy; a write that
\* changes nothing makes no new version.
ReconcileStatus ==
    LET exists == set.phase # "absent"
    IN  /\ pc = "status"
        /\ \/ /\ UpdateAccepted(exists)
              /\ set' = replicaSet
              /\ \/ set = replicaSet /\ UNCHANGED current
                 \/ set # replicaSet /\ NewVersion
           \/ UpdateRefused(exists) /\ UNCHANGED <<set, current>>
        /\ UNCHANGED <<cachedSet, apiRunners, cachedRunners, replicaSet, items, edits>>

\* The listed ARs whose spec is not the template, in any order
Undesired == {r \in Live(items) : items[r].spec # replicaSet.template}

\* One turn of the loop that updates undesired specs.  The list has the resourceVersion
\* of each AR: an AR that has changed since is a conflict, one that is gone is skipped.
ReconcileUpdate ==
    /\ pc = "update"
    /\ \/ Undesired = {} /\ Return /\ UNCHANGED <<faults, apiRunners, items>>
       \/ \E r \in Undesired :
            \/ /\ runners[r].phase = "absent" \/ runners[r] = items[r]
               /\ items' = [items EXCEPT ![r].spec = replicaSet.template]
               /\ WriteRunners(IF runners[r].phase = "absent" THEN runners
                               ELSE [runners EXCEPT ![r].spec = replicaSet.template])
               /\ Continue("update")
               /\ UNCHANGED faults
            \/ /\ \/ runners[r].phase # "absent" /\ runners[r] # items[r] /\ UNCHANGED faults
                  \/ Fault
               /\ ReturnError
               /\ UNCHANGED <<apiRunners, items>>
    /\ UNCHANGED <<current, set, cachedSet, cachedRunners, replicaSet, edits>>

Reconcile ==
    \/ ReconcileGet \/ ReconcileList \/ ReconcileCreate \/ ReconcileDelete
    \/ ReconcileStatus \/ ReconcileUpdate

\* The operator ends at any point; the next process starts with caches that are filled.
Restart ==
    /\ Fault
    /\ pc' = "idle"
    /\ queued' = TRUE
    /\ current' = {"cache"}
    /\ cachedSet' = set /\ cachedRunners' = runners
    /\ pending' = FALSE
    /\ UNCHANGED <<set, runners, replicaSet, items, edits>>

-----------------------------------------------------------------------------
(* The informers: every event of the ARRS and of its ARs queues a request. *)

reconcileVars == <<pc, faults, replicaSet, items>>

SetEvent ==
    /\ "cache" \notin current
    /\ CacheUpToDate
    /\ cachedSet' = set
    /\ queued' = TRUE
    /\ UNCHANGED <<reconcileVars, set, apiRunners, cachedRunners, edits>>

\* Variant: events of the deletion of an AR are dropped.
RunnerEventNoDeletion ==
    /\ pending /\ pending' = FALSE
    /\ cachedRunners' = runners
    /\ queued' = (queued \/ Exists(cachedRunners) \subseteq Exists(runners))
    /\ UNCHANGED <<reconcileVars, current, set, cachedSet, runners, edits>>

RunnerEvent ==
    /\ pending /\ pending' = FALSE
    /\ cachedRunners' = runners
    /\ queued' = TRUE
    /\ UNCHANGED <<reconcileVars, current, set, cachedSet, runners, edits>>

-----------------------------------------------------------------------------
(* Users and Kubernetes.                                                   *)

\* A user edits the ARRS: Spec.Replicas, Spec.Template, or its deletion.
EditSet ==
    /\ set.phase = "live"
    /\ edits > 0 /\ edits' = edits - 1
    /\ \/ \E n \in 0..MaxReplicas \ {set.replicas} : set' = [set EXCEPT !.replicas = n]
       \/ set.template < MaxTemplate /\ set' = [set EXCEPT !.template = @ + 1]
       \/ set' = [set EXCEPT !.phase = "deleting"]
    /\ NewVersion
    /\ UNCHANGED <<reconcileVars, queued, cachedSet, apiRunners, cachedRunners>>

\* A user deletes an AR.
DeleteRunner ==
    /\ edits > 0 /\ edits' = edits - 1
    /\ \E r \in Live(runners) : WriteRunners([runners EXCEPT ![r].phase = "deleting"])
    /\ UNCHANGED <<reconcileVars, queued, current, set, cachedSet, cachedRunners>>

\* The foreground deletion of an AR has removed what it owns.
RunnerRemoved ==
    /\ \E r \in Runners : /\ runners[r].phase = "deleting"
                          /\ WriteRunners([runners EXCEPT ![r] = NoRunner])
    /\ UNCHANGED <<reconcileVars, queued, current, set, cachedSet, cachedRunners, edits>>

\* The garbage collector deletes the ARs of an ARRS that is deleted, then the ARRS.
CollectSet ==
    /\ set.phase # "live"
    /\ \/ /\ \E r \in Live(runners) : WriteRunners([runners EXCEPT ![r].phase = "deleting"])
          /\ UNCHANGED <<set, current>>
       \/ /\ set.phase = "deleting" /\ Exists(runners) = {}
          /\ set' = [set EXCEPT !.phase = "absent"]
          /\ NewVersion
          /\ UNCHANGED apiRunners
    /\ UNCHANGED <<reconcileVars, queued, cachedSet, cachedRunners, edits>>

Next ==
    \/ Reconcile \/ Restart \/ SetEvent \/ RunnerEvent
    \/ EditSet \/ DeleteRunner \/ RunnerRemoved \/ CollectSet

Spec == Init /\ [][Next]_vars

\* The worker runs, the informers deliver, Kubernetes finishes deletions.
Fairness ==
    /\ WF_vars(Reconcile)
    /\ WF_vars(SetEvent)
    /\ WF_vars(RunnerEvent)
    /\ WF_vars(RunnerRemoved)
    /\ WF_vars(CollectSet)

FairSpec == Spec /\ Fairness

-----------------------------------------------------------------------------

\* The ARs are what the ARRS asks for.
Converged ==
    /\ Cardinality(Live(runners)) = set.replicas
    /\ \A r \in Live(runners) : runners[r].spec = set.template

\* No change goes unnoticed, whatever was read from a stale cache, refused or retried
\* before: when the reconciler has nothing left to do and the caches show the truth, the
\* ARs are what the ARRS asks for, or one is still being deleted and will bring an event.
RestsOnlyConverged ==
    /\ pc = "idle" /\ ~queued
    /\ "cache" \in current /\ ~pending
    /\ set.phase = "live"
    => Converged \/ Exists(runners) # Live(runners)

\* From some point on, the list that Reconcile reads shows the changes it has made.
ListKeepsUp == <>[][ReconcileList => ~pending]_vars

\* Creations and deletions from a stale list, which overshoot in both directions, die out
\* once users are done and the informer keeps up with the reconciler: the ARs become and
\* stay what the ARRS asks for.  (Without the premise they may go on forever.)
EventuallyConverged == ListKeepsUp => <>[](set.phase = "live" => Converged)

=============================================================================
