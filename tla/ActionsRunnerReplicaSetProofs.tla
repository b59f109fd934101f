------------------ MODULE ActionsRunnerReplicaSetProofs ------------------
(***************************************************************************)
(* Proofs about ActionsRunnerReplicaSet for any finite set of names of     *)
(* ARs, any number of replicas and templates, and any bounds on edits,     *)
(* failures and restarts.                                                  *)
(***************************************************************************)
EXTENDS ActionsRunnerReplicaSet, FiniteSetTheorems, TLAPS

-----------------------------------------------------------------------------
(* Type correctness.                                                       *)

\* Reconcile deletes when it has counted more ARs than the ARRS asks for, and updates when it
\* has counted as many.
Counted ==
    /\ pc = "delete" => actual > desired
    /\ pc = "update" => actual = desired

\* The number of ARs in a list is a natural number, at most that of the names.
LEMMA LiveBound ==
  ASSUME NEW list
  PROVE  /\ Cardinality(Runners) \in Nat
         /\ Cardinality(Live(list)) \in 0..Cardinality(Runners)
  <1>1. IsFiniteSet(Runners)
    BY ReplicaSetBounds
  <1>2. Live(list) \subseteq Runners
    BY DEF Live
  <1> QED
    BY <1>1, <1>2, FS_Subset, FS_CardinalityType

\* The list after a change of one AR is a list.
LEMMA RunnerListTypes ==
  ASSUME NEW list \in RunnerLists, NEW r \in Runners, NEW t \in Templates
  PROVE  /\ [list EXCEPT ![r] = [phase |-> "live", spec |-> t]] \in RunnerLists
         /\ [list EXCEPT ![r] = NoRunner] \in RunnerLists
         /\ [list EXCEPT ![r].phase = "deleting"] \in RunnerLists
         /\ [list EXCEPT ![r].spec = t] \in RunnerLists
  <1>1. list[r] \in [phase : Phases, spec : Templates]
    BY DEF RunnerLists
  <1>2. [list[r] EXCEPT !.phase = "deleting"] \in [phase : Phases, spec : Templates]
    BY <1>1 DEF Phases
  <1>3. [list[r] EXCEPT !.spec = t] \in [phase : Phases, spec : Templates]
    BY <1>1
  <1>4. NoRunner \in [phase : Phases, spec : Templates]
    <2>1. 0 \in Templates
      BY ReplicaSetBounds DEF Templates
    <2> QED
      BY <2>1 DEF NoRunner, Phases
  <1>5. [phase |-> "live", spec |-> t] \in [phase : Phases, spec : Templates]
    BY DEF Phases
  <1> QED
    BY <1>2, <1>3, <1>4, <1>5 DEF RunnerLists

\* A failure uses up one of those that are left.
LEMMA FaultTypes ==
  ASSUME faults \in 0..MaxFaults, Fault \/ UNCHANGED faults
  PROVE  faults' \in 0..MaxFaults
  BY FaultBound DEF Fault

\* The initial state has the types.
LEMMA TypeInit == Init => TypeOK /\ Counted
  <1> SUFFICES ASSUME Init
               PROVE  TypeOK /\ Counted
    OBVIOUS
  <1>1. 0 \in Templates /\ 0 \in 0..(Cardinality(Runners) + 1)
    BY LiveBound, ReplicaSetBounds DEF Templates
  <1>2. set \in ReplicaSets
    BY <1>1 DEF Init, ReplicaSets, Phases
  <1>3. runners \in RunnerLists
    BY <1>1 DEF Init, RunnerLists, NoRunner, Phases
  <1>4. faults \in 0..MaxFaults /\ edits \in 0..MaxEdits
    BY FaultBound, ReplicaSetBounds DEF Init, ControllerInit
  <1>5. /\ cachedSet = set /\ replicaSet = set /\ cachedRunners = runners /\ items = runners
        /\ pending = FALSE /\ pc = "idle" /\ queued = TRUE /\ current = {"cache"}
    BY DEF Init, ControllerInit
  <1> QED
    BY <1>2, <1>3, <1>4, <1>5 DEF TypeOK, ControllerTypeOK, Labels, Copies, Counted

\* A step of Reconcile keeps the types; the status it computes is in its range.
LEMMA ReconcileTypes ==
  ASSUME TypeOK, Counted, Reconcile
  PROVE  TypeOK' /\ Counted'
  <1> USE DEF TypeOK, ControllerTypeOK, Labels, Copies, Return, ReturnError, Continue, apiRunners
  <1>0. /\ Cardinality(Runners) \in Nat /\ MaxReplicas \in Nat /\ MaxFaults \in Nat
        /\ actual \in 0..Cardinality(Runners) /\ desired \in Nat
    BY LiveBound, ReplicaSetBounds, FaultBound DEF actual, desired, ReplicaSets
  <1>1. CASE ReconcileGet
    <2>1. [cachedSet EXCEPT !.selector = TRUE] \in ReplicaSets
      BY DEF ReplicaSets
    <2>2. pc' \in {"idle", "status", "list"}
      BY <1>1 DEF ReconcileGet, ReplicaSets
    <2> QED
      BY <1>1, <2>1, <2>2 DEF ReconcileGet, ReadFromCache, Counted
  <1>2. CASE ReconcileList /\ pc' # "idle"
    <2>1. /\ items' = cachedRunners /\ replicaSet' = replicaSet
          /\ pc' = IF Cardinality(Live(cachedRunners)) < desired THEN "create"
                   ELSE IF Cardinality(Live(cachedRunners)) > desired THEN "delete" ELSE "update"
      BY <1>2 DEF ReconcileList
    <2>2. actual' = Cardinality(Live(cachedRunners)) /\ desired' = desired
      BY <2>1 DEF actual, desired, Live
    <2>3. Cardinality(Live(cachedRunners)) \in Nat
      BY LiveBound
    <2>4. Counted'
      BY <1>0, <2>1, <2>2, <2>3 DEF Counted
    <2> QED
      BY <1>2, <2>1, <2>4 DEF ReconcileList
  <1>2a. CASE ReconcileList /\ pc' = "idle"
    <2>1. Fault /\ queued' = TRUE
          /\ UNCHANGED <<current, set, cachedSet, apiRunners, cachedRunners, replicaSet, items, edits>>
      BY <1>2a DEF ReconcileList
    <2>2. faults' \in 0..MaxFaults
      BY <2>1, FaultTypes
    <2> QED
      BY <1>2a, <2>1, <2>2 DEF Counted
  <1>3. CASE ReconcileCreate
    <2>1. [replicaSet EXCEPT !.status = actual + 1] \in ReplicaSets
      BY <1>0 DEF ReplicaSets
    <2>2. \A r \in Runners : [runners EXCEPT ![r] = desiredActionsRunner] \in RunnerLists
      BY RunnerListTypes DEF desiredActionsRunner, ReplicaSets
    <2>3. replicaSet' \in ReplicaSets /\ runners' \in RunnerLists /\ pending' \in BOOLEAN
      BY <1>3, <2>1, <2>2 DEF ReconcileCreate, WriteRunners
    <2>4. faults' \in 0..MaxFaults
      BY <1>3, FaultTypes DEF ReconcileCreate
    <2>5. pc' \in {"idle", "status"} /\ queued' \in BOOLEAN
      BY <1>3 DEF ReconcileCreate
    <2>6. UNCHANGED <<current, set, cachedSet, cachedRunners, items, edits>>
      BY <1>3 DEF ReconcileCreate
    <2> QED
      BY <2>3, <2>4, <2>5, <2>6 DEF Counted
  <1>4. CASE ReconcileDelete
    <2>1. [replicaSet EXCEPT !.status = actual - 1] \in ReplicaSets
      BY <1>0, <1>4 DEF ReplicaSets, ReconcileDelete, Counted
    <2>2. \A r \in Runners : [runners EXCEPT ![r].phase = "deleting"] \in RunnerLists
      <3>1. 0 \in Templates
        BY ReplicaSetBounds DEF Templates
      <3> QED
        BY <3>1, RunnerListTypes
    <2>3. replicaSet' \in ReplicaSets /\ runners' \in RunnerLists /\ pending' \in BOOLEAN
      BY <1>4, <2>1, <2>2 DEF ReconcileDelete, WriteRunners, Exists
    <2>4. faults' \in 0..MaxFaults
      BY <1>4, FaultTypes DEF ReconcileDelete
    <2>5. pc' \in {"idle", "status"} /\ queued' \in BOOLEAN
      BY <1>4 DEF ReconcileDelete
    <2>6. UNCHANGED <<current, set, cachedSet, cachedRunners, items, edits>>
      BY <1>4 DEF ReconcileDelete
    <2> QED
      BY <2>3, <2>4, <2>5, <2>6 DEF Counted
  <1>5. CASE ReconcileStatus
    <2>1. faults' \in 0..MaxFaults
      BY <1>5, FaultTypes DEF ReconcileStatus, UpdateAccepted, UpdateRefused
    <2>2. pc' = "idle" /\ queued' \in BOOLEAN
      BY <1>5 DEF ReconcileStatus, UpdateAccepted, UpdateRefused
    <2>3. current' \subseteq Copies /\ set' \in ReplicaSets
      BY <1>5 DEF ReconcileStatus, NewVersion
    <2>4. UNCHANGED <<cachedSet, apiRunners, cachedRunners, replicaSet, items, edits>>
      BY <1>5 DEF ReconcileStatus
    <2> QED
      BY <2>1, <2>2, <2>3, <2>4 DEF Counted
  <1>6. CASE ReconcileUpdate
    <2>1. \A r \in Runners : /\ [runners EXCEPT ![r].spec = replicaSet.template] \in RunnerLists
                             /\ [items EXCEPT ![r].spec = replicaSet.template] \in RunnerLists
      BY RunnerListTypes DEF ReplicaSets
    <2>2. \A r \in Undesired : r \in Runners
      BY DEF Undesired, Live
    <2>3. Live(items') = Live(items)
      <3>1. CASE UNCHANGED items
        BY <3>1
      <3>2. ASSUME NEW r \in Runners, items' = [items EXCEPT ![r].spec = replicaSet.template]
            PROVE  Live(items') = Live(items)
        BY <3>2 DEF Live, RunnerLists
      <3> QED
        BY <1>6, <2>2, <3>1, <3>2 DEF ReconcileUpdate
    <2>4. Counted'
      <3>1. actual' = actual /\ desired' = desired /\ pc' # "delete"
        BY <1>6, <2>3 DEF actual, desired, ReconcileUpdate, Live
      <3> QED
        BY <1>6, <3>1 DEF Counted, ReconcileUpdate
    <2>5. items' \in RunnerLists /\ runners' \in RunnerLists /\ pending' \in BOOLEAN
      BY <1>6, <2>1, <2>2 DEF ReconcileUpdate, WriteRunners
    <2>6. faults' \in 0..MaxFaults
      BY <1>6, FaultTypes DEF ReconcileUpdate
    <2>7. pc' \in {"idle", "update"} /\ queued' \in BOOLEAN
      BY <1>6 DEF ReconcileUpdate
    <2>8. UNCHANGED <<current, set, cachedSet, cachedRunners, replicaSet, edits>>
      BY <1>6 DEF ReconcileUpdate
    <2> QED
      BY <2>4, <2>5, <2>6, <2>7, <2>8
  <1> QED
    BY <1>1, <1>2, <1>3, <1>4, <1>5, <1>6, <1>2a DEF Reconcile

\* A step of anyone else keeps the types.
LEMMA EnvironmentTypes ==
  ASSUME TypeOK, Counted,
         Restart \/ SetEvent \/ RunnerEvent \/ EditSet \/ DeleteRunner \/ RunnerRemoved \/ CollectSet
  PROVE  TypeOK' /\ Counted'
  <1> USE DEF TypeOK, ControllerTypeOK, Labels, Copies, apiRunners, reconcileVars
  <1>0. 0 \in Templates /\ MaxEdits \in Nat /\ MaxFaults \in Nat /\ MaxTemplate \in Nat
    BY ReplicaSetBounds, FaultBound DEF Templates
  <1>1. \A r \in Runners : /\ [runners EXCEPT ![r].phase = "deleting"] \in RunnerLists
                           /\ [runners EXCEPT ![r] = NoRunner] \in RunnerLists
    BY <1>0, RunnerListTypes
  <1>2. \A r \in Live(runners) : r \in Runners
    BY DEF Live
  <1>3. UNCHANGED <<pc, items, replicaSet>> => Counted'
    BY DEF Counted, actual, desired, Live
  <1>4. CASE Restart
    <2>1. faults' \in 0..MaxFaults
      BY <1>4, FaultTypes DEF Restart
    <2> QED
      BY <1>4, <2>1 DEF Restart, Counted
  <1>5. CASE SetEvent \/ RunnerEvent
    BY <1>3, <1>5 DEF SetEvent, RunnerEvent, CacheUpToDate
  <1>6. CASE EditSet
    <2>1. \A n \in 0..MaxReplicas : [set EXCEPT !.replicas = n] \in ReplicaSets
      BY DEF ReplicaSets
    <2>2. set.template < MaxTemplate => [set EXCEPT !.template = @ + 1] \in ReplicaSets
      BY <1>0 DEF ReplicaSets, Templates
    <2>3. [set EXCEPT !.phase = "deleting"] \in ReplicaSets
      BY DEF ReplicaSets, Phases
    <2>4. set' \in ReplicaSets
      BY <1>6, <2>1, <2>2, <2>3 DEF EditSet
    <2>5. edits' \in 0..MaxEdits
      BY <1>0, <1>6 DEF EditSet
    <2> QED
      BY <1>3, <1>6, <2>4, <2>5 DEF EditSet, NewVersion
  <1>7. CASE DeleteRunner
    <2>1. edits' \in 0..MaxEdits
      BY <1>0, <1>7 DEF DeleteRunner
    <2>2. runners' \in RunnerLists /\ pending' \in BOOLEAN
      BY <1>1, <1>2, <1>7 DEF DeleteRunner, WriteRunners
    <2> QED
      BY <1>3, <1>7, <2>1, <2>2 DEF DeleteRunner
  <1>8. CASE RunnerRemoved
    BY <1>1, <1>3, <1>8 DEF RunnerRemoved, WriteRunners
  <1>9. CASE CollectSet
    <2>1. [set EXCEPT !.phase = "absent"] \in ReplicaSets
      BY DEF ReplicaSets, Phases
    <2> QED
      BY <1>1, <1>2, <1>3, <1>9, <2>1 DEF CollectSet, WriteRunners, NewVersion
  <1> QED
    BY <1>4, <1>5, <1>6, <1>7, <1>8, <1>9

\* Type correctness for any number of ARs: Status.Replicas, which the code computes as the
\* number of listed ARs plus or minus one, never wraps around.
THEOREM TypeCorrect == Spec => [](TypeOK /\ Counted)
  <1>1. Init => TypeOK /\ Counted
    BY TypeInit
  <1>2. TypeOK /\ Counted /\ [Next]_vars => (TypeOK /\ Counted)'
    <2>1. TypeOK /\ Counted /\ UNCHANGED vars => (TypeOK /\ Counted)'
      BY DEF vars, controllerVars, TypeOK, ControllerTypeOK, Counted, actual, desired, Live
    <2> QED
      BY <2>1, ReconcileTypes, EnvironmentTypes DEF Next
  <1> QED
    BY <1>1, <1>2, PTL DEF Spec

-----------------------------------------------------------------------------
(* No change goes unnoticed.                                               *)

\* A cache without events on their way to it shows the truth.
CachesTrue ==
    /\ ~pending => cachedRunners = runners
    /\ "cache" \in current => cachedSet = set

\* The copy of the ARRS that Reconcile holds asks for what the ARRS asks for while it is up
\* to date, and when it is older than the copy in the cache a request is queued.
CopyTrue ==
    pc # "idle" =>
        /\ "reconcile" \in current => /\ replicaSet.replicas = set.replicas
                                      /\ replicaSet.template = set.template
        /\ "cache" \in current /\ ~queued => "reconcile" \in current

\* The list that Reconcile updates is the truth until an event is on its way or queued.
ListTrue == pc = "update" /\ ~queued /\ ~pending => items = runners

\* The status that Reconcile is about to write is new, or an AR is being deleted, unless an
\* event is on its way or queued: the reconciliation does not end unnoticed.
StatusTold ==
    pc = "status" /\ ~queued /\ ~pending /\ "cache" \in current =>
        (~set.selector /\ replicaSet.selector) \/ Exists(runners) # Live(runners)

\* The inductive invariant of the reconciler
RestInv == TypeOK /\ Counted /\ CachesTrue /\ CopyTrue /\ ListTrue /\ StatusTold /\ RestsOnlyConverged

\* A write that leaves no event on its way has changed nothing.
LEMMA SilentWrite ==
  ASSUME NEW list, WriteRunners(list), ~pending'
  PROVE  ~pending /\ runners' = runners /\ list = runners
  BY DEF WriteRunners

\* A step that changes the ARs only, and tells the informer, keeps the invariant.
LEMMA RunnersChange ==
  ASSUME RestInv,
         \E list : WriteRunners(list),
         UNCHANGED <<pc, queued, current, set, cachedSet, cachedRunners, replicaSet, items>>
  PROVE  CachesTrue' /\ CopyTrue' /\ ListTrue' /\ StatusTold' /\ RestsOnlyConverged'
  <1>1. ~pending' => ~pending /\ runners' = runners
    BY SilentWrite
  <1> USE DEF RestInv
  <1>2. CachesTrue'
    BY <1>1 DEF CachesTrue
  <1>3. CopyTrue'
    BY DEF CopyTrue
  <1>4. ListTrue'
    BY <1>1 DEF ListTrue
  <1>5. StatusTold'
    BY <1>1 DEF StatusTold, Exists, Live
  <1>6. RestsOnlyConverged'
    BY <1>1 DEF RestsOnlyConverged, Converged, Exists, Live
  <1> QED
    BY <1>2, <1>3, <1>4, <1>5, <1>6

\* A step that gives the ARRS a new version keeps the invariant.
LEMMA SetChange ==
  ASSUME RestInv, NewVersion, UNCHANGED <<apiRunners, cachedRunners>>,
         \/ UNCHANGED <<pc, queued, items>>
         \/ pc' = "idle"
  PROVE  CachesTrue' /\ CopyTrue' /\ ListTrue' /\ StatusTold' /\ RestsOnlyConverged'
  BY DEF RestInv, NewVersion, apiRunners, CachesTrue, CopyTrue, ListTrue, StatusTold,
         RestsOnlyConverged

\* The steps of Reconcile keep the invariant.
LEMMA ReconcileRests ==
  ASSUME RestInv, Reconcile
  PROVE  CachesTrue' /\ CopyTrue' /\ ListTrue' /\ StatusTold' /\ RestsOnlyConverged'
  <1> USE DEF RestInv, Return, ReturnError, Continue
  <1>1. CASE ReconcileGet
    <2> USE <1>1 DEF ReconcileGet, ReadFromCache, Copies, apiRunners
    <2>1. /\ UNCHANGED <<set, cachedSet, runners, pending, cachedRunners>>
          /\ "cache" \in current' => "cache" \in current /\ current' = Copies /\ cachedSet = set
      BY DEF CachesTrue
    <2>2. CachesTrue'
      BY <2>1 DEF CachesTrue
    <2>3. /\ replicaSet'.replicas = cachedSet.replicas
          /\ replicaSet'.template = cachedSet.template
          /\ replicaSet'.selector
      BY DEF TypeOK, ReplicaSets
    <2>4. /\ pc' \in {"idle", "status", "list"}
          /\ pc' = "idle" => cachedSet.phase # "live"
          /\ pc' = "status" => ~cachedSet.selector
      BY DEF TypeOK, ReplicaSets
    <2>5. "reconcile" \in current' => "cache" \in current'
      OBVIOUS
    <2>6. CopyTrue'
      BY <2>1, <2>3, <2>5 DEF CopyTrue
    <2>7. ListTrue' /\ StatusTold'
      BY <2>1, <2>3, <2>4 DEF ListTrue, StatusTold
    <2>8. RestsOnlyConverged'
      BY <2>1, <2>4 DEF RestsOnlyConverged
    <2> QED
      BY <2>2, <2>6, <2>7, <2>8
  <1>2. CASE ReconcileList
    <2>1. /\ pc = "list"
          /\ \/ pc' \in {"create", "delete", "update"} /\ items' = cachedRunners /\ UNCHANGED queued
             \/ pc' = "idle" /\ queued'
          /\ UNCHANGED <<current, set, cachedSet, runners, pending, cachedRunners, replicaSet>>
      BY <1>2 DEF ReconcileList, apiRunners
    <2> QED
      BY <2>1 DEF CachesTrue, CopyTrue, ListTrue, StatusTold, RestsOnlyConverged
  <1>3. CASE ReconcileCreate
    <2>1. ASSUME NEW r \in Runners, r \notin Exists(runners),
                 WriteRunners([runners EXCEPT ![r] = desiredActionsRunner])
          PROVE  pending'
      <3>1. [runners EXCEPT ![r] = desiredActionsRunner] # runners
        BY <2>1 DEF Exists, TypeOK, RunnerLists, desiredActionsRunner
      <3> QED
        BY <3>1, <2>1 DEF WriteRunners
    <2>2. \/ pc' = "status" /\ pending' /\ UNCHANGED queued
          \/ pc' = "idle" /\ queued' /\ UNCHANGED apiRunners
      BY <1>3, <2>1 DEF ReconcileCreate
    <2>3. replicaSet'.replicas = replicaSet.replicas /\ replicaSet'.template = replicaSet.template
      BY <1>3 DEF ReconcileCreate, TypeOK, ReplicaSets
    <2>4. pc = "create" /\ UNCHANGED <<current, set, cachedSet, cachedRunners>>
      BY <1>3 DEF ReconcileCreate
    <2> QED
      BY <2>2, <2>3, <2>4 DEF apiRunners, CachesTrue, CopyTrue, ListTrue, StatusTold, RestsOnlyConverged
  <1>4. CASE ReconcileDelete
    <2>1. ASSUME NEW r \in Runners, runners[r].phase # "absent",
                 WriteRunners([runners EXCEPT ![r].phase = "deleting"])
          PROVE  Exists(runners') # Live(runners')
      BY <2>1 DEF WriteRunners, TypeOK, RunnerLists, Exists, Live
    <2>2. /\ ~pending' => ~pending /\ runners' = runners
          /\ \/ pc' = "status" /\ Exists(runners') # Live(runners') /\ UNCHANGED queued
             \/ pc' = "idle" /\ queued' /\ UNCHANGED apiRunners
      <3>1. CASE UNCHANGED apiRunners /\ ReturnError
        BY <3>1 DEF apiRunners
      <3>2. ASSUME NEW r \in Exists(items), runners[r].phase # "absent",
                   WriteRunners([runners EXCEPT ![r].phase = "deleting"]), Continue("status")
            PROVE  /\ ~pending' => ~pending /\ runners' = runners
                   /\ pc' = "status" /\ Exists(runners') # Live(runners') /\ UNCHANGED queued
        <4>1. r \in Runners
          BY DEF Exists
        <4>2. ~pending' => ~pending /\ runners' = runners
          BY <3>2, SilentWrite
        <4>3. Exists(runners') # Live(runners')
          BY <2>1, <3>2, <4>1
        <4> QED
          BY <3>2, <4>2, <4>3
      <3> QED
        BY <1>4, <3>1, <3>2 DEF ReconcileDelete
    <2>3. replicaSet'.replicas = replicaSet.replicas /\ replicaSet'.template = replicaSet.template
      BY <1>4 DEF ReconcileDelete, TypeOK, ReplicaSets
    <2>4. pc = "delete" /\ UNCHANGED <<current, set, cachedSet, cachedRunners>>
      BY <1>4 DEF ReconcileDelete
    <2>5. CachesTrue' /\ CopyTrue' /\ ListTrue' /\ RestsOnlyConverged'
      BY <2>2, <2>3, <2>4 DEF CachesTrue, CopyTrue, ListTrue, RestsOnlyConverged
    <2>6. StatusTold'
      BY <2>2 DEF StatusTold, Exists, Live
    <2> QED
      BY <2>5, <2>6
  <1>5. CASE ReconcileStatus
    <2>1. /\ pc = "status" /\ pc' = "idle"
          /\ UNCHANGED <<cachedSet, apiRunners, cachedRunners, replicaSet, items>>
      BY <1>5 DEF ReconcileStatus, UpdateAccepted, UpdateRefused
    <2>2. CASE NewVersion
      BY <2>1, <2>2, SetChange
    <2>3. CASE UNCHANGED <<set, current>>
      <3>1. CachesTrue' /\ CopyTrue' /\ ListTrue' /\ StatusTold'
        BY <2>1, <2>3 DEF apiRunners, CachesTrue, CopyTrue, ListTrue, StatusTold
      <3>2. queued' \/ set.phase = "absent" \/ (set = replicaSet /\ UNCHANGED queued)
        BY <1>5, <2>3 DEF ReconcileStatus, UpdateAccepted, UpdateRefused
      <3>3. RestsOnlyConverged'
        BY <2>1, <2>3, <3>2 DEF apiRunners, RestsOnlyConverged, StatusTold, Exists, Live
      <3> QED
        BY <3>1, <3>3
    <2> QED
      BY <1>5, <2>2, <2>3 DEF ReconcileStatus
  <1>6. CASE ReconcileUpdate
    <2>1. pc = "update" /\ UNCHANGED <<current, set, cachedSet, cachedRunners, replicaSet>>
      BY <1>6 DEF ReconcileUpdate
    <2>2. CASE Undesired = {} /\ Return /\ UNCHANGED <<apiRunners, items>>
      <3>1. CachesTrue' /\ CopyTrue' /\ ListTrue' /\ StatusTold'
        BY <2>1, <2>2 DEF apiRunners, CachesTrue, CopyTrue, ListTrue, StatusTold
      <3>2. ASSUME ~queued, ~pending, "cache" \in current
            PROVE  Converged
        <4>1. items = runners /\ replicaSet.replicas = set.replicas
              /\ replicaSet.template = set.template
          BY <2>1, <3>2 DEF ListTrue, CopyTrue
        <4>2. Cardinality(Live(runners)) = set.replicas
          BY <2>1, <4>1 DEF Counted, actual, desired
        <4>3. \A r \in Live(runners) : runners[r].spec = set.template
          BY <2>2, <4>1 DEF Undesired
        <4> QED
          BY <4>2, <4>3 DEF Converged
      <3>3. Converged => Converged'
        BY <2>1, <2>2 DEF apiRunners, Converged, Live
      <3>4. RestsOnlyConverged'
        BY <2>1, <2>2, <3>2, <3>3 DEF apiRunners, RestsOnlyConverged
      <3> QED
        BY <3>1, <3>4
    <2>3. CASE ReturnError /\ UNCHANGED <<apiRunners, items>>
      BY <2>1, <2>3 DEF apiRunners, CachesTrue, CopyTrue, ListTrue, StatusTold, RestsOnlyConverged
    <2>4. ASSUME NEW r \in Undesired,
                 runners[r].phase = "absent" \/ runners[r] = items[r],
                 WriteRunners(IF runners[r].phase = "absent" THEN runners
                              ELSE [runners EXCEPT ![r].spec = replicaSet.template]),
                 Continue("update")
          PROVE  CachesTrue' /\ CopyTrue' /\ ListTrue' /\ StatusTold' /\ RestsOnlyConverged'
      <3>1. ~pending' => ~pending /\ runners' = runners
        BY <2>4, SilentWrite
      <3>2. CachesTrue' /\ CopyTrue' /\ StatusTold' /\ RestsOnlyConverged'
        BY <2>1, <2>4, <3>1 DEF CachesTrue, CopyTrue, StatusTold, RestsOnlyConverged
      <3>3. ASSUME ~queued', ~pending'
            PROVE  FALSE
        <4>1. items = runners /\ r \in Runners /\ items[r].phase = "live"
              /\ items[r].spec # replicaSet.template
          BY <2>1, <2>4, <3>1, <3>3 DEF ListTrue, Undesired, Live
        <4>2. [runners EXCEPT ![r].spec = replicaSet.template] = runners
          BY <2>4, <3>3, <4>1, SilentWrite
        <4>3. [runners EXCEPT ![r].spec = replicaSet.template][r].spec = replicaSet.template
          BY <4>1 DEF TypeOK, RunnerLists
        <4> QED
          BY <4>1, <4>2, <4>3
      <3>4. ListTrue'
        BY <3>3 DEF ListTrue
      <3> QED
        BY <3>2, <3>4
    <2> QED
      BY <1>6, <2>2, <2>3, <2>4 DEF ReconcileUpdate
  <1> QED
    BY <1>1, <1>2, <1>3, <1>4, <1>5, <1>6 DEF Reconcile

\* The steps of the informers, of users and of Kubernetes keep it too.
LEMMA EnvironmentRests ==
  ASSUME RestInv,
         Restart \/ SetEvent \/ RunnerEvent \/ EditSet \/ DeleteRunner \/ RunnerRemoved \/ CollectSet
  PROVE  CachesTrue' /\ CopyTrue' /\ ListTrue' /\ StatusTold' /\ RestsOnlyConverged'
  <1> USE DEF reconcileVars
  <1>1. CASE Restart
    BY <1>1 DEF Restart, CachesTrue, CopyTrue, ListTrue, StatusTold, RestsOnlyConverged
  <1>2. CASE SetEvent
    BY <1>2 DEF RestInv, SetEvent, CacheUpToDate, apiRunners, CachesTrue, CopyTrue, ListTrue,
                StatusTold, RestsOnlyConverged
  <1>3. CASE RunnerEvent
    BY <1>3 DEF RestInv, RunnerEvent, CachesTrue, CopyTrue, ListTrue, StatusTold, RestsOnlyConverged
  <1>4. CASE EditSet
    BY <1>4, SetChange DEF EditSet
  <1>5. CASE DeleteRunner
    BY <1>5, RunnersChange DEF DeleteRunner
  <1>6. CASE RunnerRemoved
    BY <1>6, RunnersChange DEF RunnerRemoved
  <1>7. CASE CollectSet
    BY <1>7, RunnersChange, SetChange DEF CollectSet
  <1> QED
    BY <1>1, <1>2, <1>3, <1>4, <1>5, <1>6, <1>7

\* No change goes unnoticed, for any number of ARs, replicas, edits, failures and restarts:
\* a reconciler at rest with caches that show the truth has converged or waits for a
\* deletion to end.
THEOREM ChangesNoticed == Spec => []RestsOnlyConverged
  <1>1. Init => RestInv
    <2> SUFFICES ASSUME Init
                 PROVE  RestInv
      OBVIOUS
    <2>1. TypeOK /\ Counted
      BY TypeInit
    <2> QED
      BY <2>1 DEF Init, ControllerInit, RestInv, CachesTrue, CopyTrue, ListTrue, StatusTold,
                  RestsOnlyConverged
  <1>2. RestInv /\ [Next]_vars => RestInv'
    <2> SUFFICES ASSUME RestInv, [Next]_vars
                 PROVE  RestInv'
      OBVIOUS
    <2>1. CASE Reconcile
      BY <2>1, ReconcileTypes, ReconcileRests DEF RestInv
    <2>2. CASE Restart \/ SetEvent \/ RunnerEvent \/ EditSet \/ DeleteRunner \/ RunnerRemoved
               \/ CollectSet
      BY <2>2, EnvironmentTypes, EnvironmentRests DEF RestInv
    <2>3. CASE UNCHANGED vars
      BY <2>3 DEF vars, controllerVars, RestInv, TypeOK, ControllerTypeOK, Counted, actual, desired,
                  Live, Exists, CachesTrue, CopyTrue, ListTrue, StatusTold, RestsOnlyConverged,
                  Converged
    <2> QED
      BY <2>1, <2>2, <2>3 DEF Next
  <1>3. RestInv => RestsOnlyConverged
    BY DEF RestInv
  <1> QED
    BY <1>1, <1>2, <1>3, PTL DEF Spec

=============================================================================
