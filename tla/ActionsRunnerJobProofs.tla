----------------------- MODULE ActionsRunnerJobProofs -----------------------
(***************************************************************************)
(* Proofs about ActionsRunnerJob for any number of jobs, disruptions,      *)
(* failures and restarts.                                                  *)
(***************************************************************************)
EXTENDS ActionsRunnerJob, TLAPS

-----------------------------------------------------------------------------
(* Type correctness.                                                       *)

\* A failure uses up one of those that are left.
LEMMA FaultTypes ==
  ASSUME faults \in 0..MaxFaults, Fault \/ UNCHANGED faults
  PROVE  faults' \in 0..MaxFaults
  BY FaultBound DEF Fault

\* A user's step uses up one of those that are left.
LEMMA EditTypes ==
  ASSUME edits \in 0..MaxEdits, (edits > 0 /\ edits' = edits - 1) \/ UNCHANGED edits
  PROVE  edits' \in 0..MaxEdits
  BY JobBounds

\* What does not exist has the types of a claim and of a pod.
LEMMA ZeroTypes == 0 \in Uids /\ Zero \in Owned(ClaimPhases) /\ Zero \in Owned(PodPhases)
  <1>1. 0 \in Uids
    BY JobBounds DEF Uids
  <1> QED
    BY <1>1 DEF Zero, Owned, ClaimPhases, PodPhases

\* What the changes make of a claim or a pod is a claim or a pod.
LEMMA ObjectTypes ==
  ASSUME NEW phases, NEW object \in Owned(phases), object # Zero, NEW phase \in phases
  PROVE  /\ [object EXCEPT !.deleting = TRUE] \in Owned(phases)
         /\ [object EXCEPT !.phase = phase] \in Owned(phases)
  BY DEF Owned

\* A write of a claim keeps the types of what it changes.
LEMMA ClaimWriteTypes ==
  ASSUME TypeOK, NEW c \in Owned(ClaimPhases), WriteClaim(c)
  PROVE  /\ claim' \in Owned(ClaimPhases) /\ pending' \subseteq {"claim", "pod"}
         /\ UNCHANGED <<job, pod, ran>>
  BY DEF WriteClaim, TypeOK

\* A write of a pod keeps the types of what it changes.
LEMMA PodWriteTypes ==
  ASSUME TypeOK, NEW p \in Owned(PodPhases), WritePod(p)
  PROVE  /\ pod' \in Owned(PodPhases) /\ pending' \subseteq {"claim", "pod"}
         /\ ran' \in [Uids -> SUBSET PodPhases]
         /\ UNCHANGED <<job, claim>>
  <1>1. p.owner \in Uids /\ p.phase \in PodPhases
    BY DEF Owned
  <1>2. ran' \in [Uids -> SUBSET PodPhases]
    <2>1. ran[p.owner] \cup {p.phase} \in SUBSET PodPhases
      BY <1>1 DEF TypeOK
    <2> QED
      BY <1>1, <2>1 DEF WritePod, TypeOK
  <1> QED
    BY <1>2 DEF WritePod, TypeOK

\* The objects in the API server and the events on their way, of the types of TypeOK
ObjectsTyped ==
    /\ job \in ARJs /\ claim \in Owned(ClaimPhases) /\ pod \in Owned(PodPhases)
    /\ pending \subseteq {"claim", "pod"}
    /\ ran \in [Uids -> SUBSET PodPhases]

\* The initial state has the types.
LEMMA TypeInit == Init => TypeOK
  <1> SUFFICES ASSUME Init
               PROVE  TypeOK
    OBVIOUS
  <1>1. job \in ARJs
    BY ZeroTypes DEF Init, ARJs, ClaimPhases, PodPhases
  <1>2. faults \in 0..MaxFaults /\ edits \in 0..MaxEdits
    <2>1. faults = MaxFaults /\ edits = MaxEdits
      BY DEF Init, ControllerInit
    <2> QED
      BY <2>1, FaultBound, JobBounds
  <1>3. pc = "idle" /\ queued = TRUE /\ current = {"cache"}
    BY DEF Init, ControllerInit
  <1>4. ran \in [Uids -> SUBSET PodPhases]
    BY DEF Init
  <1> QED
    BY <1>1, <1>2, <1>3, <1>4, ZeroTypes DEF Init, TypeOK, ControllerTypeOK, Labels, Copies

\* The steps of Reconcile keep the types.
LEMMA ReconcileTypes ==
  ASSUME TypeOK, Reconcile
  PROVE  TypeOK'
  <1> USE DEF Return, ReturnError, Continue
  <1>1. UNCHANGED <<objectVars, pending, ran>> => ObjectsTyped'
    BY DEF TypeOK, ObjectsTyped, objectVars
  <1>2. pc # "idle" => copy.uid \in Uids /\ copy.uid # 0
    BY DEF TypeOK, ARJs
  <1>3. CASE ReconcileGet
    <2>1. ObjectsTyped'
      BY <1>1, <1>3 DEF ReconcileGet
    <2>2. current' \subseteq Copies /\ pc' \in Labels /\ queued' \in BOOLEAN
      BY <1>3 DEF ReconcileGet, ReadFromCache, Labels
    <2> QED
      BY <1>3, <2>1, <2>2 DEF ReconcileGet, TypeOK, ControllerTypeOK, ObjectsTyped, reconcileFrame, cacheVars
  <1>4. CASE ReconcileClaim
    <2>1. ObjectsTyped'
      <3>1. ToPersistentVolumeClaim(copy.uid) \in Owned(ClaimPhases)
        BY <1>2, <1>4 DEF ReconcileClaim, ToPersistentVolumeClaim, Owned, ClaimPhases
      <3>2. CASE WriteClaim(ToPersistentVolumeClaim(copy.uid))
        BY <3>1, <3>2, ClaimWriteTypes DEF ObjectsTyped, TypeOK
      <3> QED
        BY <1>1, <1>4, <3>2 DEF ReconcileClaim
    <2>2. copy' \in ARJs
      <3>1. [copy EXCEPT !.claimPhase = cachedClaim.phase] \in ARJs
        BY DEF TypeOK, ARJs, Owned
      <3> QED
        BY <1>4, <3>1 DEF ReconcileClaim, AfterClaim, TypeOK
    <2>6. copy'.phase = "live"
      BY <1>4 DEF ReconcileClaim, AfterClaim, TypeOK, ARJs
    <2>3. pc' \in Labels /\ queued' \in BOOLEAN
      BY <1>4 DEF ReconcileClaim, AfterClaim, Labels, TypeOK, ControllerTypeOK
    <2>4. faults' \in 0..MaxFaults
      BY <1>4, FaultTypes DEF ReconcileClaim, TypeOK, ControllerTypeOK
    <2>5. UNCHANGED <<current, reconcileFrame>>
      BY <1>4 DEF ReconcileClaim
    <2> QED
      BY <2>1, <2>2, <2>3, <2>4, <2>5, <2>6 DEF TypeOK, ControllerTypeOK, ObjectsTyped, reconcileFrame, cacheVars
  <1>5. CASE ReconcileDeleteClaim
    <2>1. ObjectsTyped'
      <3>1. /\ Zero \in Owned(ClaimPhases)
            /\ claim # Zero => [claim EXCEPT !.deleting = TRUE] \in Owned(ClaimPhases)
        BY ZeroTypes, ObjectTypes DEF TypeOK, ClaimPhases
      <3>2. ASSUME NEW c \in Owned(ClaimPhases), WriteClaim(c)
            PROVE  ObjectsTyped'
        BY <3>2, ClaimWriteTypes DEF ObjectsTyped, TypeOK
      <3> QED
        BY <1>1, <1>5, <3>1, <3>2 DEF ReconcileDeleteClaim
    <2>2. pc' = "idle" /\ queued' \in BOOLEAN
      BY <1>5 DEF ReconcileDeleteClaim, TypeOK, ControllerTypeOK
    <2>3. faults' \in 0..MaxFaults
      BY <1>5, FaultTypes DEF ReconcileDeleteClaim, TypeOK, ControllerTypeOK
    <2>4. UNCHANGED <<current, copy, reconcileFrame>>
      BY <1>5 DEF ReconcileDeleteClaim
    <2> QED
      BY <2>1, <2>2, <2>3, <2>4 DEF TypeOK, ControllerTypeOK, Labels, ObjectsTyped, reconcileFrame, cacheVars
  <1>6. CASE ReconcilePod
    <2>1. ObjectsTyped'
      <3>1. ToPod(copy.uid) \in Owned(PodPhases)
        BY <1>2, <1>6 DEF ReconcilePod, ToPod, Owned, PodPhases
      <3>2. CASE WritePod(ToPod(copy.uid))
        BY <3>1, <3>2, PodWriteTypes DEF ObjectsTyped, TypeOK
      <3> QED
        BY <1>1, <1>6, <3>2 DEF ReconcilePod
    <2>2. copy' \in ARJs
      <3>1. [copy EXCEPT !.podPhase = cachedPod.phase] \in ARJs
        BY DEF TypeOK, ARJs, Owned
      <3> QED
        BY <1>6, <3>1 DEF ReconcilePod, AfterPod, TypeOK
    <2>6. copy'.phase = "live"
      BY <1>6 DEF ReconcilePod, AfterPod, TypeOK, ARJs
    <2>3. pc' \in Labels /\ queued' \in BOOLEAN
      BY <1>6 DEF ReconcilePod, AfterPod, Labels, TypeOK, ControllerTypeOK
    <2>4. faults' \in 0..MaxFaults
      BY <1>6, FaultTypes DEF ReconcilePod, TypeOK, ControllerTypeOK
    <2>5. UNCHANGED <<current, reconcileFrame>>
      BY <1>6 DEF ReconcilePod
    <2> QED
      BY <2>1, <2>2, <2>3, <2>4, <2>5, <2>6 DEF TypeOK, ControllerTypeOK, ObjectsTyped, reconcileFrame, cacheVars
  <1>7. CASE ReconcileDeletePod
    <2>1. ObjectsTyped'
      <3>1. /\ Zero \in Owned(PodPhases)
            /\ pod # Zero => [pod EXCEPT !.deleting = TRUE] \in Owned(PodPhases)
        BY ZeroTypes, ObjectTypes DEF TypeOK, PodPhases
      <3>2. ASSUME NEW p \in Owned(PodPhases), WritePod(p)
            PROVE  ObjectsTyped'
        BY <3>2, PodWriteTypes DEF ObjectsTyped, TypeOK
      <3> QED
        BY <1>1, <1>7, <3>1, <3>2 DEF ReconcileDeletePod
    <2>2. pc' = "idle" /\ queued' \in BOOLEAN
      BY <1>7 DEF ReconcileDeletePod, TypeOK, ControllerTypeOK
    <2>3. faults' \in 0..MaxFaults
      BY <1>7, FaultTypes DEF ReconcileDeletePod, TypeOK, ControllerTypeOK
    <2>4. UNCHANGED <<current, copy, reconcileFrame>>
      BY <1>7 DEF ReconcileDeletePod
    <2> QED
      BY <2>1, <2>2, <2>3, <2>4 DEF TypeOK, ControllerTypeOK, Labels, ObjectsTyped, reconcileFrame, cacheVars
  <1>8. CASE ReconcileStatus
    <2>1. job' \in ARJs /\ current' \subseteq Copies
      BY <1>8 DEF ReconcileStatus, NewVersion, TypeOK, ControllerTypeOK
    <2>2. pc' = "idle" /\ queued' \in BOOLEAN
      BY <1>8 DEF ReconcileStatus, UpdateAccepted, UpdateRefused, TypeOK, ControllerTypeOK
    <2>3. faults' \in 0..MaxFaults
      BY <1>8, FaultTypes DEF ReconcileStatus, UpdateAccepted, UpdateRefused, TypeOK, ControllerTypeOK
    <2>4. UNCHANGED <<claim, pod, pending, ran, copy, reconcileFrame>>
      BY <1>8 DEF ReconcileStatus
    <2> QED
      BY <2>1, <2>2, <2>3, <2>4 DEF TypeOK, ControllerTypeOK, Labels, reconcileFrame, cacheVars
  <1> QED
    BY <1>3, <1>4, <1>5, <1>6, <1>7, <1>8 DEF Reconcile

\* Restarts and events keep the types.
LEMMA EventTypes ==
  ASSUME TypeOK, Restart \/ JobEvent \/ ClaimEvent \/ PodEvent
  PROVE  TypeOK'
  <1> USE DEF TypeOK, ControllerTypeOK, Labels, Copies, objectVars
  <1>1. CASE Restart
    <2>1. faults' \in 0..MaxFaults
      BY <1>1, FaultTypes DEF Restart
    <2> QED
      BY <1>1, <2>1 DEF Restart
  <1>2. CASE JobEvent
    BY <1>2 DEF JobEvent, CacheUpToDate, eventFrame
  <1>3. CASE ClaimEvent
    BY <1>3 DEF ClaimEvent, eventFrame
  <1>4. CASE PodEvent
    BY <1>4 DEF PodEvent, eventFrame
  <1> QED
    BY <1>1, <1>2, <1>3, <1>4

\* A step of Kubernetes or of a user that changes a claim or a pod
ObjectStep ==
    /\ (\E c \in Owned(ClaimPhases) : WriteClaim(c)) \/ (\E p \in Owned(PodPhases) : WritePod(p))
    /\ (edits > 0 /\ edits' = edits - 1) \/ UNCHANGED edits
    /\ UNCHANGED <<worldFrame, current, runner>>

\* The steps of Kubernetes and of users that do not change the ARJ are such steps.
LEMMA ObjectSteps ==
  ASSUME TypeOK, Collect \/ Removed \/ ClaimBound \/ PodStarts \/ PodEnds \/ Disruption
  PROVE  ObjectStep
  <1>1. /\ Zero \in Owned(ClaimPhases)
        /\ claim # Zero =>
              /\ [claim EXCEPT !.deleting = TRUE] \in Owned(ClaimPhases)
              /\ [claim EXCEPT !.phase = "Bound"] \in Owned(ClaimPhases)
              /\ [claim EXCEPT !.phase = "Lost"] \in Owned(ClaimPhases)
    BY ZeroTypes, ObjectTypes DEF TypeOK, ClaimPhases
  <1>2. /\ Zero \in Owned(PodPhases)
        /\ pod # Zero =>
              /\ [pod EXCEPT !.deleting = TRUE] \in Owned(PodPhases)
              /\ [pod EXCEPT !.phase = "Running"] \in Owned(PodPhases)
              /\ [pod EXCEPT !.phase = "Unknown"] \in Owned(PodPhases)
              /\ [pod EXCEPT !.phase = "Ended"] \in Owned(PodPhases)
    BY ZeroTypes, ObjectTypes DEF TypeOK, PodPhases
  <1>2a. Zero.phase = ""
    BY DEF Zero
  <1>3. CASE Collect
    BY <1>1, <1>2, <1>3 DEF Collect, Orphaned, ObjectStep
  <1>4. CASE Removed
    BY <1>1, <1>2, <1>4 DEF Removed, ObjectStep
  <1>5. CASE ClaimBound
    BY <1>1, <1>5, <1>2a DEF ClaimBound, ObjectStep
  <1>6. CASE PodStarts
    BY <1>2, <1>6, <1>2a DEF PodStarts, ObjectStep
  <1>7. CASE PodEnds
    BY <1>2, <1>7, <1>2a DEF PodEnds, ObjectStep
  <1>8. CASE Disruption
    BY <1>1, <1>2, <1>8, <1>2a DEF Disruption, ObjectStep
  <1> QED
    BY <1>3, <1>4, <1>5, <1>6, <1>7, <1>8

\* A step of anyone else that changes the ARJ
JobStep ==
    /\ job' \in ARJs
    /\ NewVersion
    /\ runner' \in {runner, "deleting"}
    /\ (edits > 0 /\ edits' = edits - 1) \/ UNCHANGED edits
    /\ UNCHANGED <<worldFrame, claim, pod, pending, ran>>

\* The steps of the AR's reconciler, of users and of Kubernetes that change the ARJ are such
\* steps.
LEMMA JobSteps ==
  ASSUME TypeOK, CreateJob \/ DeleteJob \/ JobRemoved
  PROVE  JobStep
  <1>1. CASE CreateJob
    <2>1. job.uid + 1 \in Uids /\ job.uid + 1 # 0
      <3>1. job.uid \in Uids /\ job.uid < MaxJobs
        BY <1>1 DEF CreateJob, TypeOK, ARJs
      <3> QED
        BY <3>1, JobBounds DEF Uids
    <2>2. [uid |-> job.uid + 1, phase |-> "live", claimPhase |-> "", podPhase |-> ""] \in ARJs
      BY <2>1 DEF ARJs, ClaimPhases, PodPhases
    <2> QED
      BY <1>1, <2>2 DEF CreateJob, JobStep
  <1>2. CASE DeleteJob
    <2>1. [job EXCEPT !.phase = "deleting"] \in ARJs
      BY <1>2 DEF DeleteJob, TypeOK, ARJs
    <2> QED
      BY <1>2, <2>1 DEF DeleteJob, JobStep
  <1>3. CASE JobRemoved
    <2>1. [job EXCEPT !.phase = "absent", !.claimPhase = "", !.podPhase = ""] \in ARJs
      BY DEF TypeOK, ARJs, ClaimPhases, PodPhases
    <2> QED
      BY <1>3, <2>1 DEF JobRemoved, JobStep
  <1> QED
    BY <1>1, <1>2, <1>3

\* The steps of the environment keep the types.
LEMMA EnvironmentTypes ==
  ASSUME TypeOK, Environment
  PROVE  TypeOK'
  <1> USE DEF worldFrame, cacheVars
  <1>1. CASE ObjectStep
    <2>1. edits' \in 0..MaxEdits
      BY <1>1, EditTypes DEF ObjectStep, TypeOK
    <2>2. ObjectsTyped'
      BY <1>1, ClaimWriteTypes, PodWriteTypes DEF ObjectStep, ObjectsTyped, TypeOK
    <2>3. UNCHANGED <<worldFrame, current, runner>>
      BY <1>1 DEF ObjectStep
    <2> QED
      BY <2>1, <2>2, <2>3 DEF ObjectsTyped, TypeOK, ControllerTypeOK
  <1>2. CASE JobStep
    <2>1. edits' \in 0..MaxEdits
      BY <1>2, EditTypes DEF JobStep, TypeOK
    <2>2. /\ job' \in ARJs /\ current' \subseteq Copies /\ runner' \in {"live", "deleting"}
          /\ UNCHANGED <<worldFrame, claim, pod, pending, ran>>
      BY <1>2 DEF JobStep, NewVersion, TypeOK
    <2> QED
      BY <2>1, <2>2 DEF TypeOK, ControllerTypeOK
  <1> QED
    BY <1>1, <1>2, ObjectSteps, JobSteps DEF Environment

\* Type correctness for any number of jobs.
THEOREM TypeCorrect == Spec => []TypeOK
  <1>1. Init => TypeOK
    BY TypeInit
  <1>2. TypeOK /\ [Next]_vars => TypeOK'
    <2>1. TypeOK /\ UNCHANGED vars => TypeOK'
      BY DEF vars, controllerVars, objectVars, cacheVars, TypeOK, ControllerTypeOK
    <2> QED
      BY <2>1, ReconcileTypes, EventTypes, EnvironmentTypes DEF Next
  <1> QED
    BY <1>1, <1>2, PTL DEF Spec

-----------------------------------------------------------------------------
(* The job that the AR's reconciler sees follows JobLifecycle.             *)

\* The copy that Reconcile holds is live, and it is the ARJ while it is up to date; only the
\* phases it is about to write may differ.
CopyTrue ==
    pc # "idle" =>
        /\ copy.phase = "live"
        /\ "reconcile" \in current => /\ copy.phase = job.phase
                                      /\ pc # "status" => copy = job

\* A cache without events on their way to it shows the truth.
CachesTrue ==
    /\ "cache" \in current => cachedJob = job
    /\ "claim" \notin pending => cachedClaim = claim
    /\ "pod" \notin pending => cachedPod = pod

CopyInv == TypeOK /\ CachesTrue /\ CopyTrue

\* A write that leaves no event on its way has changed nothing.
LEMMA SilentClaim ==
  ASSUME NEW c, WriteClaim(c)
  PROVE  /\ "claim" \notin pending' => "claim" \notin pending /\ claim' = claim /\ c = claim
         /\ "pod" \in pending' <=> "pod" \in pending
         /\ UNCHANGED <<job, pod>>
  BY DEF WriteClaim

\* The same for the pod.
LEMMA SilentPod ==
  ASSUME NEW p, WritePod(p)
  PROVE  /\ "pod" \notin pending' => "pod" \notin pending /\ pod' = pod /\ p = pod
         /\ "claim" \in pending' <=> "claim" \in pending
         /\ UNCHANGED <<job, claim>>
  BY DEF WritePod

\* What a step of Reconcile may do to the claim and the pod
ObjectsWritten ==
    \/ UNCHANGED <<objectVars, pending>>
    \/ \E c : WriteClaim(c)
    \/ \E p : WritePod(p)

\* Such steps leave the ARJ alone and tell the informers.
LEMMA WritesTold ==
  ASSUME CachesTrue, ObjectsWritten, UNCHANGED <<current, cacheVars>>
  PROVE  CachesTrue' /\ UNCHANGED job
  BY SilentClaim, SilentPod DEF ObjectsWritten, CachesTrue, objectVars, cacheVars

\* The initial state is one in which the caches and the copy are true.
LEMMA CopyInit == Init => CopyInv
  BY TypeInit DEF Init, ControllerInit, CopyInv, CachesTrue, CopyTrue

\* A step of Reconcile keeps the caches and the copy true.
LEMMA ReconcileCopies ==
  ASSUME CopyInv, Reconcile
  PROVE  CachesTrue' /\ CopyTrue'
  <1> USE DEF CopyInv, Return, ReturnError, Continue
  <1>1. CASE ReconcileGet
    <2>1. /\ UNCHANGED <<objectVars, pending, cacheVars>> /\ copy' = cachedJob
          /\ "cache" \in current' <=> "cache" \in current
          /\ "reconcile" \in current' => "cache" \in current
          /\ pc' # "idle" => cachedJob.phase = "live"
      BY <1>1 DEF ReconcileGet, ReadFromCache, Copies, reconcileFrame
    <2> QED
      BY <2>1 DEF CachesTrue, CopyTrue, objectVars, cacheVars
  <1>2. CASE ReconcileClaim
    <2>1. ObjectsWritten /\ UNCHANGED <<current, cacheVars>> /\ pc = "claim"
      BY <1>2 DEF ReconcileClaim, ObjectsWritten, reconcileFrame
    <2>2. copy' = copy \/ (pc' = "status" /\ copy'.phase = copy.phase)
      BY <1>2 DEF ReconcileClaim, AfterClaim, TypeOK, ARJs
    <2>3. CachesTrue' /\ UNCHANGED job
      BY <2>1, WritesTold
    <2> QED
      BY <2>1, <2>2, <2>3 DEF CopyTrue
  <1>3. CASE ReconcileDeleteClaim
    <2>1. ObjectsWritten /\ UNCHANGED <<current, cacheVars>> /\ pc' = "idle"
      BY <1>3 DEF ReconcileDeleteClaim, ObjectsWritten, reconcileFrame
    <2> QED
      BY <2>1, WritesTold DEF CopyTrue
  <1>4. CASE ReconcilePod
    <2>1. ObjectsWritten /\ UNCHANGED <<current, cacheVars>> /\ pc = "pod"
      BY <1>4 DEF ReconcilePod, ObjectsWritten, reconcileFrame
    <2>2. copy' = copy \/ (pc' = "status" /\ copy'.phase = copy.phase)
      BY <1>4 DEF ReconcilePod, AfterPod, TypeOK, ARJs
    <2>3. CachesTrue' /\ UNCHANGED job
      BY <2>1, WritesTold
    <2> QED
      BY <2>1, <2>2, <2>3 DEF CopyTrue
  <1>5. CASE ReconcileDeletePod
    <2>1. ObjectsWritten /\ UNCHANGED <<current, cacheVars>> /\ pc' = "idle"
      BY <1>5 DEF ReconcileDeletePod, ObjectsWritten, reconcileFrame
    <2> QED
      BY <2>1, WritesTold DEF CopyTrue
  <1>6. CASE ReconcileStatus
    BY <1>6 DEF ReconcileStatus, UpdateAccepted, UpdateRefused, NewVersion, CachesTrue, CopyTrue,
                reconcileFrame, cacheVars
  <1> QED
    BY <1>1, <1>2, <1>3, <1>4, <1>5, <1>6 DEF Reconcile

\* The steps of the operator's informers and of everyone else do too.
LEMMA OtherCopies ==
  ASSUME CopyInv, Restart \/ JobEvent \/ ClaimEvent \/ PodEvent \/ Environment
  PROVE  CachesTrue' /\ CopyTrue'
  <1> USE DEF CopyInv
  <1>1. CASE Restart
    BY <1>1 DEF Restart, CachesTrue, CopyTrue, objectVars
  <1>2. CASE JobEvent
    BY <1>2 DEF JobEvent, CacheUpToDate, eventFrame, CachesTrue, CopyTrue, objectVars
  <1>3. CASE ClaimEvent
    BY <1>3 DEF ClaimEvent, eventFrame, CachesTrue, CopyTrue, objectVars
  <1>4. CASE PodEvent
    BY <1>4 DEF PodEvent, eventFrame, CachesTrue, CopyTrue, objectVars
  <1>5. CASE ObjectStep
    <2>1. ObjectsWritten /\ UNCHANGED <<pc, copy, current, cacheVars>>
      BY <1>5 DEF ObjectStep, ObjectsWritten, worldFrame
    <2> QED
      BY <2>1, WritesTold DEF CopyTrue
  <1>6. CASE JobStep
    BY <1>6 DEF JobStep, NewVersion, worldFrame, cacheVars, CachesTrue, CopyTrue
  <1> QED
    BY <1>1, <1>2, <1>3, <1>4, <1>5, <1>6, ObjectSteps, JobSteps DEF Environment

\* Every step keeps the caches and the copy true.
LEMMA CopyStep == CopyInv /\ [Next]_vars => CopyInv'
  <1> SUFFICES ASSUME CopyInv, [Next]_vars
               PROVE  CopyInv'
    OBVIOUS
  <1>1. CASE Reconcile
    BY <1>1, ReconcileTypes, ReconcileCopies DEF CopyInv
  <1>2. CASE Restart \/ JobEvent \/ ClaimEvent \/ PodEvent
    BY <1>2, EventTypes, OtherCopies DEF CopyInv
  <1>3. CASE Environment
    BY <1>3, EnvironmentTypes, OtherCopies DEF CopyInv
  <1>4. CASE UNCHANGED vars
    BY <1>4 DEF vars, controllerVars, objectVars, cacheVars, CopyInv, TypeOK, ControllerTypeOK,
                CachesTrue, CopyTrue
  <1> QED
    BY <1>1, <1>2, <1>3, <1>4 DEF Next

\* The ARJ as JobLifecycle has it
Arj == CASE job.phase = "live" /\ ~IsCompleted(job) -> "active"
         [] job.phase = "live" /\ IsCompleted(job) -> "completed"
         [] OTHER -> job.phase

\* Every step is one of JobLifecycle or leaves the ARJ as it is: an update of the status is
\* refused unless the ARJ is the live one that Reconcile has read.
LEMMA LifecycleStep ==
  ASSUME CopyInv, [Next]_vars
  PROVE  [Lifecycle!LifecycleNext]_Arj
  <1> USE DEF Lifecycle!LifecycleNext, Lifecycle!Created, Lifecycle!Completed, Lifecycle!Reverted,
              Lifecycle!Deleted, Lifecycle!Removed
  <1>1. CASE UNCHANGED job
    BY <1>1 DEF Arj, IsCompleted
  <1>2. CASE job.phase = "live" /\ job'.phase = "live"
    BY <1>2 DEF Arj, IsCompleted
  <1>3. CASE CreateJob
    <2>1. job.phase = "absent" /\ job'.phase = "live" /\ ~IsCompleted(job)'
      BY <1>3 DEF CreateJob, IsCompleted
    <2> QED
      BY <2>1 DEF Arj
  <1>4. CASE DeleteJob
    <2>1. job.phase = "live" /\ job'.phase = "deleting"
      BY <1>4 DEF DeleteJob, CopyInv, TypeOK, ARJs
    <2> QED
      BY <2>1 DEF Arj
  <1>5. CASE JobRemoved
    <2>1. job.phase = "deleting" /\ job'.phase = "absent"
      BY <1>5 DEF JobRemoved, CopyInv, TypeOK, ARJs
    <2> QED
      BY <2>1 DEF Arj
  <1>6. CASE ReconcileStatus
    BY <1>1, <1>2, <1>6 DEF ReconcileStatus, UpdateAccepted, CopyInv, CopyTrue
  <1>7. CASE ReconcileGet \/ ReconcileClaim \/ ReconcileDeleteClaim \/ ReconcilePod \/ ReconcileDeletePod
    <2>1. UNCHANGED job
      BY <1>7 DEF ReconcileGet, ReconcileClaim, ReconcileDeleteClaim, ReconcilePod, ReconcileDeletePod,
                  WriteClaim, WritePod, objectVars
    <2> QED
      BY <1>1, <2>1
  <1>8. CASE Restart \/ JobEvent \/ ClaimEvent \/ PodEvent
    BY <1>1, <1>8 DEF Restart, JobEvent, ClaimEvent, PodEvent, eventFrame, objectVars
  <1>9. CASE ObjectStep
    BY <1>1, <1>9 DEF ObjectStep, WriteClaim, WritePod
  <1>10. CASE UNCHANGED vars
    BY <1>1, <1>10 DEF vars, objectVars
  <1> QED
    BY <1>3, <1>4, <1>5, <1>6, <1>7, <1>8, <1>9, <1>10, ObjectSteps DEF CopyInv, Next, Reconcile, Environment

\* The reconciler of ActionsRunnerJobs implements JobLifecycle, on which the model of the
\* ActionsRunner's reconciler rests: no stale copy of the ARJ, written back at any time,
\* brings a deleted ARJ back to life.
THEOREM LifecycleImplemented == Spec => ImplementsLifecycle
  <1>1. Init => Lifecycle!LifecycleInit
    <2> SUFFICES ASSUME Init
                 PROVE  Lifecycle!LifecycleInit
      OBVIOUS
    <2>1. job = [uid |-> 0, phase |-> "absent", claimPhase |-> "", podPhase |-> ""]
      BY DEF Init
    <2> QED
      BY <2>1 DEF Lifecycle!LifecycleInit
  <1>2. CopyInv /\ [Next]_vars => [Lifecycle!LifecycleNext]_Arj
    BY LifecycleStep
  <1> QED
    BY <1>1, <1>2, CopyInit, CopyStep, PTL
    DEF Spec, ImplementsLifecycle, Lifecycle!LifecycleSpec, Arj

-----------------------------------------------------------------------------
(* No change goes unnoticed.                                               *)

\* A copy older than the one in the cache has a request queued behind it, unless the ARJ is
\* gone, whose event is dropped.
CopyRead ==
    pc # "idle" /\ "cache" \in current /\ ~queued => "reconcile" \in current \/ job.phase = "absent"

\* A status shows the claim in the cache, or the claim whose creation was dropped.
ClaimTold(phase) == phase = cachedClaim.phase \/ (phase = "" /\ cachedClaim.phase = "Pending")

\* What led Reconcile to where it is still holds, or a request is queued.
StagesTrue ==
    ~queued =>
        /\ pc \in {"pod", "deletePod"} => ClaimTold(copy.claimPhase)
        /\ pc = "deleteClaim" => cachedClaim.phase = "Lost" /\ copy.claimPhase = "Lost"
        /\ pc = "deletePod" => cachedPod.phase = "Unknown" /\ copy.podPhase = "Unknown"

\* The status shows what the caches show.
CachesTold ==
    \/ cachedClaim.deleting
    \/ /\ ClaimTold(job.claimPhase)
       /\ \/ job.podPhase = cachedPod.phase /\ (cachedPod # Zero \/ "pod" \in pending)
          \/ job.podPhase = "" /\ cachedPod.phase = "Pending"
          \/ cachedClaim.phase = "Lost"

\* The reconciler rests only when it has told what the caches show, whether the caches show
\* the truth or not.
RestsOnlyTold ==
    pc = "idle" /\ ~queued /\ "cache" \in current /\ job.phase = "live" /\ runner = "live" => CachesTold

\* The inductive invariant of the reconciler
RestInv == CopyInv /\ CopyRead /\ StagesTrue /\ RestsOnlyTold

\* A reconciliation that ends without a request behind it has worked on the ARJ as it is.
LEMMA CopyIsJob ==
  ASSUME RestInv, pc \notin {"idle", "status"}, ~queued, "cache" \in current, job.phase = "live"
  PROVE  copy = job
  BY DEF RestInv, CopyInv, CopyRead, CopyTrue

\* A step of Reconcile keeps the invariant.
LEMMA ReconcileRests ==
  ASSUME RestInv, Reconcile
  PROVE  CopyRead' /\ StagesTrue' /\ RestsOnlyTold'
  <1> USE DEF Return, ReturnError, Continue
  <1>1. CASE ReconcileGet
    <2>1. /\ UNCHANGED <<job, cachedJob, runner>>
          /\ "cache" \in current' => "cache" \in current /\ "reconcile" \in current'
          /\ pc' \in {"idle", "claim"}
          /\ pc' = "idle" => cachedJob.phase # "live" \/ runner # "live"
      BY <1>1 DEF ReconcileGet, ReadFromCache, Copies, objectVars, reconcileFrame, cacheVars
    <2>2. CopyRead' /\ StagesTrue'
      BY <2>1 DEF CopyRead, StagesTrue
    <2>3. RestsOnlyTold'
      BY <2>1 DEF RestsOnlyTold, RestInv, CopyInv, CachesTrue
    <2> QED
      BY <2>2, <2>3
  <1>2. CASE ReconcileClaim
    <2>1. /\ pc = "claim"
          /\ UNCHANGED <<current, cachedClaim, cachedPod, runner, job>>
      BY <1>2 DEF ReconcileClaim, WriteClaim, objectVars, reconcileFrame, cacheVars
    <2>2. \/ pc' = "idle" /\ queued'
          \/ pc' = "status" /\ UNCHANGED queued
          \/ /\ UNCHANGED <<queued, copy>> /\ copy.claimPhase = cachedClaim.phase
             /\ \/ pc' = "idle" /\ cachedClaim.deleting
                \/ pc' = "deleteClaim" /\ cachedClaim.phase = "Lost"
                \/ pc' = "pod"
      BY <1>2 DEF ReconcileClaim, AfterClaim
    <2>3. CopyRead'
      BY <2>1, <2>2 DEF CopyRead, RestInv
    <2>4. StagesTrue'
      BY <2>1, <2>2 DEF StagesTrue, ClaimTold
    <2>5. RestsOnlyTold'
      BY <2>1, <2>2 DEF RestsOnlyTold, CachesTold
    <2> QED
      BY <2>3, <2>4, <2>5
  <1>3. CASE ReconcileDeleteClaim
    <2>1. /\ pc = "deleteClaim" /\ pc' = "idle" /\ (queued' \/ UNCHANGED queued)
          /\ UNCHANGED <<current, cachedClaim, cachedPod, runner, job>>
      BY <1>3 DEF ReconcileDeleteClaim, WriteClaim, objectVars, reconcileFrame, cacheVars
    <2>2. RestsOnlyTold'
      BY <2>1, CopyIsJob DEF RestInv, StagesTrue, RestsOnlyTold, CachesTold, ClaimTold
    <2> QED
      BY <2>1, <2>2 DEF CopyRead, StagesTrue
  <1>4. CASE ReconcilePod
    <2>1. /\ pc = "pod"
          /\ UNCHANGED <<current, cachedClaim, cachedPod, runner, job>>
      BY <1>4 DEF ReconcilePod, WritePod, objectVars, reconcileFrame, cacheVars
    <2>2. \/ pc' = "idle" /\ queued'
          \/ pc' = "status" /\ UNCHANGED queued
          \/ /\ UNCHANGED <<queued, copy>> /\ copy.podPhase = cachedPod.phase
             /\ \/ pc' = "idle" /\ (cachedPod # Zero \/ "pod" \in pending')
                \/ pc' = "deletePod" /\ cachedPod.phase = "Unknown"
      <3>1. cachedPod = Zero /\ pod # Zero => "pod" \in pending
        BY DEF RestInv, CopyInv, CachesTrue
      <3>2. ASSUME pod = Zero, WritePod(ToPod(copy.uid))
            PROVE  "pod" \in pending'
        <4>1. ToPod(copy.uid) # Zero
          <5>1. ToPod(copy.uid).phase # Zero.phase
            BY DEF ToPod, Zero
          <5> QED
            BY <5>1
        <4> QED
          BY <3>2, <4>1 DEF WritePod
      <3>3. CASE Fault /\ ReturnError
        BY <3>3
      <3>4. CASE /\ \/ pod = Zero /\ WritePod(ToPod(copy.uid))
                    \/ (cachedPod # Zero \/ pod # Zero) /\ UNCHANGED pending
                 /\ AfterPod
        <4>1. cachedPod # Zero \/ "pod" \in pending'
          BY <3>1, <3>2, <3>4
        <4> QED
          BY <3>4, <4>1 DEF AfterPod
      <3> QED
        BY <1>4, <3>3, <3>4 DEF ReconcilePod
    <2>3. CopyRead'
      BY <2>1, <2>2 DEF CopyRead, RestInv
    <2>4. StagesTrue'
      BY <2>1, <2>2 DEF RestInv, StagesTrue, ClaimTold
    <2>5. RestsOnlyTold'
      BY <2>1, <2>2, CopyIsJob DEF RestInv, StagesTrue, RestsOnlyTold, CachesTold, ClaimTold
    <2> QED
      BY <2>3, <2>4, <2>5
  <1>5. CASE ReconcileDeletePod
    <2>1. /\ pc = "deletePod" /\ pc' = "idle" /\ (queued' \/ UNCHANGED queued)
          /\ UNCHANGED <<current, cachedClaim, cachedPod, runner, job>>
      BY <1>5 DEF ReconcileDeletePod, WritePod, objectVars, reconcileFrame, cacheVars
    <2>2. cachedPod.phase = "Unknown" => cachedPod # Zero
      <3>1. Zero.phase # "Unknown"
        BY DEF Zero
      <3> QED
        BY <3>1
    <2>3. RestsOnlyTold'
      BY <2>1, <2>2, CopyIsJob DEF RestInv, StagesTrue, RestsOnlyTold, CachesTold, ClaimTold
    <2> QED
      BY <2>1, <2>3 DEF CopyRead, StagesTrue
  <1>6. CASE ReconcileStatus
    <2>1. /\ pc' = "idle" /\ UNCHANGED runner
          /\ queued' \/ current' = {} \/ (job.phase = "absent" /\ UNCHANGED job)
      BY <1>6 DEF ReconcileStatus, UpdateAccepted, UpdateRefused, NewVersion, reconcileFrame
    <2> QED
      BY <2>1 DEF CopyRead, StagesTrue, RestsOnlyTold
  <1> QED
    BY <1>1, <1>2, <1>3, <1>4, <1>5, <1>6 DEF Reconcile

\* A dropped event is the creation of a claim or a pod the cache did not have.
LEMMA DroppedCreation ==
  ASSUME NEW cached, NEW object, CreationOnly(cached, object)
  PROVE  cached.phase = "" /\ ~cached.deleting /\ object.phase = "Pending" /\ ~object.deleting
  BY DEF CreationOnly, Zero

\* The steps of the informers, of the AR's reconciler, of users and of Kubernetes keep it.
LEMMA OtherRests ==
  ASSUME RestInv, Restart \/ JobEvent \/ ClaimEvent \/ PodEvent \/ Environment
  PROVE  CopyRead' /\ StagesTrue' /\ RestsOnlyTold'
  <1>1. CASE Restart
    BY <1>1 DEF Restart, CopyRead, StagesTrue, RestsOnlyTold
  <1>2. CASE JobEvent
    <2>1. /\ UNCHANGED <<pc, copy, job, runner, cachedClaim, cachedPod>>
          /\ queued' \/ (UNCHANGED queued /\ job.phase = "absent")
      BY <1>2 DEF JobEvent, eventFrame, objectVars, RestInv, CopyInv, TypeOK, ControllerTypeOK
    <2> QED
      BY <2>1 DEF RestInv, CopyRead, StagesTrue, ClaimTold, RestsOnlyTold
  <1>3. CASE ClaimEvent
    <2>1. /\ UNCHANGED <<pc, copy, job, runner, current, cachedPod>> /\ cachedClaim' = claim
          /\ "pod" \in pending' <=> "pod" \in pending
          /\ queued' \/ (UNCHANGED queued /\ CreationOnly(cachedClaim, claim))
      BY <1>3 DEF ClaimEvent, eventFrame, objectVars, RestInv, CopyInv, TypeOK, ControllerTypeOK
    <2>2. CASE queued'
      BY <2>2 DEF CopyRead, StagesTrue, RestsOnlyTold
    <2>3. CASE UNCHANGED queued /\ CreationOnly(cachedClaim, claim)
      <3>1. /\ cachedClaim.phase = "" /\ ~cachedClaim.deleting
            /\ cachedClaim'.phase = "Pending"
        BY <2>1, <2>3, DroppedCreation
      <3>2. CopyRead'
        BY <2>1, <2>3 DEF RestInv, CopyRead
      <3>3. StagesTrue'
        BY <2>1, <2>3, <3>1 DEF RestInv, StagesTrue, ClaimTold
      <3>4. RestsOnlyTold'
        BY <2>1, <2>3, <3>1 DEF RestInv, RestsOnlyTold, CachesTold, ClaimTold
      <3> QED
        BY <3>2, <3>3, <3>4
    <2> QED
      BY <2>1, <2>2, <2>3
  <1>4. CASE PodEvent
    <2>1. /\ UNCHANGED <<pc, copy, job, runner, current, cachedClaim>> /\ cachedPod' = pod
          /\ queued' \/ (UNCHANGED queued /\ CreationOnly(cachedPod, pod))
      BY <1>4 DEF PodEvent, eventFrame, objectVars, RestInv, CopyInv, TypeOK, ControllerTypeOK
    <2>2. CASE queued'
      BY <2>2 DEF CopyRead, StagesTrue, RestsOnlyTold
    <2>3. CASE UNCHANGED queued /\ CreationOnly(cachedPod, pod)
      <3>1. cachedPod.phase = "" /\ cachedPod'.phase = "Pending"
        BY <2>1, <2>3, DroppedCreation
      <3>2. CopyRead'
        BY <2>1, <2>3 DEF RestInv, CopyRead
      <3>3. StagesTrue'
        BY <2>1, <2>3, <3>1 DEF RestInv, StagesTrue, ClaimTold
      <3>4. RestsOnlyTold'
        BY <2>1, <2>3, <3>1 DEF RestInv, RestsOnlyTold, CachesTold, ClaimTold
      <3> QED
        BY <3>2, <3>3, <3>4
    <2> QED
      BY <2>1, <2>2, <2>3
  <1>5. CASE ObjectStep
    <2>1. /\ UNCHANGED <<pc, queued, copy, job, runner, current, cachedClaim, cachedPod>>
          /\ "pod" \in pending => "pod" \in pending'
      BY <1>5 DEF ObjectStep, WriteClaim, WritePod, worldFrame, cacheVars
    <2> QED
      BY <2>1 DEF RestInv, CopyRead, StagesTrue, ClaimTold, RestsOnlyTold, CachesTold
  <1>6. CASE JobStep
    <2>1. current' = {} /\ UNCHANGED <<pc, queued, copy, cachedClaim, cachedPod>>
      BY <1>6 DEF JobStep, NewVersion, worldFrame, cacheVars
    <2> QED
      BY <2>1 DEF RestInv, CopyRead, StagesTrue, ClaimTold, RestsOnlyTold
  <1> QED
    BY <1>1, <1>2, <1>3, <1>4, <1>5, <1>6, ObjectSteps, JobSteps DEF RestInv, CopyInv, Environment

\* No change goes unnoticed, for any number of jobs, disruptions, failures and restarts,
\* although the event filter drops creations: a reconciler at rest with caches that show the
\* truth has told the state of the claim and the pod in the status.
THEOREM ChangesReported == Spec => []RestsOnlyReported
  <1>1. Init => RestInv
    BY CopyInit DEF Init, ControllerInit, RestInv, CopyRead, StagesTrue, RestsOnlyTold
  <1>2. RestInv /\ [Next]_vars => RestInv'
    <2> SUFFICES ASSUME RestInv, [Next]_vars
                 PROVE  RestInv'
      OBVIOUS
    <2>1. CopyInv'
      BY CopyStep DEF RestInv
    <2>2. CASE Reconcile
      BY <2>1, <2>2, ReconcileRests DEF RestInv
    <2>3. CASE Restart \/ JobEvent \/ ClaimEvent \/ PodEvent \/ Environment
      BY <2>1, <2>3, OtherRests DEF RestInv
    <2>4. CASE UNCHANGED vars
      <3>1. UNCHANGED <<pc, queued, current, job, copy, cachedClaim, cachedPod, pending, runner>>
        BY <2>4 DEF vars, controllerVars, objectVars, cacheVars
      <3> QED
        BY <2>1, <3>1 DEF RestInv, CopyRead, StagesTrue, ClaimTold, RestsOnlyTold, CachesTold
    <2> QED
      BY <2>2, <2>3, <2>4 DEF Next
  <1>3. RestInv => RestsOnlyReported
    BY DEF RestInv, CopyInv, CachesTrue, RestsOnlyTold, CachesTold, ClaimTold, RestsOnlyReported
  <1> QED
    BY <1>1, <1>2, <1>3, PTL DEF Spec

=============================================================================
