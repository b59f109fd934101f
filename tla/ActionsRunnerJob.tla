-------------------------- MODULE ActionsRunnerJob --------------------------
(***************************************************************************)
(* actionsrunnerjob/reconciler.go: the reconciler that gives an            *)
(* ActionsRunnerJob (ARJ) its PersistentVolumeClaim and its pod, and copies *)
(* their phases to the status of the ARJ, where the reconciler of the      *)
(* ActionsRunner (AR) sees that the job is over and deletes the ARJ.  The  *)
(* four objects of a job have the same name as the AR, so the objects of   *)
(* one job and of the next are told apart by their owner only, and three   *)
(* informer caches lag behind the API server independently.                *)
(***************************************************************************)
EXTENDS Controller

CONSTANTS
    MaxJobs,   \* bound: ARJs created one after the other
    MaxEdits   \* bound: deletions by users, evictions, lost nodes and lost volumes

ASSUME JobBounds == MaxJobs \in Nat /\ MaxEdits \in Nat

VARIABLES
    job,         \* the ARJ in the API server
    cachedJob,   \* the ARJ in the informer cache
    claim,       \* the PersistentVolumeClaim in the API server
    cachedClaim,
    pod,         \* the pod in the API server
    cachedPod,
    pending,     \* the kinds with events on their way to the cache
    copy,        \* Reconcile's actionsRunnerJob
    runner,      \* the AR, as the informer shows it: "live" or not
    volume,      \* the AR asks for a volume
    ran,         \* history: the phases the pods of each ARJ have had
    edits

objectVars == <<job, claim, pod>>
cacheVars  == <<cachedJob, cachedClaim, cachedPod>>
vars == <<controllerVars, objectVars, cacheVars, pending, copy, runner, volume, ran, edits>>

Uids   == 0..MaxJobs
Labels == {"idle", "claim", "deleteClaim", "pod", "deletePod", "status"}

ClaimPhases == {"", "Pending", "Bound", "Lost"}
PodPhases   == {"", "Pending", "Running", "Ended", "Unknown"}   \* Ended: Succeeded or Failed

\* An ARJ that exists has the uid of a job; 0 is the uid of none.
ARJs == {j \in [uid : Uids, phase : {"live", "deleting", "absent"},
                claimPhase : ClaimPhases, podPhase : PodPhases] :
         j.phase # "absent" => j.uid # 0}

\* An object that does not exist reads as the zero value, whose phase is "".
Zero == [owner |-> 0, phase |-> "", deleting |-> FALSE]

\* A claim or a pod that exists is owned by an ARJ.
Owned(phases) == {o \in [owner : Uids, phase : phases, deleting : BOOLEAN] :
                  o # Zero => o.owner # 0}

\* Type correctness.  Every claim and pod there is, seen or not, has an ARJ as its
\* controller, so that the garbage collector finds it: Reconcile makes them from a copy of
\* an ARJ that it has found, and live.
TypeOK ==
    /\ ControllerTypeOK(Labels)
    /\ job \in ARJs /\ cachedJob \in ARJs /\ copy \in ARJs
    /\ pc # "idle" => copy.phase = "live"
    /\ claim \in Owned(ClaimPhases) /\ cachedClaim \in Owned(ClaimPhases)
    /\ pod \in Owned(PodPhases) /\ cachedPod \in Owned(PodPhases)
    /\ pending \subseteq {"claim", "pod"}
    /\ runner \in {"live", "deleting"}
    /\ volume \in BOOLEAN
    /\ ran \in [Uids -> SUBSET PodPhases]
    /\ edits \in 0..MaxEdits

Init ==
    /\ ControllerInit
    /\ job = [uid |-> 0, phase |-> "absent", claimPhase |-> "", podPhase |-> ""]
    /\ cachedJob = job /\ copy = job
    /\ claim = Zero /\ cachedClaim = Zero
    /\ pod = Zero /\ cachedPod = Zero
    /\ pending = {}
    /\ runner = "live"
    /\ volume \in BOOLEAN
    /\ ran = [u \in Uids |-> {}]
    /\ edits = MaxEdits

\* The condition of the AR's reconciler, on the status of the ARJ
IsCompleted(j) == j.claimPhase = "Lost" \/ j.podPhase \in {"Ended", "Unknown"}

\* Variant: the converter of the pod does not set the controller reference.
ToPodWithoutOwner(uid) == [owner |-> 0, phase |-> "Pending", deleting |-> FALSE]

\* What the converters make for an ARJ: objects it owns, new to the API server
ToPersistentVolumeClaim(uid) == [owner |-> uid, phase |-> "Pending", deleting |-> FALSE]
ToPod(uid)                   == [owner |-> uid, phase |-> "Pending", deleting |-> FALSE]

\* Changes of the claim and of the pod in the API server
WriteClaim(c) ==
    /\ claim' = c
    /\ pending' = IF c # claim THEN pending \cup {"claim"} ELSE pending
    /\ UNCHANGED <<job, pod, ran>>

WritePod(p) ==
    /\ pod' = p
    /\ pending' = IF p # pod THEN pending \cup {"pod"} ELSE pending
    /\ ran' = [ran EXCEPT ![p.owner] = @ \cup {p.phase}]
    /\ UNCHANGED <<job, claim>>

-----------------------------------------------------------------------------
(* Reconcile, reconciler.go 79-217.                                        *)

reconcileFrame == <<cacheVars, runner, volume, edits>>

\* The ARJ and the AR are read from the cache and have to be there to stay.
ReconcileGet ==
    /\ pc = "idle"
    /\ queued /\ queued' = FALSE
    /\ ReadFromCache
    /\ copy' = cachedJob
    /\ pc' = IF cachedJob.phase = "live" /\ runner = "live" THEN "claim" ELSE "idle"
    /\ UNCHANGED <<faults, objectVars, pending, ran, reconcileFrame>>

\* Where the phase of the claim leads: it is copied to the status first; a claim that is
\* being deleted is waited for, one that is lost is deleted.
AfterClaim ==
    IF copy.claimPhase # cachedClaim.phase
    THEN copy' = [copy EXCEPT !.claimPhase = cachedClaim.phase] /\ Continue("status")
    ELSE /\ \/ cachedClaim.deleting /\ Return
            \/ ~cachedClaim.deleting /\ cachedClaim.phase = "Lost" /\ Continue("deleteClaim")
            \/ ~cachedClaim.deleting /\ cachedClaim.phase # "Lost" /\ Continue("pod")
         /\ UNCHANGED copy

\* The claim is created if the cache has none and the AR asks for one; if the API server
\* has one nevertheless, that is no error.
ReconcileClaim ==
    /\ pc = "claim"
    /\ \/ /\ \/ /\ cachedClaim = Zero /\ volume /\ claim = Zero
                /\ WriteClaim(ToPersistentVolumeClaim(copy.uid))
             \/ /\ cachedClaim # Zero \/ ~volume \/ claim # Zero
                /\ UNCHANGED <<objectVars, pending, ran>>
          /\ AfterClaim
          /\ UNCHANGED faults
       \/ Fault /\ ReturnError /\ UNCHANGED <<objectVars, pending, ran, copy>>
    /\ UNCHANGED <<current, reconcileFrame>>

\* Deletes by name, whatever the claim of that name has become; a NotFound is ignored.
ReconcileDeleteClaim ==
    /\ pc = "deleteClaim"
    /\ \/ /\ WriteClaim(IF claim = Zero THEN Zero ELSE [claim EXCEPT !.deleting = TRUE])
          /\ Return
          /\ UNCHANGED faults
       \/ Fault /\ ReturnError /\ UNCHANGED <<objectVars, pending, ran>>
    /\ UNCHANGED <<current, copy, reconcileFrame>>

\* Variant: a pod that is being deleted is left alone before its phase is looked at.
AfterPodDeletingFirst ==
    IF ~cachedPod.deleting /\ copy.podPhase # cachedPod.phase
    THEN copy' = [copy EXCEPT !.podPhase = cachedPod.phase] /\ Continue("status")
    ELSE /\ \/ (cachedPod.deleting \/ cachedPod.phase # "Unknown") /\ Return
            \/ ~cachedPod.deleting /\ cachedPod.phase = "Unknown" /\ Continue("deletePod")
         /\ UNCHANGED copy

\* The same for the pod, of which only an unknown one is deleted.
AfterPod ==
    IF copy.podPhase # cachedPod.phase
    THEN copy' = [copy EXCEPT !.podPhase = cachedPod.phase] /\ Continue("status")
    ELSE /\ \/ (cachedPod.deleting \/ cachedPod.phase # "Unknown") /\ Return
            \/ ~cachedPod.deleting /\ cachedPod.phase = "Unknown" /\ Continue("deletePod")
         /\ UNCHANGED copy

ReconcilePod ==
    /\ pc = "pod"
    /\ \/ /\ \/ /\ cachedPod = Zero /\ pod = Zero
                /\ WritePod(ToPod(copy.uid))
             \/ /\ cachedPod # Zero \/ pod # Zero
                /\ UNCHANGED <<objectVars, pending, ran>>
          /\ AfterPod
          /\ UNCHANGED faults
       \/ Fault /\ ReturnError /\ UNCHANGED <<objectVars, pending, ran, copy>>
    /\ UNCHANGED <<current, reconcileFrame>>

ReconcileDeletePod ==
    /\ pc = "deletePod"
    /\ \/ /\ WritePod(IF pod = Zero THEN Zero ELSE [pod EXCEPT !.deleting = TRUE])
          /\ Return
          /\ UNCHANGED faults
       \/ Fault /\ ReturnError /\ UNCHANGED <<objectVars, pending, ran>>
    /\ UNCHANGED <<current, copy, reconcileFrame>>

\* Variant: the status is applied, which creates an ARJ that is gone, instead of updated.
ReconcileStatusApplied ==
    /\ pc = "status"
    /\ Return
    /\ job' = [copy EXCEPT !.uid = job.uid,
                          !.phase = IF job.phase = "deleting" THEN "deleting" ELSE "live"]
    /\ NewVersion
    /\ UNCHANGED <<faults, claim, pod, pending, ran, copy, reconcileFrame>>

ReconcileStatus ==
    /\ pc = "status"
    /\ \/ UpdateAccepted(job.phase # "absent") /\ job' = copy /\ NewVersion
       \/ UpdateRefused(job.phase # "absent") /\ UNCHANGED <<job, current>>
    /\ UNCHANGED <<claim, pod, pending, ran, copy, reconcileFrame>>

Reconcile ==
    \/ ReconcileGet \/ ReconcileClaim \/ ReconcileDeleteClaim
    \/ ReconcilePod \/ ReconcileDeletePod \/ ReconcileStatus

\* The operator ends at any point; the next process starts with caches that are filled.
Restart ==
    /\ Fault
    /\ pc' = "idle" /\ queued' = TRUE /\ current' = {"cache"}
    /\ cachedJob' = job /\ cachedClaim' = claim /\ cachedPod' = pod
    /\ pending' = {}
    /\ UNCHANGED <<objectVars, copy, runner, volume, ran, edits>>

-----------------------------------------------------------------------------
(* The informers and the eventFilter, which drops deletions of ARJs and    *)
(* creations of claims and of pods.                                        *)

eventFrame == <<pc, faults, objectVars, copy, runner, volume, ran, edits>>

JobEvent ==
    /\ "cache" \notin current
    /\ CacheUpToDate
    /\ cachedJob' = job
    /\ queued' = (queued \/ job.phase # "absent")
    /\ UNCHANGED <<eventFrame, cachedClaim, cachedPod, pending>>

\* The event is the creation alone: the object has not changed since.  What changes after
\* the creation is an event of its own, which the watch delivers.
CreationOnly(cached, object) == cached = Zero /\ object.phase = "Pending" /\ ~object.deleting

ClaimEvent ==
    /\ "claim" \in pending /\ pending' = pending \ {"claim"}
    /\ cachedClaim' = claim
    /\ queued' = (queued \/ ~CreationOnly(cachedClaim, claim))
    /\ UNCHANGED <<eventFrame, current, cachedJob, cachedPod>>

\* Variant: the deletion of a pod is dropped as well.
PodEventNoDeletion ==
    /\ "pod" \in pending /\ pending' = pending \ {"pod"}
    /\ cachedPod' = pod
    /\ queued' = (queued \/ (pod # Zero /\ ~CreationOnly(cachedPod, pod)))
    /\ UNCHANGED <<eventFrame, current, cachedJob, cachedClaim>>

PodEvent ==
    /\ "pod" \in pending /\ pending' = pending \ {"pod"}
    /\ cachedPod' = pod
    /\ queued' = (queued \/ ~CreationOnly(cachedPod, pod))
    /\ UNCHANGED <<eventFrame, current, cachedJob, cachedClaim>>

-----------------------------------------------------------------------------
(* The reconciler of the AR, Kubernetes and users.                         *)

worldFrame == <<pc, queued, faults, cacheVars, copy, volume>>

CreateJob ==
    /\ job.phase = "absent" /\ cachedJob.phase = "absent"
    /\ job.uid < MaxJobs
    /\ runner = "live"
    /\ job' = [uid |-> job.uid + 1, phase |-> "live", claimPhase |-> "", podPhase |-> ""]
    /\ NewVersion
    /\ UNCHANGED <<worldFrame, claim, pod, pending, runner, ran, edits>>

\* By the reconciler of the AR once the job is completed, by the deletion of the AR or
\* by a user
DeleteJob ==
    /\ job.phase = "live"
    /\ \/ cachedJob.phase = "live" /\ IsCompleted(cachedJob) /\ UNCHANGED <<runner, edits>>
       \/ edits > 0 /\ edits' = edits - 1 /\ runner' \in {runner, "deleting"}
    /\ job' = [job EXCEPT !.phase = "deleting"]
    /\ NewVersion
    /\ UNCHANGED <<worldFrame, claim, pod, pending, ran>>

\* The foreground deletion of the ARJ waits for what it owns.
JobRemoved ==
    /\ job.phase = "deleting"
    /\ claim = Zero \/ claim.owner # job.uid
    /\ pod = Zero \/ pod.owner # job.uid
    /\ job' = [job EXCEPT !.phase = "absent", !.claimPhase = "", !.podPhase = ""]
    /\ NewVersion
    /\ UNCHANGED <<worldFrame, claim, pod, pending, runner, ran, edits>>

Orphaned(object) == object # Zero /\ (object.owner # job.uid \/ job.phase # "live")

\* The garbage collector deletes the claim and the pod of an ARJ that is not there to stay.
Collect ==
    /\ \/ Orphaned(claim) /\ ~claim.deleting /\ WriteClaim([claim EXCEPT !.deleting = TRUE])
       \/ Orphaned(pod) /\ ~pod.deleting /\ WritePod([pod EXCEPT !.deleting = TRUE])
    /\ UNCHANGED <<worldFrame, current, runner, edits>>

\* A deleted pod is removed; a deleted claim once no pod uses it.
Removed ==
    /\ \/ pod.deleting /\ WritePod(Zero)
       \/ claim.deleting /\ pod = Zero /\ WriteClaim(Zero)
    /\ UNCHANGED <<worldFrame, current, runner, edits>>

ClaimBound ==
    /\ claim.phase = "Pending"
    /\ WriteClaim([claim EXCEPT !.phase = "Bound"])
    /\ UNCHANGED <<worldFrame, current, runner, edits>>

\* A pod starts when its claim is bound.
PodStarts ==
    /\ pod.phase = "Pending" /\ ~pod.deleting
    /\ ~volume \/ claim.phase = "Bound"
    /\ WritePod([pod EXCEPT !.phase = "Running"])
    /\ UNCHANGED <<worldFrame, current, runner, edits>>

\* The runner is done, or activeDeadlineSeconds has passed.
PodEnds ==
    /\ pod.phase \in {"Running", "Unknown"}
    /\ WritePod([pod EXCEPT !.phase = "Ended"])
    /\ UNCHANGED <<worldFrame, current, runner, edits>>

\* The volume or the node is lost, the claim or the pod is deleted.
Disruption ==
    /\ edits > 0 /\ edits' = edits - 1
    /\ \/ claim.phase = "Bound" /\ WriteClaim([claim EXCEPT !.phase = "Lost"])
       \/ claim # Zero /\ ~claim.deleting /\ WriteClaim([claim EXCEPT !.deleting = TRUE])
       \/ pod.phase = "Running" /\ WritePod([pod EXCEPT !.phase = "Unknown"])
       \/ pod # Zero /\ ~pod.deleting /\ WritePod([pod EXCEPT !.deleting = TRUE])
    /\ UNCHANGED <<worldFrame, current, runner>>

Environment ==
    \/ CreateJob \/ DeleteJob \/ JobRemoved \/ Collect \/ Removed
    \/ ClaimBound \/ PodStarts \/ PodEnds \/ Disruption

Next == Reconcile \/ Restart \/ JobEvent \/ ClaimEvent \/ PodEvent \/ Environment

Spec == Init /\ [][Next]_vars

\* The worker runs, the informers deliver, Kubernetes finishes deletions and binds claims,
\* pods start and end by their deadline.
Fairness ==
    /\ WF_vars(Reconcile)
    /\ WF_vars(JobEvent) /\ WF_vars(ClaimEvent) /\ WF_vars(PodEvent)
    /\ WF_vars(JobRemoved) /\ WF_vars(Collect) /\ WF_vars(Removed)
    /\ WF_vars(ClaimBound) /\ WF_vars(PodStarts) /\ WF_vars(PodEnds)

FairSpec == Spec /\ Fairness

-----------------------------------------------------------------------------

\* The reconciler of the AR sees a job that follows JobLifecycle: whatever the status is
\* copied from, an ARJ that is deleted does not come back to life.
Lifecycle ==
    INSTANCE JobLifecycle WITH
        arj <- CASE job.phase = "live" /\ ~IsCompleted(job) -> "active"
                 [] job.phase = "live" /\ IsCompleted(job) -> "completed"
                 [] OTHER -> job.phase

ImplementsLifecycle == Lifecycle!LifecycleSpec

\* No change goes unnoticed although the eventFilter drops creations and deletions: when
\* the reconciler has nothing left to do and the caches show the truth, the status of the
\* ARJ is the state of its claim and pod; only a pod or claim nothing has happened to
\* since its creation is not reported yet, and a claim being deleted is waited for.
RestsOnlyReported ==
    /\ pc = "idle" /\ ~queued
    /\ "cache" \in current /\ pending = {}
    /\ job.phase = "live" /\ runner = "live"
    => \/ claim.deleting
       \/ /\ job.claimPhase = claim.phase \/ (job.claimPhase = "" /\ claim.phase = "Pending")
          /\ \/ job.podPhase = pod.phase /\ pod # Zero
             \/ job.podPhase = "" /\ pod.phase = "Pending"
             \/ claim.phase = "Lost"

\* A job comes to its end: the status says so, or the ARJ is deleted, in spite of
\* conflicting status updates, lost pods and lost claims.  A claim that a user deletes is
\* excepted: it stays until its pod is removed, and Reconcile waits for it without looking
\* at the pod.
JobEnds == job.phase = "live" ~> IsCompleted(job) \/ job.phase # "live" \/ claim.deleting

\* actionsrunnerjob_types.go 27, "ActionsRunnerJobStatus defines the observed state of
\* ActionsRunnerJob": an end that the status reports is the end of a pod of this ARJ.
ReportsOwnPod ==
    job.phase = "live" /\ job.podPhase \in {"Ended", "Unknown"}
        => job.podPhase \in ran[job.uid]

=============================================================================
