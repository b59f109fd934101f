----------------------------- MODULE Controller -----------------------------
(***************************************************************************)
(* What controller-runtime gives a reconciler of one kind of object: a     *)
(* workqueue that runs one Reconcile at a time per object, reads from an   *)
(* informer cache that lags behind the API server, and writes the API      *)
(* server refuses when they carry an old resourceVersion.  "current" says  *)
(* which of the two copies of the reconciled object, the one in the cache  *)
(* and the one Reconcile holds, have the resourceVersion of the server.    *)
(***************************************************************************)
EXTENDS Naturals

CONSTANT MaxFaults   \* bound: API calls that fail, and restarts of the operator

ASSUME FaultBound == MaxFaults \in Nat

VARIABLES
    pc,       \* what Reconcile does next
    queued,   \* the workqueue holds a request for the object
    current,  \* the copies that are up to date
    faults    \* failures still to come

controllerVars == <<pc, queued, current, faults>>

Copies == {"cache", "reconcile"}

ControllerTypeOK(Labels) ==
    /\ pc \in Labels
    /\ queued \in BOOLEAN
    /\ current \subseteq Copies
    /\ faults \in 0..MaxFaults

ControllerInit ==
    /\ pc = "idle"
    /\ queued = TRUE
    /\ current = {"cache"}
    /\ faults = MaxFaults

\* return ctrl.Result{}, nil
Return == pc' = "idle" /\ UNCHANGED queued

\* return ctrl.Result{}, err: the request is queued again
ReturnError == pc' = "idle" /\ queued' = TRUE

Continue(label) == pc' = label /\ UNCHANGED queued

Fault == faults > 0 /\ faults' = faults - 1

\* Reconcile is given the copy in the cache.
ReadFromCache == current' = IF "cache" \in current THEN Copies ELSE {}

\* The informer brings the copy in the cache up to date.
CacheUpToDate == current' = current \cup {"cache"}

\* A write gives the object a new resourceVersion.
NewVersion == current' = {}

\* An Update that sends the copy Reconcile holds is accepted if the copy is up to date.
UpdateAccepted(exists) ==
    /\ exists /\ "reconcile" \in current
    /\ Return
    /\ UNCHANGED faults

\* A NotFound is ignored, a Conflict and a failure are returned.
UpdateRefused(exists) ==
    \/ ~exists /\ Return /\ UNCHANGED faults
    \/ exists /\ "reconcile" \notin current /\ ReturnError /\ UNCHANGED faults
    \/ Fault /\ ReturnError

=============================================================================
