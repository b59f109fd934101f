--------------------------- MODULE ActionsRunner ---------------------------
(***************************************************************************)
(* actionsrunner/reconciler.go and wire/collection.go: the reconciler of   *)
(* one ActionsRunner (AR), its registry entry in the Collection, and the   *)
(* objects it keeps in Kubernetes: a ConfigMap and a Secret that hold the  *)
(* dot files of a Wire, and the ActionsRunnerJob (ARJ).  The workqueue     *)
(* runs at most one Reconcile per object, so the reconciler is one thread; *)
(* it interleaves with the listener goroutines, the SIGTERM handler, the   *)
(* informer cache, the ARJ's pod and the ADO service.                      *)
(***************************************************************************)
EXTENDS Wire, JobLifecycle

CONSTANTS
    MaxRestarts,  \* bound: starts of the operator process after the first
    MaxDeletes    \* bound: deletions of the ActionsRunner or its job by a user

ASSUME EnvironmentBounds == MaxRestarts \in Nat /\ MaxDeletes \in Nat

VARIABLES
    registry,    \* Collection.wireRegistry at the ActionsRunner's key
    ar,          \* the ActionsRunner as the informer shows it
    cachedArj,   \* the ActionsRunnerJob in the informer cache
    configMap,   \* the Wire whose dot files the ConfigMap holds
    secret,      \* the Wire whose dot files the Secret holds
    restarts,
    deletes

objectVars == <<ar, arj, cachedArj, configMap, secret>>
budgetVars == <<restarts, deletes>>
vars == <<adoVars, wireVars, threadVars, process, queued, registry, objectVars, budgetVars>>

ActionsRunnerPhases == {"live", "deleting", "absent"}

\* Type correctness of the whole operator.
TypeOK ==
    /\ AzureDevOpsTypeOK
    /\ WireTypeOK
    /\ registry  \in Wires \cup {None}
    /\ ar        \in ActionsRunnerPhases
    /\ arj       \in JobPhases
    /\ cachedArj \in JobPhases
    /\ configMap \in Wires \cup {None}
    /\ secret    \in Wires \cup {None}
    /\ restarts     \in 0..MaxRestarts
    /\ deletes   \in 0..MaxDeletes

Init ==
    /\ AzureDevOpsInit
    /\ WireInit
    /\ registry = None
    /\ ar = "live"
    /\ LifecycleInit /\ cachedArj = "absent"
    /\ configMap = None /\ secret = None
    /\ restarts = MaxRestarts /\ deletes = MaxDeletes

-----------------------------------------------------------------------------
(* Reconcile, reconciler.go 104-333.                                       *)

\* return ctrl.Result{}, nil
Return ==
    /\ pc'   = [pc   EXCEPT ![Reconciler] = "idle"]
    /\ wire' = [wire EXCEPT ![Reconciler] = None]

\* return ctrl.Result{}, err: the request is queued again
ReturnError == Return /\ queued' = TRUE

Continue(label) ==
    /\ pc' = [pc EXCEPT ![Reconciler] = label]
    /\ UNCHANGED <<wire, queued>>

\* From the gone check to GetWire: an AR that is gone takes its Wire out of the registry
\* (TryDestroy), one being deleted is left alone, a Wire that is not valid is destroyed.
ReconcileStart ==
    /\ pc[Reconciler] = "idle"
    /\ queued
    /\ queued' = FALSE
    /\ \/ /\ process = "gone" \/ ar = "deleting" \/ (ar = "absent" /\ registry = None)
          /\ UNCHANGED <<pc, wire, registry>>
       \/ /\ process = "running" /\ ar = "absent" /\ registry # None
          /\ wire' = [wire EXCEPT ![Reconciler] = registry]
          /\ Goto(Reconciler, "close")
          /\ registry' = None
       \/ /\ process = "running" /\ ar = "live" /\ registry = None
          /\ Goto(Reconciler, "make")
          /\ UNCHANGED <<wire, registry>>
       \/ /\ process = "running" /\ ar = "live" /\ registry # None
          /\ wire' = [wire EXCEPT ![Reconciler] = registry]
          /\ Goto(Reconciler, IF invalid[registry] THEN "close" ELSE "dotFiles")
          /\ UNCHANGED registry
    /\ UNCHANGED <<adoVars, wireVars, received, panicking, process, objectVars, budgetVars>>

\* A cached read that fails, or a ConfigMap or Secret that is being deleted: Reconcile
\* returns, and the error or the event of the deletion queues the request again.
ReconcileStartFails ==
    /\ pc[Reconciler] = "idle"
    /\ queued
    /\ process = "running"
    /\ Fault
    /\ UNCHANGED <<agent, session, message, wireVars, threadVars, process, queued,
                   registry, objectVars, budgetVars>>

\* Variant: Destroy leaves the agent registered.
DestroysNothing(w) == Answers(TRUE) /\ UNCHANGED <<agent, session>>

\* Wire.Destroy registers the agent once more with the key of w and deletes it; it may
\* stop before the registration or between the two.
Destroys(w) ==
    \/ Answers(TRUE) /\ DeleteAgent
    \/ Fault /\ agent' \in {agent, w} /\ UNCHANGED session

\* TryDestroy returns the error of Destroy, GetWire logs it and makes a new Wire.
ReconcileDestroy ==
    /\ pc[Reconciler] = "destroy"
    /\ Destroys(wire[Reconciler])
    /\ \/ registry = None /\ faults' = faults /\ Return /\ UNCHANGED queued
       \/ registry = None /\ faults' # faults /\ ReturnError
       \/ registry # None /\ Continue("make")
    /\ UNCHANGED <<message, wireVars, received, panicking, process, registry, objectVars, budgetVars>>

\* A Wire object no goroutine and no registry entry refers to
Garbage(w) == w # registry /\ \A t \in Threads : wire[t] # w

\* A Wire object that is new: its key is in no object and in no registration
Unused(w) == Garbage(w) /\ w \notin {agent, configMap, secret}

\* MakeWire: Wire.init registers the agent, opens a session to probe it and deletes the
\* session again.  It may fail before the registration, after it (the session of another
\* client is a conflict), or with the probe session left open.
ReconcileMake ==
    /\ pc[Reconciler] = "make"
    /\ \E w \in Wires :
         /\ Unused(w)
         /\ wire' = [wire EXCEPT ![Reconciler] = w]
         /\ invalid'     = [invalid     EXCEPT ![w] = FALSE]
         /\ listening'   = [listening   EXCEPT ![w] = FALSE]
         /\ loopClose'   = [loopClose   EXCEPT ![w] = "nil"]
         /\ jobRequests' = [jobRequests EXCEPT ![w] = 0]
         /\ taskAgentSession' = [taskAgentSession EXCEPT ![w] = None]
         /\ \/ /\ Answers(session = None)
               /\ RegisterAgent(w)
               /\ registry' = w
               /\ Goto(Reconciler, "dotFiles")
               /\ UNCHANGED session
            \/ /\ Fails(session = None) \/ Fault
               /\ \/ faults' # faults /\ UNCHANGED <<agent, session>>
                  \/ RegisterAgent(w) /\ UNCHANGED session
                  \/ session = None /\ RegisterAgent(w) /\ session' = Reconciler
               /\ Goto(Reconciler, "initFailed")
               /\ UNCHANGED registry
    /\ UNCHANGED <<message, received, panicking, process, queued, objectVars, budgetVars>>

\* Wire.Init after an error: Destroy, then Close.  An unrecoverable error also deletes
\* the ConfigMap and the Secret; errors of the two deletions are only logged.
ReconcileInitFailed ==
    LET w == wire[Reconciler]
    IN  /\ pc[Reconciler] = "initFailed"
        /\ \/ Answers(TRUE) /\ DeleteAgent
           \/ /\ Fault
              /\ agent' \in {agent, w}
              /\ session' \in {session, IF session = Reconciler THEN None ELSE session}
        /\ configMap' \in {configMap, None}
        /\ secret' \in {secret, None}
        /\ ReturnError
        /\ UNCHANGED <<message, wireVars, received, panicking, process, registry,
                       ar, arj, cachedArj, budgetVars>>

\* Variant: objects that exist are not updated.
ReconcileDotFilesOnce ==
    /\ pc[Reconciler] = "dotFiles"
    /\ Answers(TRUE)
    /\ configMap' = IF configMap = None THEN wire[Reconciler] ELSE configMap
    /\ secret' = IF secret = None THEN wire[Reconciler] ELSE secret
    /\ Continue("job")
    /\ UNCHANGED <<agent, session, message, wireVars, received, panicking, process, registry,
                   ar, arj, cachedArj, budgetVars>>

\* The ConfigMap and then the Secret are created if need be, and always updated with the
\* dot files of the Wire.  An error leaves the Secret, or both, as they were; a Secret that
\* was missing may have been created before the update of the ConfigMap fails.
ReconcileDotFiles ==
    LET w == wire[Reconciler]
    IN  /\ pc[Reconciler] = "dotFiles"
        /\ \/ /\ Answers(TRUE)
              /\ configMap' = w /\ secret' = w
              /\ Continue("job")
           \/ /\ Fault
              /\ configMap' \in {configMap, w}
              /\ UNCHANGED secret \/ (secret = None /\ configMap' # None /\ secret' = w)
              /\ ReturnError
        /\ UNCHANGED <<agent, session, message, wireVars, received, panicking, process, registry,
                       ar, arj, cachedArj, budgetVars>>

\* The PodDisruptionBudget (whose calls may fail; one that is being deleted ends Reconcile,
\* and its event queues the request again), then the ARJ as the cache shows it: without
\* one a token is taken from jobRequests if there is one (select), a completed one is
\* deleted, any other is waited for.
ReconcileJob ==
    LET w == wire[Reconciler]
    IN  /\ pc[Reconciler] = "job"
        /\ \/ /\ Answers(cachedArj = "absent")
              /\ jobRequests' = [jobRequests EXCEPT ![w] = 0]
              /\ Continue(IF jobRequests[w] = 1 THEN "create" ELSE "listen")
              /\ UNCHANGED arj
           \/ /\ Answers(cachedArj \in {"active", "deleting"})
              /\ Return
              /\ UNCHANGED <<jobRequests, arj, queued>>
           \/ /\ Answers(cachedArj = "completed")
              /\ arj' = IF arj = "absent" THEN "absent" ELSE "deleting"
              /\ Return
              /\ UNCHANGED <<jobRequests, queued>>
           \/ Fault /\ ReturnError /\ UNCHANGED <<jobRequests, arj>>
        /\ UNCHANGED <<agent, session, message, invalid, listening, loopClose, taskAgentSession, received,
                       panicking, process, registry, ar, cachedArj, configMap, secret, budgetVars>>

\* The ARJ is created; an ARJ that exists already is no error.
ReconcileCreate ==
    /\ pc[Reconciler] = "create"
    /\ \/ /\ Answers(TRUE)
          /\ arj' = IF arj = "absent" THEN "active" ELSE arj
          /\ Return
          /\ UNCHANGED queued
       \/ Fault /\ ReturnError /\ UNCHANGED arj
    /\ UNCHANGED <<agent, session, message, wireVars, received, panicking, process, registry,
                   ar, cachedArj, configMap, secret, budgetVars>>

\* A goroutine that does not run and whose last session no other Wire in use refers to
FreeListener(g, w) ==
    /\ pc[g] = "free"
    /\ session # g
    /\ \A x \in Wires \ {w} : taskAgentSession[x] = g => Garbage(x)

\* Variant: Listen does not look at the flag.
ListenUnchecked(w) ==
    /\ loopClose' = [loopClose EXCEPT ![w] = "open"]
    /\ \E g \in Listeners :
         /\ FreeListener(g, w)
         /\ pc'   = [pc   EXCEPT ![g] = "open", ![Reconciler] = "listening"]
         /\ wire' = [wire EXCEPT ![g] = w]

\* Variant: Listen keeps a loopClose that exists.
ListenKeepsChannel(w) ==
    \/ /\ listening[w]
       /\ Return
       /\ UNCHANGED loopClose
    \/ /\ ~listening[w]
       /\ loopClose' = [loopClose EXCEPT ![w] = IF @ = "nil" THEN "open" ELSE @]
       /\ \E g \in Listeners :
            /\ FreeListener(g, w)
            /\ pc'   = [pc   EXCEPT ![g] = "open", ![Reconciler] = "listening"]
            /\ wire' = [wire EXCEPT ![g] = w]

\* Wire.Listen: a Wire that listens already is left alone, otherwise a goroutine starts.
Listen(w) ==
    \/ /\ listening[w]
       /\ Return
       /\ UNCHANGED loopClose
    \/ /\ ~listening[w]
       /\ loopClose' = [loopClose EXCEPT ![w] = "open"]
       /\ \E g \in Listeners :
            /\ FreeListener(g, w)
            /\ pc'   = [pc   EXCEPT ![g] = "open", ![Reconciler] = "listening"]
            /\ wire' = [wire EXCEPT ![g] = w]

ReconcileListen ==
    /\ pc[Reconciler] = "listen"
    /\ Listen(wire[Reconciler])
    /\ UNCHANGED <<adoVars, invalid, listening, jobRequests, taskAgentSession, received, panicking,
                   process, queued, registry, objectVars, budgetVars>>

\* The last line of Wire.Listen, after the goroutine has been started
ReconcileListening ==
    /\ pc[Reconciler] = "listening"
    /\ listening' = [listening EXCEPT ![wire[Reconciler]] = TRUE]
    /\ Return
    /\ UNCHANGED <<adoVars, invalid, loopClose, jobRequests, taskAgentSession, received, panicking,
                   process, queued, registry, objectVars, budgetVars>>

Reconcile ==
    \/ ReconcileStart \/ ReconcileStartFails \/ ReconcileDestroy \/ ReconcileMake
    \/ ReconcileInitFailed \/ ReconcileDotFiles \/ ReconcileJob
    \/ ReconcileCreate \/ ReconcileListen \/ ReconcileListening

-----------------------------------------------------------------------------
(* The operator process.                                                   *)

\* SIGTERM: the handler of SetupWithManager sets gone, and Deinit closes the event
\* channel and every Wire, each in a goroutine of its own.
Terminate ==
    /\ process = "running"
    /\ restarts > 0
    /\ process' = "gone"
    /\ \/ registry = None /\ UNCHANGED <<pc, wire>>
       \/ /\ registry # None
          /\ Goto(Stopper, "close")
          /\ wire' = [wire EXCEPT ![Stopper] = registry]
    /\ UNCHANGED <<adoVars, wireVars, received, panicking, queued, registry, objectVars, budgetVars>>

\* The process dies without a SIGTERM.
Kill ==
    /\ process = "running"
    /\ restarts > 0
    /\ process' = "crashed"
    /\ UNCHANGED <<adoVars, wireVars, threadVars, queued, registry, objectVars, budgetVars>>

\* The next process starts with an empty memory and a cache that lists every object.
Restart ==
    /\ process # "running"
    /\ restarts > 0 /\ restarts' = restarts - 1
    /\ WireRestart
    /\ registry' = None
    /\ cachedArj' = arj
    /\ UNCHANGED <<adoVars, ar, arj, configMap, secret, deletes>>

-----------------------------------------------------------------------------
(* The environment: Kubernetes, users, the pod of the ARJ, ADO.            *)

operatorVars == <<wireVars, threadVars, process, registry, restarts>>

\* Variant: the eventFilter also drops the deletion of an owned object.
CacheSyncDropsDeletion ==
    /\ cachedArj # arj
    /\ cachedArj' = arj
    /\ queued' = (queued \/ arj \in {"completed", "deleting"})
    /\ UNCHANGED <<adoVars, operatorVars, ar, arj, configMap, secret, deletes>>

\* The eventFilter drops the creation of an owned object; what changes after it is an event
\* of its own, which the watch delivers.
CacheSync ==
    /\ cachedArj # arj
    /\ cachedArj' = arj
    /\ queued' = (queued \/ ~(cachedArj = "absent" /\ arj = "active"))
    /\ UNCHANGED <<adoVars, operatorVars, ar, arj, configMap, secret, deletes>>

\* An event of the AR, the ConfigMap, the Secret or the PodDisruptionBudget, or a resync
Touch ==
    /\ ar # "absent"
    /\ ~queued
    /\ queued' = TRUE
    /\ UNCHANGED <<adoVars, operatorVars, objectVars, deletes>>

\* A user deletes the AR, Kubernetes collects what it owns, a user creates it again.
DeleteActionsRunner ==
    /\ ar = "live"
    /\ deletes > 0 /\ deletes' = deletes - 1
    /\ ar' = "deleting"
    /\ queued' = TRUE
    /\ UNCHANGED <<adoVars, operatorVars, arj, cachedArj, configMap, secret>>

CollectActionsRunner ==
    /\ ar = "deleting"
    /\ ar' = "absent"
    /\ arj' = IF arj = "absent" THEN "absent" ELSE "deleting"
    /\ configMap' = None /\ secret' = None
    /\ queued' = TRUE
    /\ UNCHANGED <<adoVars, operatorVars, cachedArj, deletes>>

CreateActionsRunner ==
    /\ ar = "absent"
    /\ ar' = "live"
    /\ queued' = TRUE
    /\ UNCHANGED <<adoVars, operatorVars, arj, cachedArj, configMap, secret, deletes>>

\* The runner container starts with the dot files of the ConfigMap and the Secret.
RunnerConnects ==
    /\ arj = "active"
    /\ configMap # None /\ secret = configMap
    /\ CreateAgentSession(configMap)
    /\ session' = Runner
    /\ UNCHANGED <<agent, message, faults, operatorVars, queued, objectVars, deletes>>

RunnerTakesJob ==
    /\ arj = "active"
    /\ \E m \in Messages : RunnerTakes(m)
    /\ UNCHANGED <<operatorVars, queued, objectVars, deletes>>

\* The pod ends: the job is done, or failed, or its deadline has passed.
JobEnds ==
    /\ Completed
    /\ session' \in {session} \cup (IF session = Runner THEN {None} ELSE {})
    /\ UNCHANGED <<agent, message, faults, operatorVars, queued, ar, cachedArj, configMap, secret, deletes>>

\* The ARJ's reconciler replaces a pod that has ended, or a user deletes the ARJ.
JobDisrupted ==
    /\ \/ Reverted /\ UNCHANGED deletes
       \/ Deleted /\ deletes > 0 /\ deletes' = deletes - 1
    /\ UNCHANGED <<adoVars, operatorVars, queued, ar, cachedArj, configMap, secret>>

\* The foreground deletion of the ARJ has removed its pod.
JobRemoved ==
    /\ Removed
    /\ UNCHANGED <<adoVars, operatorVars, queued, ar, cachedArj, configMap, secret, deletes>>

\* ADO drops a session nobody polls any more.
SessionExpires ==
    /\ \/ session = Runner /\ arj # "active"
       \/ session \in Listeners /\ pc[session] \notin {"loop", "poll", "ack"}
       \/ session = Reconciler /\ pc[Reconciler] # "initFailed"
    /\ session' = None
    /\ UNCHANGED <<agent, message, faults, operatorVars, queued, objectVars, deletes>>

NewMessage ==
    /\ \E m \in Messages : Enqueue(m)
    /\ UNCHANGED <<operatorVars, queued, objectVars, deletes>>

-----------------------------------------------------------------------------

ListenerStep(g) == process # "crashed" /\ Listener(g) /\ UNCHANGED <<registry, objectVars, budgetVars>>

ReconcilerStep ==
    /\ process # "crashed"
    /\ Reconcile \/ (Close(Reconciler) /\ UNCHANGED <<registry, objectVars, budgetVars>>)

StopperStep == process # "crashed" /\ Close(Stopper) /\ UNCHANGED <<registry, objectVars, budgetVars>>

Environment ==
    \/ CacheSync \/ Touch \/ DeleteActionsRunner \/ CollectActionsRunner \/ CreateActionsRunner
    \/ RunnerConnects \/ RunnerTakesJob \/ JobEnds \/ JobDisrupted \/ JobRemoved
    \/ SessionExpires \/ NewMessage

Next ==
    \/ \E g \in Listeners : ListenerStep(g)
    \/ ReconcilerStep
    \/ StopperStep
    \/ Terminate \/ Kill \/ Restart
    \/ Environment

Spec == Init /\ [][Next]_vars

\* The goroutines and the reconciler are scheduled; a process that has ended is started
\* again by its Deployment; the informer delivers, and resyncs every ten hours (Touch);
\* Kubernetes finishes deletions; a pod ends by its deadline at the latest; ADO drops
\* sessions that are not polled.  Users, failures and the runner's success get none.
Fairness ==
    /\ \A g \in Listeners : WF_vars(ListenerStep(g))
    /\ WF_vars(ReconcilerStep)
    /\ WF_vars(StopperStep)
    /\ WF_vars(Restart)
    /\ WF_vars(CacheSync)
    /\ WF_vars(Touch)
    /\ WF_vars(CollectActionsRunner)
    /\ WF_vars(JobEnds)
    /\ WF_vars(JobRemoved)
    /\ WF_vars(SessionExpires)

FairSpec == Spec /\ Fairness

-----------------------------------------------------------------------------
(* What the operator must never do.                                        *)

\* A listener from its start to its "w.listening = false"
Active(g) == pc[g] \in {"open", "loop", "poll", "ack", "token", "event", "unlisten"}

\* Wire.Listen never runs two listeners on one Wire, although the listener clears the
\* flag without the lock and Listen sets it only after the goroutine has started.
AtMostOneListener ==
    \A g, h \in Listeners : Active(g) /\ Active(h) /\ wire[g] = wire[h] => g = h

\* The session a listener polls with is its own: the other goroutines that work on the
\* facade of its Wire may clear TaskAgentSession under it, but none puts another there.
SessionNotReplaced ==
    \A g \in Listeners : pc[g] \in {"loop", "poll", "ack"} => taskAgentSession[wire[g]] \in {None, g}

\* Where Reconcile is before it looks at jobRequests
BeforeSelect == {"close", "closeChan", "session", "clear", "destroy", "make",
                 "initFailed", "dotFiles", "job"}

\* A job request a listener left in jobRequests is not forgotten: as long as no ARJ is in
\* the way, a reconciliation that will look at it is under way, queued or about to be
\* triggered by the listener's event.
NoLostJobRequest ==
    /\ process = "running"
    /\ ar = "live"
    /\ cachedArj = "absent"
    /\ registry # None
    /\ jobRequests[registry] = 1
    => \/ queued
       \/ pc[Reconciler] \in BeforeSelect
       \/ \E g \in Listeners : pc[g] = "event" /\ wire[g] = registry

\* The operator never acknowledges a job request that its policy allows: whatever goes
\* wrong between the listener and the ARJ, ADO still holds the job for a runner.
ValidJobNeverAcked == \A j \in Jobs : message[j] # "acked"

\* When Reconcile creates the ARJ, the dot files its pod will mount and the key the agent
\* is registered with are those of one Wire, whatever failed in earlier reconciliations.
RunnerCredentials ==
    pc[Reconciler] = "create" => {agent, configMap, secret} \subseteq {None, wire[Reconciler]}

-----------------------------------------------------------------------------
(* What makes these invariants inductive.                                  *)

\* A listener runs on a Wire that is flagged as listening, or is about to be.
ListenersFlagged ==
    \A g \in Listeners : Active(g) =>
        /\ wire[g] \in Wires
        /\ listening[wire[g]] \/ (pc[Reconciler] = "listening" /\ wire[Reconciler] = wire[g])

\* Where Reconcile is once WireFor has returned a Wire
HasWire == {"dotFiles", "job", "create", "listen", "listening"}

\* The Wire Reconcile works with is the registered one.
WorksOnRegistered == pc[Reconciler] \in HasWire => registry # None /\ wire[Reconciler] = registry

\* WireFor replaces only a Wire that has become invalid.
ReplacesInvalid ==
    registry # None /\ pc[Reconciler] \in BeforeSelect \ HasWire => invalid[registry]

\* The key of a registered Wire is replaced in ADO only after the Wire has become
\* invalid, and never behind the back of a Reconcile that works with the Wire.
AgentOfRegistered ==
    registry # None /\ (~invalid[registry] \/ pc[Reconciler] \in HasWire) => agent \in {None, registry}

\* Past the two updates, the ConfigMap and the Secret carry the registered Wire.
DotFilesOfRegistered ==
    pc[Reconciler] \in HasWire \ {"dotFiles"} => {configMap, secret} \subseteq {None, registry}

\* What a listener is about to acknowledge is not a valid job request.
AcksNoJob == \A g \in Listeners : pc[g] = "ack" => received[g] \notin Jobs

ListenerInv == ListenersFlagged /\ AtMostOneListener /\ SessionNotReplaced

RegistryInv == WorksOnRegistered /\ ReplacesInvalid /\ AgentOfRegistered /\ DotFilesOfRegistered

-----------------------------------------------------------------------------
(* What must eventually happen.                                            *)

\* A Wire that claims to listen although no listener does
Deaf(w) ==
    /\ listening[w]
    /\ \A g \in Listeners : ~(Active(g) /\ wire[g] = w)

\* A queued job gets an ARJ (or is taken by the runner of one) in spite of conflicting
\* sessions, invalid Wires and a failed call, unless the AR is deleted, the operator
\* crashes or its Wire has become deaf.
JobServed ==
    \A j \in Jobs :
        message[j] = "queued" ~> \/ message[j] # "queued"
                                 \/ arj # "absent"
                                 \/ ar # "live"
                                 \/ process = "crashed"
                                 \/ registry # None /\ Deaf(registry)

\* After the deletion of the AR its agent is removed from ADO, even if the deletion
\* races with a reconciliation that registers one, as long as no call fails.
AgentRemoved ==
    ar = "absent" ~> \/ agent = None
                     \/ ar # "absent"
                     \/ process = "crashed"
                     \/ faults < MaxFaults

-----------------------------------------------------------------------------
(* What comments and log messages of wire.go say, and the code does not do. *)

\* wire.go 243, "trigger reconciliation on error to setup listener again": a Wire whose
\* listener has ended can be set up to listen again.
ListenerSetUpAgain == \A w \in Wires : Deaf(w) => invalid[w] \/ w # registry

\* wire.go 241, "Recovering from error in wire listener": the deferred function of a
\* listener reaches its recover; Close does not panic before it.
ListenerRecovers ==
    \A g \in Listeners : pc[g] = "closeChan" => loopClose[wire[g]] = "open"

=============================================================================
