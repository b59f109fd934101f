------------------------ MODULE ActionsRunnerProofs ------------------------
(***************************************************************************)
(* Proofs about ActionsRunner for any sets of Wires, goroutines and        *)
(* messages and any bounds on failures, restarts and deletions.            *)
(***************************************************************************)
EXTENDS ActionsRunner, TLAPS

-----------------------------------------------------------------------------
(* Type correctness.                                                       *)

\* The initial state has the types.
LEMMA TypeInit == Init => TypeOK
  BY DistinctThreads, FaultBound, EnvironmentBounds
  DEF Init, LifecycleInit, AzureDevOpsInit, WireInit, EachWire, Inactive, TypeOK, AzureDevOpsTypeOK, WireTypeOK,
      Sessions, Stages, Channels, Threads, ListenerLabels, ReconcilerLabels, StopperLabels,
      ActionsRunnerPhases, JobPhases

\* A step of Wire.Close keeps the types, whichever goroutine takes it.
LEMMA CloseType ==
  ASSUME TypeOK, NEW t \in Threads, Close(t), UNCHANGED <<registry, objectVars, budgetVars>>
  PROVE  TypeOK'
  <1> USE DistinctThreads, FaultBound
      DEF TypeOK, AzureDevOpsTypeOK, WireTypeOK, Threads, Sessions, Channels, ListenerLabels, ReconcilerLabels,
          StopperLabels, Goto, Answers, Fails, Fault, AfterClose, adoVars, wireVars, objectVars, budgetVars
  <1>1. CASE CloseCheck(t)
    BY <1>1 DEF CloseCheck
  <1>2. CASE CloseChannel(t)
    BY <1>2 DEF CloseChannel
  <1>3. CASE DeinitSession(t)
    BY <1>3 DEF DeinitSession
  <1>4. CASE ClearSession(t)
    <2>1. pc' \in [Threads -> ListenerLabels \cup ReconcilerLabels]
      BY <1>4 DEF ClearSession
    <2>2. /\ \A g \in Listeners : pc'[g] \in ListenerLabels
          /\ pc'[Reconciler] \in ReconcilerLabels
          /\ pc'[Stopper] \in StopperLabels
      BY <1>4 DEF ClearSession
    <2>3. wire' \in [Threads -> Wires \cup {None}]
      BY <1>4 DEF ClearSession
    <2>4. taskAgentSession' \in [Wires -> Sessions]
      BY <1>4 DEF ClearSession
    <2> QED
      BY <1>4, <2>1, <2>2, <2>3, <2>4 DEF ClearSession
  <1> QED
    BY <1>1, <1>2, <1>3, <1>4 DEF Close

\* A step of a listener keeps the types.
LEMMA ListenerType ==
  ASSUME TypeOK, NEW g \in Listeners, ListenerStep(g)
  PROVE  TypeOK'
  <1> USE DistinctThreads, FaultBound
      DEF TypeOK, AzureDevOpsTypeOK, WireTypeOK, Threads, Sessions, Stages, Channels, Messages, Queued,
          ListenerLabels, Goto, Panic, Answers, Fails, Fault, adoVars, wireVars, objectVars, budgetVars
  <1>1. UNCHANGED <<registry, objectVars, budgetVars>>
    BY DEF ListenerStep
  <1>2. CASE ListenerOpen(g)
    <2>1. AzureDevOpsTypeOK'
      BY <1>2 DEF ListenerOpen
    <2>2. WireTypeOK'
      <3>1. invalid' \in [Wires -> BOOLEAN]
        BY <1>2 DEF ListenerOpen
      <3>2. taskAgentSession' \in [Wires -> Sessions]
        BY <1>2 DEF ListenerOpen
      <3>3. pc' \in [Threads -> ListenerLabels \cup ReconcilerLabels]
        BY <1>2 DEF ListenerOpen
      <3> QED
        BY <1>2, <3>1, <3>2, <3>3 DEF ListenerOpen
    <2> QED
      BY <1>1, <2>1, <2>2
  <1>3. CASE ListenerLoop(g)
    BY <1>1, <1>3 DEF ListenerLoop
  <1>4. CASE ListenerPoll(g)
    BY <1>1, <1>4 DEF ListenerPoll
  <1>5. CASE ListenerAck(g)
    BY <1>1, <1>5 DEF ListenerAck, DeleteMessage, DeleteAgent
  <1>6. CASE ListenerToken(g)
    <2>1. jobRequests' \in [Wires -> 0..1]
      <3>1. 1 \in 0..1
        OBVIOUS
      <3> QED
        BY <1>6, <3>1 DEF ListenerToken
    <2>2. WireTypeOK'
      BY <1>6, <2>1 DEF ListenerToken
    <2> QED
      BY <1>1, <1>6, <2>2 DEF ListenerToken
  <1>7. CASE ListenerEvent(g)
    <2>1. panicking' \in SUBSET Listeners /\ queued' \in BOOLEAN
      BY <1>7 DEF ListenerEvent
    <2>2. WireTypeOK'
      BY <1>7, <2>1 DEF ListenerEvent
    <2> QED
      BY <1>1, <1>7, <2>2 DEF ListenerEvent
  <1>8. CASE ListenerStop(g)
    BY <1>1, <1>8 DEF ListenerStop
  <1>9. CASE ListenerRecover(g)
    BY <1>1, <1>9 DEF ListenerRecover
  <1>10. CASE Close(g)
    BY <1>1, <1>10, CloseType
  <1> QED
    BY <1>2, <1>3, <1>4, <1>5, <1>6, <1>7, <1>8, <1>9, <1>10 DEF ListenerStep, Listener

\* A step of Reconcile keeps the types.
LEMMA ReconcileType ==
  ASSUME TypeOK, Reconcile
  PROVE  TypeOK'
  <1> USE DistinctThreads, FaultBound
      DEF TypeOK, AzureDevOpsTypeOK, WireTypeOK, Threads, Sessions, Channels, JobPhases, ActionsRunnerPhases,
          ListenerLabels, ReconcilerLabels, StopperLabels, Goto, Return, ReturnError, Continue,
          Answers, Fails, Fault, adoVars, wireVars, threadVars, objectVars, budgetVars
  <1>1. CASE ReconcileStart
    <2>1. pc' \in [Threads -> ListenerLabels \cup ReconcilerLabels]
      BY <1>1 DEF ReconcileStart
    <2>2. /\ \A g \in Listeners : pc'[g] \in ListenerLabels
          /\ pc'[Reconciler] \in ReconcilerLabels
          /\ pc'[Stopper] \in StopperLabels
      BY <1>1 DEF ReconcileStart
    <2>3. wire' \in [Threads -> Wires \cup {None}]
      BY <1>1 DEF ReconcileStart
    <2>4. registry' \in Wires \cup {None} /\ queued' \in BOOLEAN
      BY <1>1 DEF ReconcileStart
    <2> QED
      BY <1>1, <2>1, <2>2, <2>3, <2>4 DEF ReconcileStart
  <1>2. CASE ReconcileStartFails
    BY <1>2 DEF ReconcileStartFails
  <1>3. CASE ReconcileDestroy
    <2>1. pc' \in [Threads -> ListenerLabels \cup ReconcilerLabels]
      BY <1>3 DEF ReconcileDestroy
    <2>2. /\ \A g \in Listeners : pc'[g] \in ListenerLabels
          /\ pc'[Reconciler] \in ReconcilerLabels
          /\ pc'[Stopper] \in StopperLabels
      BY <1>3 DEF ReconcileDestroy
    <2>3. wire' \in [Threads -> Wires \cup {None}]
      BY <1>3 DEF ReconcileDestroy
    <2>4. AzureDevOpsTypeOK'
      BY <1>3 DEF ReconcileDestroy, Destroys, DeleteAgent
    <2>5. queued' \in BOOLEAN
      BY <1>3 DEF ReconcileDestroy
    <2> QED
      BY <1>3, <2>1, <2>2, <2>3, <2>4, <2>5 DEF ReconcileDestroy
  <1>4. CASE ReconcileMake
    BY <1>4 DEF ReconcileMake, RegisterAgent
  <1>5. CASE ReconcileInitFailed
    BY <1>5 DEF ReconcileInitFailed, DeleteAgent
  <1>6. CASE ReconcileDotFiles
    <2>1. pc' \in [Threads -> ListenerLabels \cup ReconcilerLabels]
      BY <1>6 DEF ReconcileDotFiles
    <2>2. /\ \A g \in Listeners : pc'[g] \in ListenerLabels
          /\ pc'[Reconciler] \in ReconcilerLabels
          /\ pc'[Stopper] \in StopperLabels
      BY <1>6 DEF ReconcileDotFiles
    <2>3. wire' \in [Threads -> Wires \cup {None}]
      BY <1>6 DEF ReconcileDotFiles
    <2>4. AzureDevOpsTypeOK'
      BY <1>6 DEF ReconcileDotFiles
    <2>5. queued' \in BOOLEAN
      BY <1>6 DEF ReconcileDotFiles
    <2>6. configMap' \in Wires \cup {None} /\ secret' \in Wires \cup {None}
      BY <1>6 DEF ReconcileDotFiles
    <2> QED
      BY <1>6, <2>1, <2>2, <2>3, <2>4, <2>5, <2>6 DEF ReconcileDotFiles
  <1>7. CASE ReconcileJob
    <2>1. pc' \in [Threads -> ListenerLabels \cup ReconcilerLabels]
      BY <1>7 DEF ReconcileJob
    <2>2. /\ \A g \in Listeners : pc'[g] \in ListenerLabels
          /\ pc'[Reconciler] \in ReconcilerLabels
          /\ pc'[Stopper] \in StopperLabels
      BY <1>7 DEF ReconcileJob
    <2>3. wire' \in [Threads -> Wires \cup {None}]
      BY <1>7 DEF ReconcileJob
    <2>4. jobRequests' \in [Wires -> 0..1]
      BY <1>7 DEF ReconcileJob
    <2>5. AzureDevOpsTypeOK'
      BY <1>7 DEF ReconcileJob
    <2>6. queued' \in BOOLEAN
      BY <1>7 DEF ReconcileJob
    <2>7. arj' \in JobPhases
      BY <1>7 DEF ReconcileJob
    <2> QED
      BY <1>7, <2>1, <2>2, <2>3, <2>4, <2>5, <2>6, <2>7 DEF ReconcileJob
  <1>8. CASE ReconcileCreate
    <2>1. pc' \in [Threads -> ListenerLabels \cup ReconcilerLabels]
      BY <1>8 DEF ReconcileCreate
    <2>2. /\ \A g \in Listeners : pc'[g] \in ListenerLabels
          /\ pc'[Reconciler] \in ReconcilerLabels
          /\ pc'[Stopper] \in StopperLabels
      BY <1>8 DEF ReconcileCreate
    <2>3. wire' \in [Threads -> Wires \cup {None}]
      BY <1>8 DEF ReconcileCreate
    <2>4. AzureDevOpsTypeOK'
      BY <1>8 DEF ReconcileCreate
    <2>5. queued' \in BOOLEAN
      BY <1>8 DEF ReconcileCreate
    <2>6. arj' \in JobPhases
      BY <1>8 DEF ReconcileCreate
    <2> QED
      BY <1>8, <2>1, <2>2, <2>3, <2>4, <2>5, <2>6 DEF ReconcileCreate
  <1>9. CASE ReconcileListen
    BY <1>9 DEF ReconcileListen, Listen
  <1>10. CASE ReconcileListening
    <2>1. pc' \in [Threads -> ListenerLabels \cup ReconcilerLabels]
      BY <1>10 DEF ReconcileListening
    <2>2. /\ \A g \in Listeners : pc'[g] \in ListenerLabels
          /\ pc'[Reconciler] \in ReconcilerLabels
          /\ pc'[Stopper] \in StopperLabels
      BY <1>10 DEF ReconcileListening
    <2>3. wire' \in [Threads -> Wires \cup {None}]
      BY <1>10 DEF ReconcileListening
    <2>4. listening' \in [Wires -> BOOLEAN]
      BY <1>10 DEF ReconcileListening
    <2> QED
      BY <1>10, <2>1, <2>2, <2>3, <2>4 DEF ReconcileListening
  <1> QED
    BY <1>1, <1>2, <1>3, <1>4, <1>5, <1>6, <1>7, <1>8, <1>9, <1>10 DEF Reconcile

\* A step of the environment keeps the types.
LEMMA EnvironmentType ==
  ASSUME TypeOK, Environment
  PROVE  TypeOK'
  <1> USE DEF TypeOK, AzureDevOpsTypeOK, WireTypeOK, Sessions, Stages, JobPhases, ActionsRunnerPhases,
              adoVars, wireVars, threadVars, objectVars, operatorVars
  <1>1. CASE CacheSync
    BY <1>1 DEF CacheSync
  <1>2. CASE Touch
    BY <1>2 DEF Touch
  <1>3. CASE DeleteActionsRunner
    BY <1>3, EnvironmentBounds DEF DeleteActionsRunner
  <1>4. CASE CollectActionsRunner
    BY <1>4 DEF CollectActionsRunner
  <1>5. CASE CreateActionsRunner
    BY <1>5 DEF CreateActionsRunner
  <1>6. CASE RunnerConnects
    BY <1>6 DEF RunnerConnects
  <1>7. CASE RunnerTakesJob
    BY <1>7 DEF RunnerTakesJob, RunnerTakes
  <1>8. CASE JobEnds
    BY <1>8 DEF JobEnds, Completed
  <1>9. CASE JobRemoved
    BY <1>9 DEF JobRemoved, Removed
  <1>12. CASE JobDisrupted
    BY <1>12, EnvironmentBounds DEF JobDisrupted, Reverted, Deleted
  <1>10. CASE SessionExpires
    BY <1>10 DEF SessionExpires
  <1>11. CASE NewMessage
    BY <1>11 DEF NewMessage, Enqueue
  <1> QED
    BY <1>1, <1>2, <1>3, <1>4, <1>5, <1>6, <1>7, <1>8, <1>9, <1>10, <1>11, <1>12 DEF Environment

\* Every step keeps the types.
LEMMA TypeStep == TypeOK /\ [Next]_vars => TypeOK'
  <1> SUFFICES ASSUME TypeOK, [Next]_vars
               PROVE  TypeOK'
    OBVIOUS
  <1>1. ASSUME NEW g \in Listeners, ListenerStep(g)
        PROVE  TypeOK'
    BY <1>1, ListenerType
  <1>2. CASE ReconcilerStep
    BY <1>2, ReconcileType, CloseType DEF ReconcilerStep, Threads
  <1>3. CASE StopperStep
    BY <1>3, CloseType DEF StopperStep, Threads
  <1>4. CASE Terminate
    BY <1>4, DistinctThreads
    DEF Terminate, Goto, TypeOK, AzureDevOpsTypeOK, WireTypeOK, Threads, StopperLabels, ReconcilerLabels,
        adoVars, wireVars, objectVars, budgetVars
  <1>5. CASE Kill
    BY <1>5 DEF Kill, TypeOK, AzureDevOpsTypeOK, WireTypeOK, adoVars, wireVars, threadVars, objectVars, budgetVars
  <1>6. CASE Restart
    BY <1>6, DistinctThreads, EnvironmentBounds
    DEF Restart, WireRestart, EachWire, Inactive, TypeOK, AzureDevOpsTypeOK, WireTypeOK, Threads, Sessions,
        Channels, ListenerLabels, ReconcilerLabels, StopperLabels, adoVars
  <1>7. CASE Environment
    BY <1>7, EnvironmentType
  <1>8. CASE UNCHANGED vars
    BY <1>8 DEF vars, TypeOK, AzureDevOpsTypeOK, WireTypeOK, adoVars, wireVars, threadVars, objectVars, budgetVars
  <1> QED
    BY <1>1, <1>2, <1>3, <1>4, <1>5, <1>6, <1>7, <1>8 DEF Next

\* Every variable keeps its type in every behaviour.
THEOREM TypeCorrect == Spec => []TypeOK
  BY TypeInit, TypeStep, PTL DEF Spec

-----------------------------------------------------------------------------
(* The registered Wire, the agent and the dot files.                       *)

\* No Wire is registered at first.
LEMMA RegistryInit == Init => RegistryInv
  BY DistinctThreads DEF Init, WireInit, Inactive, Threads, RegistryInv, WorksOnRegistered, ReplacesInvalid,
                         AgentOfRegistered, DotFilesOfRegistered, BeforeSelect, HasWire

\* A step that leaves the reconciler and the registry alone keeps RegistryInv if it
\* makes no Wire valid and changes the agent, the ConfigMap and the Secret to nothing else
\* than None.
LEMMA RegistryFrame ==
  ASSUME RegistryInv,
         pc'[Reconciler] = pc[Reconciler], wire'[Reconciler] = wire[Reconciler],
         registry' = registry,
         agent' \in {agent, None}, configMap' \in {configMap, None}, secret' \in {secret, None},
         registry # None /\ invalid[registry] => invalid'[registry]
  PROVE  RegistryInv'
  BY DEF RegistryInv, WorksOnRegistered, ReplacesInvalid, AgentOfRegistered, DotFilesOfRegistered,
         BeforeSelect, HasWire

\* The listeners leave the reconciler alone, and may only remove the agent.
LEMMA RegistryListener ==
  ASSUME TypeOK, RegistryInv, NEW g \in Listeners, ListenerStep(g)
  PROVE  RegistryInv'
  <1>1. UNCHANGED <<registry, objectVars>> /\ Listener(g)
    BY DEF ListenerStep
  <1>2. pc'[Reconciler] = pc[Reconciler] /\ wire'[Reconciler] = wire[Reconciler]
    BY <1>1, DistinctThreads
    DEF Listener, ListenerOpen, ListenerLoop, ListenerPoll, ListenerAck, ListenerToken, ListenerEvent,
        ListenerStop, ListenerRecover, Close, CloseCheck, CloseChannel, DeinitSession, ClearSession,
        Goto, Panic, TypeOK, WireTypeOK, Threads
  <1>3. agent' \in {agent, None}
    BY <1>1
    DEF Listener, ListenerOpen, ListenerLoop, ListenerPoll, ListenerAck, ListenerToken, ListenerEvent,
        ListenerStop, ListenerRecover, Close, CloseCheck, CloseChannel, DeinitSession, ClearSession,
        DeleteAgent, adoVars
  <1>4. registry # None /\ invalid[registry] => invalid'[registry]
    BY <1>1
    DEF Listener, ListenerOpen, ListenerLoop, ListenerPoll, ListenerAck, ListenerToken, ListenerEvent,
        ListenerStop, ListenerRecover, Close, CloseCheck, CloseChannel, DeinitSession, ClearSession,
        wireVars, TypeOK, WireTypeOK
  <1> QED
    BY <1>1, <1>2, <1>3, <1>4, RegistryFrame DEF objectVars

\* Reconcile itself.
LEMMA RegistryReconcile ==
  ASSUME TypeOK, RegistryInv, Reconcile
  PROVE  RegistryInv'
  <1> USE DistinctThreads
      DEF TypeOK, AzureDevOpsTypeOK, WireTypeOK, Threads, RegistryInv, WorksOnRegistered, ReplacesInvalid,
          AgentOfRegistered, DotFilesOfRegistered, BeforeSelect, HasWire, Goto, Return, ReturnError, Continue,
          Answers, Fails, Fault, adoVars, wireVars, threadVars, objectVars
  <1>1. CASE ReconcileStart
    BY <1>1 DEF ReconcileStart
  <1>2. CASE ReconcileStartFails
    BY <1>2 DEF ReconcileStartFails
  <1>3. CASE ReconcileDestroy
    BY <1>3 DEF ReconcileDestroy, Destroys, DeleteAgent
  <1>4. CASE ReconcileMake
    BY <1>4 DEF ReconcileMake, RegisterAgent, Unused, Garbage
  <1>5. CASE ReconcileInitFailed
    BY <1>5 DEF ReconcileInitFailed, DeleteAgent
  <1>6. CASE ReconcileDotFiles
    BY <1>6 DEF ReconcileDotFiles
  <1>7. CASE ReconcileJob
    BY <1>7 DEF ReconcileJob
  <1>8. CASE ReconcileCreate
    BY <1>8 DEF ReconcileCreate
  <1>9. CASE ReconcileListen
    BY <1>9 DEF ReconcileListen, Listen
  <1>10. CASE ReconcileListening
    BY <1>10 DEF ReconcileListening
  <1> QED
    BY <1>1, <1>2, <1>3, <1>4, <1>5, <1>6, <1>7, <1>8, <1>9, <1>10 DEF Reconcile

\* Every step keeps the registry, the agent and the dot files in step.
LEMMA RegistryStep == TypeOK /\ RegistryInv /\ [Next]_vars => RegistryInv'
  <1> SUFFICES ASSUME TypeOK, RegistryInv, [Next]_vars
               PROVE  RegistryInv'
    OBVIOUS
  <1>1. ASSUME NEW g \in Listeners, ListenerStep(g)
        PROVE  RegistryInv'
    BY <1>1, RegistryListener
  <1>2. CASE Reconcile
    BY <1>2, RegistryReconcile
  <1>3. CASE Close(Reconciler) /\ UNCHANGED <<registry, objectVars>>
    <2>1. /\ pc[Reconciler] \in BeforeSelect \ HasWire
          /\ pc'[Reconciler] \in BeforeSelect \ HasWire
          /\ UNCHANGED <<wire, agent, invalid>>
      BY <1>3, DistinctThreads
      DEF Close, CloseCheck, CloseChannel, DeinitSession, ClearSession, AfterClose, Goto, BeforeSelect, HasWire,
          TypeOK, WireTypeOK, Threads, adoVars, wireVars
    <2> QED
      BY <1>3, <2>1 DEF RegistryInv, WorksOnRegistered, ReplacesInvalid, AgentOfRegistered, DotFilesOfRegistered, objectVars
  <1>4. CASE StopperStep
    <2>1. pc'[Reconciler] = pc[Reconciler] /\ UNCHANGED <<wire, agent, invalid, registry, configMap, secret>>
      BY <1>4, DistinctThreads
      DEF StopperStep, Close, CloseCheck, CloseChannel, DeinitSession, ClearSession, Goto, TypeOK, WireTypeOK,
          Threads, adoVars, wireVars, objectVars
    <2> QED
      BY <2>1, RegistryFrame
  <1>5. CASE Terminate \/ Kill
    <2>1. /\ pc'[Reconciler] = pc[Reconciler] /\ wire'[Reconciler] = wire[Reconciler]
          /\ UNCHANGED <<agent, invalid, registry, configMap, secret>>
      BY <1>5, DistinctThreads
      DEF Terminate, Kill, Goto, TypeOK, WireTypeOK, Threads, adoVars, wireVars, threadVars, objectVars
    <2> QED
      BY <2>1, RegistryFrame
  <1>6. CASE Restart
    BY <1>6, DistinctThreads
    DEF Restart, WireRestart, Inactive, Threads, RegistryInv, WorksOnRegistered, ReplacesInvalid,
        AgentOfRegistered, DotFilesOfRegistered, BeforeSelect, HasWire
  <1>7. CASE Environment
    <2>1. UNCHANGED operatorVars /\ agent' = agent /\ configMap' \in {configMap, None} /\ secret' \in {secret, None}
      BY <1>7
      DEF Environment, CacheSync, Touch, DeleteActionsRunner, CollectActionsRunner, CreateActionsRunner,
          RunnerConnects, RunnerTakesJob, RunnerTakes, JobEnds, JobDisrupted, JobRemoved, SessionExpires, NewMessage, Enqueue,
          adoVars, objectVars
    <2> QED
      BY <2>1, RegistryFrame DEF operatorVars, wireVars, threadVars
  <1>8. CASE UNCHANGED vars
    BY <1>8, RegistryFrame DEF vars, adoVars, wireVars, threadVars, objectVars
  <1> QED
    BY <1>1, <1>2, <1>3, <1>4, <1>5, <1>6, <1>7, <1>8 DEF Next, ReconcilerStep

\* The registered Wire, its agent and the dot files stay in step across failures, the
\* replacement of invalid Wires, restarts and the listener's removal of the agent.
THEOREM RegistryCorrect == Spec => []RegistryInv
  <1>1. Init => RegistryInv
    BY RegistryInit
  <1>2. TypeOK /\ RegistryInv /\ [Next]_vars => RegistryInv'
    BY RegistryStep
  <1> QED
    BY <1>1, <1>2, TypeCorrect, PTL DEF Spec

\* Reconcile creates an ARJ only when the agent, the ConfigMap and the Secret belong to
\* the Wire it works with.
THEOREM CredentialsCorrect == Spec => []RunnerCredentials
  <1>1. RegistryInv => RunnerCredentials
    BY DEF RegistryInv, WorksOnRegistered, AgentOfRegistered, DotFilesOfRegistered, HasWire, RunnerCredentials
  <1> QED
    BY <1>1, RegistryCorrect, PTL

-----------------------------------------------------------------------------
(* Listeners.                                                              *)

\* No listener runs at first.
LEMMA ListenerInit == Init => ListenerInv
  BY DEF Init, WireInit, Inactive, Threads, ListenerInv, ListenersFlagged, AtMostOneListener, SessionNotReplaced, Active

\* A step that starts no listener, moves none to another Wire and changes no flag and no
\* session of a Wire with a listener keeps ListenerInv.
LEMMA ListenerFrame ==
  ASSUME ListenerInv,
         \A g \in Listeners : Active(g)' => Active(g) /\ wire'[g] = wire[g],
         \A g \in Listeners : pc'[g] \in {"loop", "poll", "ack"} => pc[g] \in {"loop", "poll", "ack"},
         \A g \in Listeners : Active(g)' /\ listening[wire[g]] => listening'[wire[g]],
         \A g \in Listeners : Active(g)' => taskAgentSession'[wire[g]] \in {None, taskAgentSession[wire[g]]},
         \A g \in Listeners : Active(g)' /\ pc[Reconciler] = "listening" /\ wire[Reconciler] = wire[g] =>
             listening'[wire[g]] \/ (pc'[Reconciler] = "listening" /\ wire'[Reconciler] = wire[Reconciler])
  PROVE  ListenerInv'
  <1>1. ListenersFlagged'
    BY DEF ListenerInv, ListenersFlagged
  <1>2. AtMostOneListener'
    BY DEF ListenerInv, AtMostOneListener
  <1>3. SessionNotReplaced'
    BY DEF ListenerInv, SessionNotReplaced, Active
  <1> QED
    BY <1>1, <1>2, <1>3 DEF ListenerInv

\* A step of Wire.Close, whichever goroutine takes it, can only clear a session.
LEMMA ListenerClose ==
  ASSUME TypeOK, ListenerInv, NEW t \in Threads, Close(t)
  PROVE  ListenerInv'
  <1>1. UNCHANGED <<wire, listening>>
    BY DEF Close, CloseCheck, CloseChannel, DeinitSession, ClearSession, wireVars
  <1>2. \A w \in Wires : taskAgentSession'[w] \in {None, taskAgentSession[w]}
    BY DEF Close, CloseCheck, CloseChannel, DeinitSession, ClearSession, wireVars, TypeOK, WireTypeOK
  <1>3. \A u \in Threads : pc'[u] = pc[u] \/ pc'[u] \in {"closeChan", "session", "clear", "recover", "destroy", "idle"}
    BY DEF Close, CloseCheck, CloseChannel, DeinitSession, ClearSession, AfterClose, Goto, TypeOK, WireTypeOK
  <1>4. pc[Reconciler] = "listening" => pc'[Reconciler] = "listening"
    BY DistinctThreads DEF Close, CloseCheck, CloseChannel, DeinitSession, ClearSession, Goto, TypeOK, WireTypeOK, Threads
  <1>5. \A g \in Listeners : Active(g)' => Active(g) /\ pc'[g] = pc[g]
    BY <1>3 DEF Active, Threads
  <1>6. \A g \in Listeners : Active(g) => wire[g] \in Wires
    BY DEF ListenerInv, ListenersFlagged
  <1> QED
    BY <1>1, <1>2, <1>4, <1>5, <1>6, ListenerFrame DEF Active

\* The steps of a listener.
LEMMA ListenerListener ==
  ASSUME TypeOK, ListenerInv, NEW g \in Listeners, ListenerStep(g)
  PROVE  ListenerInv'
  <1> USE DistinctThreads DEF Threads, Goto, Panic, TypeOK, WireTypeOK
  <1>1. CASE ListenerOpen(g)
    <2>1. /\ Active(g) /\ Active(g)'
          /\ \A h \in Listeners \ {g} : pc'[h] = pc[h] /\ (Active(h)' => Active(h))
          /\ pc'[Reconciler] = pc[Reconciler]
          /\ UNCHANGED <<wire, listening>>
      BY <1>1 DEF ListenerOpen, Active
    <2>2. ListenersFlagged' /\ AtMostOneListener'
      BY <2>1 DEF ListenerInv, ListenersFlagged, AtMostOneListener
    <2>3. \A w \in Wires \ {wire[g]} : taskAgentSession'[w] = taskAgentSession[w]
      BY <1>1 DEF ListenerOpen
    <2>4. pc'[g] \in {"loop", "poll", "ack"} => taskAgentSession'[wire[g]] = g
      BY <1>1, <2>1 DEF ListenerOpen, ListenerInv, ListenersFlagged
    <2>5. \A h \in Listeners \ {g} : Active(h) => wire[h] # wire[g]
      BY <2>1 DEF ListenerInv, AtMostOneListener
    <2>6. SessionNotReplaced'
      BY <2>1, <2>3, <2>4, <2>5 DEF ListenerInv, ListenersFlagged, SessionNotReplaced, Active
    <2> QED
      BY <2>2, <2>6 DEF ListenerInv
  <1>2. CASE ListenerLoop(g) \/ ListenerPoll(g) \/ ListenerAck(g) \/ ListenerToken(g) \/ ListenerEvent(g)
    <2>1. /\ Active(g)
          /\ \A h \in Listeners \ {g} : pc'[h] = pc[h]
          /\ pc'[Reconciler] = pc[Reconciler]
          /\ UNCHANGED <<wire, listening, taskAgentSession>>
      BY <1>2 DEF ListenerLoop, ListenerPoll, ListenerAck, ListenerToken, ListenerEvent, Active, wireVars
    <2>2. pc'[g] \in {"loop", "poll", "ack"} => pc[g] \in {"loop", "poll", "ack"}
      BY <1>2 DEF ListenerLoop, ListenerPoll, ListenerAck, ListenerToken, ListenerEvent
    <2> QED
      BY <2>1, <2>2, ListenerFrame DEF Active
  <1>3. CASE ListenerStop(g)
    <2>1. /\ Active(g) /\ ~Active(g)'
          /\ \A h \in Listeners \ {g} : pc'[h] = pc[h]
          /\ pc'[Reconciler] = pc[Reconciler]
          /\ UNCHANGED <<wire, taskAgentSession>>
          /\ pc'[g] = "close"
          /\ \A w \in Wires \ {wire[g]} : listening'[w] = listening[w]
      BY <1>3 DEF ListenerStop, Active
    <2>2. \A h \in Listeners \ {g} : Active(h) => wire[h] # wire[g] /\ wire[h] \in Wires
      BY <2>1 DEF ListenerInv, AtMostOneListener, ListenersFlagged
    <2> QED
      BY <2>1, <2>2, ListenerFrame DEF Active
  <1>4. CASE ListenerRecover(g)
    <2>1. /\ pc'[g] = "free"
          /\ \A h \in Listeners \ {g} : pc'[h] = pc[h] /\ wire'[h] = wire[h]
          /\ pc'[Reconciler] = pc[Reconciler] /\ wire'[Reconciler] = wire[Reconciler]
          /\ UNCHANGED <<listening, taskAgentSession>>
      BY <1>4 DEF ListenerRecover, wireVars
    <2> QED
      BY <2>1, ListenerFrame DEF Active
  <1>5. CASE Close(g)
    BY <1>5, ListenerClose
  <1> QED
    BY <1>1, <1>2, <1>3, <1>4, <1>5 DEF ListenerStep, Listener

\* The steps of Reconcile: only ReconcileListen starts a listener.
LEMMA ListenerReconcile ==
  ASSUME TypeOK, RegistryInv, ListenerInv, Reconcile
  PROVE  ListenerInv'
  <1> USE DistinctThreads DEF Threads, Goto, Return, ReturnError, Continue, TypeOK, WireTypeOK
  <1>1. CASE \/ ReconcileStart \/ ReconcileStartFails \/ ReconcileDestroy \/ ReconcileInitFailed
             \/ ReconcileDotFiles \/ ReconcileJob \/ ReconcileCreate
    <2>1. /\ pc[Reconciler] # "listening"
          /\ \A h \in Listeners : pc'[h] = pc[h] /\ wire'[h] = wire[h]
          /\ UNCHANGED <<listening, taskAgentSession>>
      BY <1>1 DEF ReconcileStart, ReconcileStartFails, ReconcileDestroy, ReconcileInitFailed, ReconcileDotFiles,
                  ReconcileJob, ReconcileCreate, wireVars, threadVars
    <2> QED
      BY <2>1, ListenerFrame DEF Active
  <1>2. CASE ReconcileMake
    <2>1. PICK w \in Wires :
            /\ Unused(w)
            /\ listening' = [listening EXCEPT ![w] = FALSE]
            /\ taskAgentSession' = [taskAgentSession EXCEPT ![w] = None]
      BY <1>2 DEF ReconcileMake, RegisterAgent
    <2>2. /\ pc[Reconciler] # "listening"
          /\ \A h \in Listeners : pc'[h] = pc[h] /\ wire'[h] = wire[h]
      BY <1>2 DEF ReconcileMake, RegisterAgent
    <2>3. \A h \in Listeners : wire[h] # w
      BY <2>1 DEF Unused, Garbage
    <2>4. \A x \in Wires \ {w} : listening'[x] = listening[x] /\ taskAgentSession'[x] = taskAgentSession[x]
      BY <2>1
    <2>5. \A h \in Listeners : Active(h) => wire[h] \in Wires
      BY DEF ListenerInv, ListenersFlagged
    <2> QED
      BY <2>2, <2>3, <2>4, <2>5, ListenerFrame DEF Active
  <1>3. CASE ReconcileListen
    <2>1. CASE listening[wire[Reconciler]]
      <3>1. /\ pc[Reconciler] # "listening"
            /\ \A h \in Listeners : pc'[h] = pc[h] /\ wire'[h] = wire[h]
            /\ UNCHANGED <<listening, taskAgentSession>>
        BY <1>3, <2>1 DEF ReconcileListen, Listen
      <3> QED
        BY <3>1, ListenerFrame DEF Active
    <2>2. CASE ~listening[wire[Reconciler]]
      <3>1. PICK g \in Listeners :
              /\ pc[g] = "free"
              /\ pc'   = [pc   EXCEPT ![g] = "open", ![Reconciler] = "listening"]
              /\ wire' = [wire EXCEPT ![g] = wire[Reconciler]]
        BY <1>3, <2>2 DEF ReconcileListen, Listen, FreeListener
      <3>2. /\ pc[Reconciler] = "listen"
            /\ wire[Reconciler] \in Wires
            /\ UNCHANGED <<listening, taskAgentSession>>
        BY <1>3 DEF ReconcileListen, RegistryInv, WorksOnRegistered, HasWire
      <3>3. /\ pc'[g] = "open" /\ wire'[g] = wire[Reconciler]
            /\ pc'[Reconciler] = "listening" /\ wire'[Reconciler] = wire[Reconciler]
            /\ \A h \in Listeners \ {g} : pc'[h] = pc[h] /\ wire'[h] = wire[h]
        BY <3>1
      <3>4. \A h \in Listeners \ {g} : Active(h)' => Active(h) /\ wire'[h] = wire[h] /\ listening[wire[h]]
        BY <3>2, <3>3 DEF ListenerInv, ListenersFlagged, Active
      <3>5. ListenersFlagged'
        BY <3>2, <3>3, <3>4 DEF ListenerInv, ListenersFlagged
      <3>6. AtMostOneListener'
        BY <2>2, <3>3, <3>4 DEF ListenerInv, AtMostOneListener
      <3>7. SessionNotReplaced'
        BY <3>2, <3>3 DEF ListenerInv, SessionNotReplaced
      <3> QED
        BY <3>5, <3>6, <3>7 DEF ListenerInv
    <2> QED
      BY <2>1, <2>2
  <1>4. CASE ReconcileListening
    <2>1. /\ \A h \in Listeners : pc'[h] = pc[h] /\ wire'[h] = wire[h]
          /\ UNCHANGED taskAgentSession
          /\ \A w \in Wires : listening[w] \/ w = wire[Reconciler] => listening'[w]
      BY <1>4 DEF ReconcileListening
    <2>2. \A h \in Listeners : Active(h) => wire[h] \in Wires
      BY DEF ListenerInv, ListenersFlagged
    <2> QED
      BY <2>1, <2>2, ListenerFrame DEF Active
  <1> QED
    BY <1>1, <1>2, <1>3, <1>4 DEF Reconcile

\* Every step keeps the listeners apart.
LEMMA ListenerInvStep == TypeOK /\ RegistryInv /\ ListenerInv /\ [Next]_vars => ListenerInv'
  <1> SUFFICES ASSUME TypeOK, RegistryInv, ListenerInv, [Next]_vars
               PROVE  ListenerInv'
    OBVIOUS
  <1>1. ASSUME NEW g \in Listeners, ListenerStep(g)
        PROVE  ListenerInv'
    BY <1>1, ListenerListener
  <1>2. CASE ReconcilerStep
    BY <1>2, ListenerReconcile, ListenerClose DEF ReconcilerStep, Threads
  <1>3. CASE StopperStep
    BY <1>3, ListenerClose DEF StopperStep, Threads
  <1>4. CASE Terminate \/ Kill
    <2>1. /\ \A t \in Threads \ {Stopper} : pc'[t] = pc[t] /\ wire'[t] = wire[t]
          /\ UNCHANGED <<listening, taskAgentSession>>
      BY <1>4 DEF Terminate, Kill, Goto, TypeOK, WireTypeOK, wireVars, threadVars
    <2> QED
      BY <2>1, DistinctThreads, ListenerFrame DEF Active, Threads
  <1>5. CASE Restart
    BY <1>5 DEF Restart, WireRestart, Inactive, Threads, ListenerInv, ListenersFlagged, AtMostOneListener,
                SessionNotReplaced, Active
  <1>6. CASE Environment
    <2>1. UNCHANGED operatorVars
      BY <1>6
      DEF Environment, CacheSync, Touch, DeleteActionsRunner, CollectActionsRunner, CreateActionsRunner,
          RunnerConnects, RunnerTakesJob, JobEnds, JobDisrupted, JobRemoved, SessionExpires, NewMessage
    <2> QED
      BY <2>1, ListenerFrame DEF Active, operatorVars, wireVars, threadVars
  <1>7. CASE UNCHANGED vars
    BY <1>7, ListenerFrame DEF Active, vars, wireVars, threadVars
  <1> QED
    BY <1>1, <1>2, <1>3, <1>4, <1>5, <1>6, <1>7 DEF Next

\* However the reconciler, the listeners and their deferred functions interleave, a Wire
\* has at most one listener, and its session is not replaced under it.
THEOREM ListenersCorrect == Spec => [](AtMostOneListener /\ SessionNotReplaced)
  <1>1. Init => ListenerInv
    BY ListenerInit
  <1>2. TypeOK /\ RegistryInv /\ ListenerInv /\ [Next]_vars => ListenerInv'
    BY ListenerInvStep
  <1>3. ListenerInv => AtMostOneListener /\ SessionNotReplaced
    BY DEF ListenerInv
  <1> QED
    BY <1>1, <1>2, <1>3, TypeCorrect, RegistryCorrect, PTL DEF Spec

\* Nobody replaces the session of a Wire under its listener, with any number of goroutines.
THEOREM SessionKept == Spec => []SessionNotReplaced
  BY ListenersCorrect, PTL

-----------------------------------------------------------------------------
(* Job requests between a listener and the reconciler.                     *)

\* There is no token at first.
LEMMA RequestInit == Init => NoLostJobRequest
  BY DEF Init, WireInit, NoLostJobRequest

\* A step that leaves the reconciler, the registry and the tokens alone keeps
\* NoLostJobRequest if it dequeues nothing and ends no event that is being sent.
LEMMA RequestFrame ==
  ASSUME NoLostJobRequest,
         process' = "running" => process = "running",
         ar' = "live" => ar = "live" \/ queued',
         cachedArj' = "absent" => cachedArj = "absent" \/ queued',
         registry' = registry, registry # None => jobRequests'[registry] = jobRequests[registry],
         queued => queued',
         pc'[Reconciler] = pc[Reconciler] \/ pc'[Reconciler] \in BeforeSelect \/ pc[Reconciler] \notin BeforeSelect,
         \A g \in Listeners : pc[g] = "event" => queued' \/ (pc'[g] = "event" /\ wire'[g] = wire[g])
  PROVE  NoLostJobRequest'
  BY DEF NoLostJobRequest

\* The steps of a listener.
LEMMA RequestListener ==
  ASSUME TypeOK, NoLostJobRequest, NEW g \in Listeners, ListenerStep(g)
  PROVE  NoLostJobRequest'
  <1> USE DistinctThreads DEF Threads, Goto, Panic, TypeOK, WireTypeOK
  <1>1. UNCHANGED <<registry, ar, cachedArj>> /\ Listener(g)
    BY DEF ListenerStep, objectVars
  <1>2. CASE \/ ListenerOpen(g) \/ ListenerLoop(g) \/ ListenerPoll(g) \/ ListenerAck(g)
             \/ ListenerStop(g) \/ ListenerRecover(g) \/ Close(g)
    <2>1. UNCHANGED jobRequests /\ (queued => queued') /\ (process' = "running" => process = "running")
      BY <1>2 DEF ListenerOpen, ListenerLoop, ListenerPoll, ListenerAck, ListenerStop, ListenerRecover, Close,
                  CloseCheck, CloseChannel, DeinitSession, ClearSession, wireVars
    <2>2. /\ pc[g] # "event"
          /\ \A t \in Threads \ {g} : pc'[t] = pc[t] /\ wire'[t] = wire[t]
      BY <1>2 DEF ListenerOpen, ListenerLoop, ListenerPoll, ListenerAck, ListenerStop, ListenerRecover, Close,
                  CloseCheck, CloseChannel, DeinitSession, ClearSession
    <2> QED
      BY <1>1, <2>1, <2>2, RequestFrame
  <1>3. CASE ListenerToken(g)
    <2>1. /\ pc'[g] = "event"
          /\ \A t \in Threads \ {g} : pc'[t] = pc[t]
          /\ UNCHANGED <<wire, queued, process>>
          /\ \A w \in Wires \ {wire[g]} : jobRequests'[w] = jobRequests[w]
      BY <1>3 DEF ListenerToken
    <2>2. CASE wire[g] = registry
      BY <1>1, <2>1, <2>2 DEF NoLostJobRequest
    <2>3. CASE wire[g] # registry
      BY <1>1, <2>1, <2>3 DEF NoLostJobRequest
    <2> QED
      BY <2>2, <2>3
  <1>4. CASE ListenerEvent(g)
    <2>1. /\ process = "running" => queued'
          /\ \A t \in Threads \ {g} : pc'[t] = pc[t]
          /\ queued => queued'
          /\ UNCHANGED <<wire, jobRequests, process>>
      BY <1>4 DEF ListenerEvent, wireVars
    <2> QED
      BY <1>1, <2>1 DEF NoLostJobRequest
  <1> QED
    BY <1>1, <1>2, <1>3, <1>4 DEF Listener

\* The steps of Reconcile: it takes a request only from the registered Wire.
LEMMA RequestReconcile ==
  ASSUME TypeOK, RegistryInv, NoLostJobRequest, Reconcile
  PROVE  NoLostJobRequest'
  <1> USE DistinctThreads DEF Threads, Goto, Return, ReturnError, Continue, TypeOK, WireTypeOK, BeforeSelect
  <1>1. CASE ReconcileStart
    BY <1>1 DEF ReconcileStart, NoLostJobRequest, objectVars
  <1>2. CASE ReconcileStartFails
    BY <1>2, RequestFrame DEF ReconcileStartFails, wireVars, threadVars, objectVars
  <1>3. CASE ReconcileDestroy
    BY <1>3 DEF ReconcileDestroy, NoLostJobRequest, wireVars, objectVars
  <1>4. CASE ReconcileMake
    BY <1>4 DEF ReconcileMake, RegisterAgent, NoLostJobRequest, objectVars
  <1>5. CASE ReconcileInitFailed
    BY <1>5 DEF ReconcileInitFailed, NoLostJobRequest
  <1>6. CASE ReconcileDotFiles
    BY <1>6 DEF ReconcileDotFiles, NoLostJobRequest
  <1>7. CASE ReconcileJob
    <2>1. wire[Reconciler] = registry
      BY <1>7 DEF ReconcileJob, RegistryInv, WorksOnRegistered, HasWire
    <2> QED
      BY <1>7, <2>1 DEF ReconcileJob, Answers, NoLostJobRequest
  <1>8. CASE ReconcileCreate \/ ReconcileListening
    <2>1. /\ pc[Reconciler] \notin BeforeSelect
          /\ \A g \in Listeners : pc'[g] = pc[g] /\ wire'[g] = wire[g]
          /\ queued => queued'
          /\ UNCHANGED <<process, ar, cachedArj, registry, jobRequests>>
      BY <1>8 DEF ReconcileCreate, ReconcileListening, wireVars, objectVars
    <2> QED
      BY <2>1, RequestFrame
  <1>9. CASE ReconcileListen
    <2>1. /\ pc[Reconciler] \notin BeforeSelect
          /\ \A g \in Listeners : pc[g] = "event" => pc'[g] = pc[g] /\ wire'[g] = wire[g]
          /\ UNCHANGED <<queued, process, ar, cachedArj, registry, jobRequests>>
      BY <1>9 DEF ReconcileListen, Listen, FreeListener, objectVars
    <2> QED
      BY <2>1, RequestFrame
  <1> QED
    BY <1>1, <1>2, <1>3, <1>4, <1>5, <1>6, <1>7, <1>8, <1>9 DEF Reconcile

\* Every step keeps the tokens accounted for.
LEMMA RequestStep == TypeOK /\ RegistryInv /\ NoLostJobRequest /\ [Next]_vars => NoLostJobRequest'
  <1> SUFFICES ASSUME TypeOK, RegistryInv, NoLostJobRequest, [Next]_vars
               PROVE  NoLostJobRequest'
    OBVIOUS
  <1>1. ASSUME NEW g \in Listeners, ListenerStep(g)
        PROVE  NoLostJobRequest'
    BY <1>1, RequestListener
  <1>2. CASE Reconcile
    BY <1>2, RequestReconcile
  <1>3. CASE (Close(Reconciler) \/ Close(Stopper)) /\ UNCHANGED <<registry, objectVars>>
    <2>1. /\ pc'[Reconciler] = pc[Reconciler] \/ pc'[Reconciler] \in BeforeSelect
          /\ \A g \in Listeners : pc'[g] = pc[g]
          /\ process' = "running" => process = "running"
          /\ UNCHANGED <<wire, jobRequests, queued>>
      BY <1>3, DistinctThreads
      DEF Close, CloseCheck, CloseChannel, DeinitSession, ClearSession, AfterClose, Goto, BeforeSelect,
          TypeOK, WireTypeOK, Threads, wireVars
    <2> QED
      BY <1>3, <2>1, RequestFrame DEF objectVars
  <1>4. CASE Terminate \/ Kill
    BY <1>4 DEF Terminate, Kill, NoLostJobRequest
  <1>5. CASE Restart
    BY <1>5 DEF Restart, NoLostJobRequest
  <1>6. CASE Environment
    <2>1. /\ UNCHANGED operatorVars
          /\ queued => queued'
          /\ ar' = "live" => ar = "live" \/ queued'
          /\ cachedArj' = "absent" => cachedArj = "absent" \/ queued'
      <3>1. CASE CacheSync
        BY <3>1 DEF CacheSync
      <3>2. CASE ~CacheSync
        BY <1>6, <3>2
        DEF Environment, Touch, DeleteActionsRunner, CollectActionsRunner, CreateActionsRunner,
            RunnerConnects, RunnerTakesJob, JobEnds, JobDisrupted, JobRemoved, SessionExpires, NewMessage, objectVars
      <3> QED
        BY <3>1, <3>2
    <2> QED
      BY <2>1, RequestFrame DEF operatorVars, wireVars, threadVars
  <1>7. CASE UNCHANGED vars
    BY <1>7, RequestFrame DEF vars, wireVars, threadVars, objectVars
  <1> QED
    BY <1>1, <1>2, <1>3, <1>4, <1>5, <1>6, <1>7 DEF Next, ReconcilerStep, StopperStep

\* No interleaving of the listener's two sends with the reconciler's select, and no error
\* of a reconciliation, leaves a job request in the buffer that nobody will look at.
THEOREM RequestsCorrect == Spec => []NoLostJobRequest
  <1>1. Init => NoLostJobRequest
    BY RequestInit
  <1>2. TypeOK /\ RegistryInv /\ NoLostJobRequest /\ [Next]_vars => NoLostJobRequest'
    BY RequestStep
  <1> QED
    BY <1>1, <1>2, TypeCorrect, RegistryCorrect, PTL DEF Spec

-----------------------------------------------------------------------------
(* Acknowledgements.                                                       *)

\* Nothing is acknowledged at first.
LEMMA AckInit == Init => AcksNoJob /\ ValidJobNeverAcked
  BY DEF Init, LifecycleInit, AzureDevOpsInit, WireInit, Inactive, Threads, Messages, Requests, AcksNoJob, ValidJobNeverAcked

\* No step acknowledges a job request that the policy allows, or gets ready to.
LEMMA AckStep == TypeOK /\ AcksNoJob /\ ValidJobNeverAcked /\ [Next]_vars => (AcksNoJob /\ ValidJobNeverAcked)'
  <1> SUFFICES ASSUME TypeOK, AcksNoJob, ValidJobNeverAcked, [Next]_vars
               PROVE  AcksNoJob' /\ ValidJobNeverAcked'
    OBVIOUS
  <1> USE DistinctThreads DEF Threads, Goto, Panic, TypeOK, AzureDevOpsTypeOK, WireTypeOK, AcksNoJob, ValidJobNeverAcked
  <1>1. ASSUME NEW g \in Listeners, ListenerStep(g)
        PROVE  AcksNoJob' /\ ValidJobNeverAcked'
    <2>1. CASE ListenerPoll(g)
      BY <2>1 DEF ListenerPoll
    <2>2. CASE ListenerAck(g)
      <3>1. \A j \in Jobs : message'[j] = message[j]
        BY <2>2 DEF ListenerAck, DeleteMessage, Messages, Requests
      <3>2. \A h \in Listeners : pc'[h] = "ack" => pc[h] = "ack" /\ received'[h] = received[h]
        BY <2>2 DEF ListenerAck
      <3> QED
        BY <3>1, <3>2
    <2>3. CASE ListenerToken(g)
      BY <2>3 DEF ListenerToken, adoVars
    <2>4. CASE \/ ListenerOpen(g) \/ ListenerLoop(g) \/ ListenerEvent(g) \/ ListenerStop(g) \/ ListenerRecover(g)
               \/ Close(g)
      BY <2>4 DEF ListenerOpen, ListenerLoop, ListenerEvent, ListenerStop, ListenerRecover, Close, CloseCheck,
                  CloseChannel, DeinitSession, ClearSession, AfterClose, adoVars
    <2> QED
      BY <1>1, <2>1, <2>2, <2>3, <2>4 DEF ListenerStep, Listener
  <1>2. CASE Reconcile
    <2>1. UNCHANGED <<message, received>>
      BY <1>2
      DEF Reconcile, ReconcileStart, ReconcileStartFails, ReconcileDestroy, ReconcileMake, RegisterAgent, ReconcileInitFailed,
          ReconcileDotFiles, ReconcileJob, ReconcileCreate, ReconcileListen, ReconcileListening, adoVars, threadVars
    <2>2. \A h \in Listeners : pc'[h] = pc[h] \/ pc'[h] = "open"
      <3>1. CASE ReconcileListen
        BY <3>1 DEF ReconcileListen, Listen, Return
      <3>2. CASE ReconcileMake \/ ReconcileDestroy \/ ReconcileInitFailed
        BY <3>2 DEF ReconcileMake, RegisterAgent, ReconcileDestroy, ReconcileInitFailed, Return, ReturnError, Continue
      <3>3. CASE ~ReconcileListen /\ ~ReconcileMake /\ ~ReconcileDestroy /\ ~ReconcileInitFailed
        BY <1>2, <3>3
        DEF Reconcile, ReconcileStart, ReconcileStartFails, ReconcileDotFiles, ReconcileJob, ReconcileCreate,
            ReconcileListening, Return, ReturnError, Continue, threadVars
      <3> QED
        BY <3>1, <3>2, <3>3
    <2> QED
      BY <2>1, <2>2
  <1>3. CASE Close(Reconciler) \/ Close(Stopper)
    BY <1>3 DEF Close, CloseCheck, CloseChannel, DeinitSession, ClearSession, adoVars
  <1>4. CASE Terminate \/ Kill \/ Restart
    BY <1>4 DEF Terminate, Kill, Restart, WireRestart, Inactive, adoVars, threadVars
  <1>5. CASE Environment
    <2>1. UNCHANGED threadVars
      BY <1>5
      DEF Environment, CacheSync, Touch, DeleteActionsRunner, CollectActionsRunner, CreateActionsRunner,
          RunnerConnects, RunnerTakesJob, JobEnds, JobDisrupted, JobRemoved, SessionExpires, NewMessage, operatorVars
    <2>2. message' = message \/ RunnerTakesJob \/ NewMessage
      BY <1>5
      DEF Environment, CacheSync, Touch, DeleteActionsRunner, CollectActionsRunner, CreateActionsRunner,
          RunnerConnects, JobEnds, JobDisrupted, JobRemoved, SessionExpires, adoVars
    <2>3. \A j \in Jobs : message'[j] # "acked"
      BY <2>2 DEF RunnerTakesJob, RunnerTakes, NewMessage, Enqueue, Messages, Requests
    <2> QED
      BY <2>1, <2>3 DEF threadVars
  <1>6. CASE UNCHANGED vars
    BY <1>6 DEF vars, adoVars, threadVars
  <1> QED
    BY <1>1, <1>2, <1>3, <1>4, <1>5, <1>6 DEF Next, ReconcilerStep, StopperStep

\* The operator leaves every job request its policy allows to the runner.
THEOREM JobsLeftToRunner == Spec => []ValidJobNeverAcked
  <1>1. Init => AcksNoJob /\ ValidJobNeverAcked
    BY AckInit
  <1>2. TypeOK /\ AcksNoJob /\ ValidJobNeverAcked /\ [Next]_vars => (AcksNoJob /\ ValidJobNeverAcked)'
    BY AckStep
  <1> QED
    BY <1>1, <1>2, TypeCorrect, PTL DEF Spec

=============================================================================
