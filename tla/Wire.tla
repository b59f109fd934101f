------------------------------- MODULE Wire -------------------------------
(***************************************************************************)
(* wire/wire.go: the Wire object that connects one ActionsRunner to ADO,   *)
(* and the goroutines that work on it.  A Wire is shared without a common  *)
(* lock by the listener goroutine of Wire.Listen, by the reconciler and by *)
(* the goroutine Collection.Deinit starts; "pc" is where each of them is,  *)
(* one label per access to shared state.                                   *)
(***************************************************************************)
EXTENDS AzureDevOps

VARIABLES
    invalid,           \* Wire.invalid
    listening,         \* Wire.listening
    loopClose,         \* Wire.loopClose: a nil, an open or a closed channel
    jobRequests,       \* how many tokens are in Wire.jobRequests (capacity 1)
    taskAgentSession,  \* Wire.adoFacade.TaskAgentSession
    pc,                \* what each goroutine does next
    wire,              \* the Wire each goroutine works on
    received,          \* the message a listener got last
    panicking,         \* the listeners that unwind because of an error
    process,           \* the operator: "running", "gone" (SIGTERM) or "crashed"
    queued             \* the workqueue holds a request for this ActionsRunner

wireVars   == <<invalid, listening, loopClose, jobRequests, taskAgentSession>>
threadVars == <<pc, wire, received, panicking>>

ListenerLabels == {"free", "open", "loop", "poll", "ack", "token", "event", "unlisten",
                   "close", "closeChan", "session", "clear", "recover"}

ReconcilerLabels == {"idle", "close", "closeChan", "session", "clear",
                     "destroy", "make", "initFailed", "dotFiles", "job",
                      "create", "listen", "listening"}

StopperLabels == {"idle", "close", "closeChan", "session", "clear"}

Channels == {"nil", "open", "closed"}

WireTypeOK ==
    /\ invalid          \in [Wires -> BOOLEAN]
    /\ listening        \in [Wires -> BOOLEAN]
    /\ loopClose        \in [Wires -> Channels]
    /\ jobRequests      \in [Wires -> 0..1]
    /\ taskAgentSession \in [Wires -> Sessions]
    /\ pc \in [Threads -> ListenerLabels \cup ReconcilerLabels]
    /\ \A g \in Listeners : pc[g] \in ListenerLabels
    /\ pc[Reconciler] \in ReconcilerLabels
    /\ pc[Stopper] \in StopperLabels
    /\ wire      \in [Threads -> Wires \cup {None}]
    /\ received  \in [Listeners -> Messages \cup {None}]
    /\ panicking \in SUBSET Listeners
    /\ process   \in {"running", "gone", "crashed"}
    /\ queued    \in BOOLEAN

EachWire(v) == [w \in Wires |-> v]
Inactive    == [t \in Threads |-> IF t \in Listeners THEN "free" ELSE "idle"]

\* The memory of a process that has just started
WireInit ==
    /\ invalid   = EachWire(FALSE)
    /\ listening = EachWire(FALSE)
    /\ loopClose = EachWire("nil")
    /\ jobRequests = EachWire(0)
    /\ taskAgentSession = EachWire(None)
    /\ pc   = Inactive
    /\ wire = [t \in Threads |-> None]
    /\ received  = [g \in Listeners |-> None]
    /\ panicking = {}
    /\ process = "running"
    /\ queued  = TRUE

\* A new process replaces one that has ended.
WireRestart ==
    /\ invalid'   = EachWire(FALSE)
    /\ listening' = EachWire(FALSE)
    /\ loopClose' = EachWire("nil")
    /\ jobRequests' = EachWire(0)
    /\ taskAgentSession' = EachWire(None)
    /\ pc'   = Inactive
    /\ wire' = [t \in Threads |-> None]
    /\ received'  = [g \in Listeners |-> None]
    /\ panicking' = {}
    /\ process' = "running"
    /\ queued'  = TRUE

Goto(t, label) == pc' = [pc EXCEPT ![t] = label]

\* A panic of the listener unwinds to the deferred function.
Panic(g) ==
    /\ panicking' = panicking \cup {g}
    /\ Goto(g, "unlisten")

-----------------------------------------------------------------------------
(* The listener goroutine, wire.go 228-335.                                *)

\* The first RefreshForRun and the session.  An error makes the Wire invalid; the
\* answer of a CreateAgentSession that created a session may be lost.
ListenerOpen(g) ==
    LET w  == wire[g]
        ok == CreateAgentSession(w)
    IN  /\ pc[g] = "open"
        /\ \/ /\ Answers(ok)
              /\ session' = g
              /\ taskAgentSession' = [taskAgentSession EXCEPT ![w] = g]
              /\ Goto(g, "loop")
              /\ UNCHANGED <<invalid, panicking>>
           \/ /\ Fails(ok)
              /\ \/ UNCHANGED session
                 \/ ok /\ taskAgentSession[w] # g /\ session' = g
              /\ invalid' = [invalid EXCEPT ![w] = TRUE]
              /\ Panic(g)
              /\ UNCHANGED taskAgentSession
        /\ UNCHANGED <<agent, message, listening, loopClose, jobRequests,
                       wire, received, process, queued>>

\* for !w.isClosed(): RefreshForRun, then GetMessage is sent unless the facade has no session
ListenerLoop(g) ==
    LET w  == wire[g]
        ok == RefreshForRun(w) /\ taskAgentSession[w] # None
    IN  /\ pc[g] = "loop"
        /\ \/ /\ loopClose[w] # "open"
              /\ Goto(g, "unlisten")
              /\ UNCHANGED <<faults, panicking>>
           \/ /\ loopClose[w] = "open"
              /\ \/ /\ Answers(ok)
                    /\ Goto(g, "poll")
                    /\ UNCHANGED panicking
                 \/ Fails(ok) /\ Panic(g)
        /\ UNCHANGED <<agent, session, message, wireVars, wire, received, process, queued>>

\* Variant: a valid job request does not leave the loop before the acknowledgement.
ListenerPollNoBreak(g) ==
    /\ pc[g] = "poll"
    /\ \E m \in Queued :
         /\ Answers(OwnsSession(g))
         /\ received' = [received EXCEPT ![g] = m]
         /\ Goto(g, "ack")
    /\ UNCHANGED <<agent, session, message, wireVars, wire, panicking, process, queued>>

\* The answer to GetMessage: nothing within the long poll, a message, or an error
\* (also one of toMessage, toPipelineAgentJobRequest or Validate).
ListenerPoll(g) ==
    LET ok == OwnsSession(g)
    IN  /\ pc[g] = "poll"
        /\ \/ /\ Answers(ok /\ Queued = {})
              /\ Goto(g, "loop")
              /\ UNCHANGED <<received, panicking>>
           \/ \E m \in Queued :
                /\ Answers(ok)
                /\ received' = [received EXCEPT ![g] = m]
                /\ Goto(g, IF m \in Jobs THEN "token" ELSE "ack")
                /\ UNCHANGED panicking
           \/ Fails(ok) /\ Panic(g) /\ UNCHANGED received
        /\ UNCHANGED <<agent, session, message, wireVars, wire, process, queued>>

\* A request that violates the policy is failed (errors of onPolicyViolation are only
\* logged) and acknowledged; an AgentRefresh is acknowledged and the agent deleted.
ListenerAck(g) ==
    LET w  == wire[g]
        m  == received[g]
        ok == OwnsSession(g) /\ taskAgentSession[w] # None
    IN  /\ pc[g] = "ack"
        /\ \/ /\ Answers(ok)
              /\ DeleteMessage(m)
              /\ \/ m \notin Refreshes /\ UNCHANGED <<agent, session>>
                 \/ m \in Refreshes /\ DeleteAgent
              /\ Goto(g, "loop")
              /\ UNCHANGED panicking
           \/ /\ Fails(ok)
              /\ Panic(g)
              /\ \/ UNCHANGED message
                 \/ ok /\ m \in Refreshes /\ DeleteMessage(m)
              /\ UNCHANGED <<agent, session>>
        /\ received' = [received EXCEPT ![g] = None]
        /\ UNCHANGED <<wireVars, wire, process, queued>>

\* Variant: a channel without a capacity to respect.
ListenerTokenUnbounded(g) ==
    /\ pc[g] = "token"
    /\ jobRequests' = [jobRequests EXCEPT ![wire[g]] = @ + 1]
    /\ received' = [received EXCEPT ![g] = None]
    /\ Goto(g, "event")
    /\ UNCHANGED <<adoVars, invalid, listening, loopClose, taskAgentSession,
                   wire, panicking, process, queued>>

\* w.jobRequests <- struct{}{} blocks while a token is in the buffer
ListenerToken(g) ==
    LET w == wire[g]
    IN  /\ pc[g] = "token"
        /\ jobRequests[w] = 0
        /\ jobRequests' = [jobRequests EXCEPT ![w] = 1]
        /\ received' = [received EXCEPT ![g] = None]
        /\ Goto(g, "event")
        /\ UNCHANGED <<adoVars, invalid, listening, loopClose, taskAgentSession,
                       wire, panicking, process, queued>>

\* w.operatorNotifier <- genericEvent; Deinit closes the channel, a send then panics
ListenerEvent(g) ==
    /\ pc[g] = "event"
    /\ \/ process = "running" /\ queued' = TRUE /\ Goto(g, "unlisten") /\ UNCHANGED panicking
       \/ process # "running" /\ Panic(g) /\ UNCHANGED queued
    /\ UNCHANGED <<adoVars, wireVars, wire, received, process>>

\* The first line of the deferred function; the lock is not held.
ListenerStop(g) ==
    /\ pc[g] = "unlisten"
    /\ listening' = [listening EXCEPT ![wire[g]] = FALSE]
    /\ Goto(g, "close")
    /\ UNCHANGED <<adoVars, invalid, loopClose, jobRequests, taskAgentSession,
                   wire, received, panicking, process, queued>>

\* recover() and trySendEvent, then the goroutine ends
ListenerRecover(g) ==
    /\ pc[g] = "recover"
    /\ queued' = (queued \/ (g \in panicking /\ process = "running"))
    /\ panicking' = panicking \ {g}
    /\ wire' = [wire EXCEPT ![g] = None]
    /\ Goto(g, "free")
    /\ UNCHANGED <<adoVars, wireVars, received, process>>

-----------------------------------------------------------------------------
(* Wire.Close, wire.go 460-475, called by each of the goroutines.          *)

\* Where a goroutine continues when Close has returned
AfterClose(t) ==
    IF t \in Listeners THEN "recover" ELSE IF t = Reconciler THEN "destroy" ELSE "idle"

\* if !w.isClosed()
CloseCheck(t) ==
    /\ pc[t] = "close"
    /\ Goto(t, IF loopClose[wire[t]] = "open" THEN "closeChan" ELSE "session")
    /\ UNCHANGED <<adoVars, wireVars, wire, received, panicking, process, queued>>

\* close(w.loopClose) panics when another goroutine has closed the channel since the
\* check: in the deferred function no recover follows, nor in the other goroutines.
CloseChannel(t) ==
    LET w == wire[t]
    IN  /\ pc[t] = "closeChan"
        /\ \/ /\ loopClose[w] = "open"
              /\ loopClose' = [loopClose EXCEPT ![w] = "closed"]
              /\ Goto(t, "session")
              /\ UNCHANGED process
           \/ /\ loopClose[w] # "open"
              /\ process' = "crashed"
              /\ UNCHANGED <<loopClose, pc>>
        /\ UNCHANGED <<adoVars, invalid, listening, jobRequests, taskAgentSession,
                       wire, received, panicking, queued>>

\* DeinitAzureDevOpsTaskAgentSession returns when the facade has no session, else
\* DeleteAgentSession reads the facade's session once more to delete it: a goroutine that
\* clears it between the two reads causes a nil dereference.
DeinitSession(t) ==
    LET w == wire[t]
        s == taskAgentSession[w]
    IN  /\ pc[t] = "session"
        /\ \/ /\ s = None
              /\ Goto(t, AfterClose(t))
              /\ UNCHANGED <<session, faults, process>>
           \/ /\ s # None
              /\ Answers(OwnsSession(s))
              /\ session' = None
              /\ Goto(t, "clear")
              /\ UNCHANGED process
           \/ /\ s # None
              /\ Fails(OwnsSession(s))
              /\ Goto(t, AfterClose(t))
              /\ UNCHANGED <<session, process>>
           \/ /\ s # None
              /\ \E u \in Threads \ {t} : pc[u] = "clear" /\ wire[u] = w
              /\ process' = "crashed"
              /\ UNCHANGED <<session, faults, pc>>
        /\ UNCHANGED <<agent, message, wireVars, wire, received, panicking, queued>>

\* ado.TaskAgentSession = nil
ClearSession(t) ==
    /\ pc[t] = "clear"
    /\ taskAgentSession' = [taskAgentSession EXCEPT ![wire[t]] = None]
    /\ Goto(t, AfterClose(t))
    /\ UNCHANGED <<adoVars, invalid, listening, loopClose, jobRequests,
                   wire, received, panicking, process, queued>>

Close(t) == CloseCheck(t) \/ CloseChannel(t) \/ DeinitSession(t) \/ ClearSession(t)

Listener(g) ==
    \/ ListenerOpen(g)  \/ ListenerLoop(g)  \/ ListenerPoll(g) \/ ListenerAck(g)
    \/ ListenerToken(g) \/ ListenerEvent(g) \/ ListenerStop(g) \/ ListenerRecover(g)
    \/ Close(g)

=============================================================================
