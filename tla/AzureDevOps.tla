---------------------------- MODULE AzureDevOps ----------------------------
(***************************************************************************)
(* The Azure DevOps (ADO) distributed task service of one ActionsRunner,   *)
(* as facades/ado.go uses it.  The service is external: what is modelled   *)
(* is the part of its state the operator's calls read and write.           *)
(*                                                                         *)
(*  - An agent is registered under the name of the ActionsRunner with the  *)
(*    public key of the Wire that registered it (dot.NewRSAParameters      *)
(*    makes a key pair per Wire), so "agent" is the Wire whose key the     *)
(*    service accepts.                                                     *)
(*  - An agent has at most one session: a second CreateAgentSession is     *)
(*    refused with a conflict.  A session is named after who created it: a *)
(*    listener goroutine, the reconciler (the probe of Wire.init) or the   *)
(*    runner container of the job's pod.                                   *)
(*  - A message stays queued until it is acknowledged with DeleteMessage.  *)
(*    At most one job request is outstanding: an agent runs one job.       *)
(***************************************************************************)
EXTENDS Naturals

CONSTANTS
    Wires,        \* Wire objects, each with its own key pair
    Listeners,    \* goroutines that Wire.Listen may start
    Reconciler,   \* the workqueue's worker for this ActionsRunner
    Stopper,      \* the goroutine Collection.Deinit starts on SIGTERM
    Runner,       \* the runner container of the ActionsRunnerJob's pod
    Jobs,         \* PipelineAgentJobRequests the policy of the runner allows
    BadJobs,      \* PipelineAgentJobRequests that violate a rule of the policy
    Refreshes,    \* AgentRefresh messages
    None,
    MaxFaults     \* bound: calls to ADO, GitHub or Kubernetes that fail

Threads  == Listeners \cup {Reconciler, Stopper}
Requests == Jobs \cup BadJobs
Messages == Requests \cup Refreshes

ASSUME DistinctThreads ==
    /\ None \notin Wires \cup Threads \cup {Runner} \cup Messages
    /\ Runner \notin Threads
    /\ Reconciler \notin Listeners
    /\ Stopper \notin Listeners
    /\ Reconciler # Stopper

ASSUME DistinctMessages ==
    /\ Jobs \cap (BadJobs \cup Refreshes) = {}
    /\ BadJobs \cap Refreshes = {}

ASSUME FaultBound == MaxFaults \in Nat

VARIABLES
    agent,     \* the Wire whose public key the agent is registered with
    session,   \* who created the agent's session
    message,   \* where each message is
    faults     \* calls that may still fail for no reason of the model's

adoVars == <<agent, session, message, faults>>

Sessions == Threads \cup {Runner, None}
Stages   == {"unsent", "queued", "taken", "acked"}

AzureDevOpsTypeOK ==
    /\ agent   \in Wires \cup {None}
    /\ session \in Sessions
    /\ message \in [Messages -> Stages]
    /\ faults  \in 0..MaxFaults

AzureDevOpsInit ==
    /\ agent   = None
    /\ session = None
    /\ message = [m \in Messages |-> "unsent"]
    /\ faults  = MaxFaults

-----------------------------------------------------------------------------
(* How a call ends.  "ok" says that the service would accept it.           *)

\* A call that would be accepted fails: network, rate limit, 5xx, timeout.
Fault == faults > 0 /\ faults' = faults - 1

\* The call returns without error.
Answers(ok) == ok /\ UNCHANGED faults

\* The call returns an error: it is refused, or it would be accepted and fails.
Fails(ok) == \/ ~ok /\ UNCHANGED faults
             \/ ok /\ Fault

-----------------------------------------------------------------------------
(* The conditions under which the service accepts the calls of the facade. *)

\* RefreshForRun exchanges a JWT signed with the Wire's key for an access
\* token, which works only for the key the agent is registered with.
RefreshForRun(w) == agent = w

\* InitAzureDevOpsTaskAgentSession -> CreateAgentSession
CreateAgentSession(w) == RefreshForRun(w) /\ session = None

\* GetMessage, DeleteMessage and DeleteAgentSession name a session
OwnsSession(s) == session = s

\* DeleteMessage: the acknowledgement that takes m out of the queue
DeleteMessage(m) == message' = [message EXCEPT ![m] = "acked"]

\* initAzureDevOpsTaskAgent: the agent of that name is added, or replaced together with its
\* key if there is one.
RegisterAgent(w) == agent' = w

\* Deleting an agent ends its session.
DeleteAgent == agent' = None /\ session' = None

-----------------------------------------------------------------------------
(* Steps of the service and of the runner container, which is a client of  *)
(* its own: the operator only learns of it through the ActionsRunnerJob.   *)

Queued == {m \in Messages : message[m] = "queued"}

\* A workflow job is assigned to the agent, or the service wants it refreshed.
Enqueue(m) ==
    /\ message[m] = "unsent"
    /\ m \in Requests => Queued \cap Requests = {}
    /\ message' = [message EXCEPT ![m] = "queued"]
    /\ UNCHANGED <<agent, session, faults>>

\* The runner container takes the job request and acknowledges it.
RunnerTakes(m) ==
    /\ session = Runner
    /\ m \in Requests
    /\ message[m] = "queued"
    /\ message' = [message EXCEPT ![m] = "taken"]
    /\ UNCHANGED <<agent, session, faults>>

=============================================================================
