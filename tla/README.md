# Verification of kube-actions

kube-actions is a Kubernetes operator that runs GitHub Actions jobs in pods that exist
only while there is a job. GitHub Actions hands jobs to self-hosted runners through the
Azure DevOps (ADO) distributed task service: the operator registers an *agent* per
`ActionsRunner` (AR) object, listens to the agent's message queue itself, and when a job
that the runner's policy allows is queued it stops listening and starts a pod whose runner
container takes the job from the same queue, with the same credentials.

This directory models the operator and the two containers of the pod in TLA+, checks small
instances with TLC and proves every safety property the passing runs check, for all values of
the bounds, with TLAPS. References such as `wire.go 228-335` are to `src/operator/internal/controller/...`; `PROJECT.json` maps every definition to its lines.

## 1. The system

| Component | State it keeps | Operations | Interacts through |
|---|---|---|---|
| **Wire** (`actionsrunner/wire/wire.go`) | `invalid`, `listening`, `loopClose`, `jobRequests` (a channel of capacity 1), dot files with a key pair, the facade's session | `Init`, `Listen` (starts the listener goroutine), `Close`, `Destroy` | ADO calls; a token in `jobRequests` and a generic event for the reconciler |
| **Collection** (`wire/collection.go`) | registry: AR key -> Wire | `WireFor` (= `GetWire` else `MakeWire`), `TryDestroy`, `Deinit` | called by the reconciler and by the SIGTERM handler |
| **AR reconciler** (`actionsrunner/reconciler.go`) | none of its own but `gone` | `Reconcile`, `eventFilter`, signal handler | informer cache, ConfigMap, Secret, PodDisruptionBudget, `ActionsRunnerJob` (ARJ) |
| **ARJ reconciler** (`actionsrunnerjob/reconciler.go`) | ARJ status | `Reconcile`, `eventFilter` | PersistentVolumeClaim, pod, ARJ status (read by the AR reconciler) |
| **ActionsRunnerReplicaSet (ARRS) reconciler** (`actionsrunnerreplicaset/reconciler.go`) | ARRS status | `Reconcile` | creates, deletes and updates ARs |
| **ADO facade** (`facades/ado.go`) | the agent, its session, clients | register, delete, create/delete session, get/delete message | the ADO service (external) |
| **GitHub facade** (`facades/gh.go`) | client, repository, token and credential caches with mutexes | `Init`, `GetGitHubTenantCredential` | the GitHub API (external) |
| **Policy validator** (`wire/validator.go`, `wire/context.go`) | compiled rules | `Validate`, `Flattened` | called by the listener |
| **Converters, dot files** (`util/`, `dot/`) | none | `ToConfigMap`, `ToSecret`, `ToPod`, ... | used by the reconcilers |
| **Webhooks, API types** (`api/v1alpha1`) | none | validation of submitted objects | API server |
| **dind** (`src/dind`) | `Cache` (networks, containers, PIDs of proxies), used octets, NETMAP rules, socat processes | docker event loop, `main` with its handlers, port 2378 | docker daemon, iptables, socat; unbuffered channels between its goroutines |
| **runner** (`src/runner`) | the results of four goroutines | setup, the GitHub Actions runner, metrics, request to dind | docker daemon, dind's port 2378 |

### What is hard here

* **Goroutines.** A Wire is touched by its listener, by the reconciler and by the SIGTERM
  handler. `listening` is cleared without its lock, `Close` checks and closes in two steps,
  the session pointer of the facade is shared.
* **Two queues, one job.** ADO's queue, the one-token channel and the workqueue have to agree
  although each may be ahead of the others: a token may arrive when `Reconcile` is past its
  `select`, an ARJ may be in the way, the creation of the ARJ may fail after the token is gone.
* **Stale caches.** All three reconcilers read from informer caches that lag behind the API
  server independently of each other, and two of them filter events.
* **Failure half-way.** Every call to ADO, GitHub or Kubernetes may fail: after the agent is
  registered, between ConfigMap and Secret, between the creation of an AR and the status.
* **Restarts.** The registry is in memory: a new process makes a new key pair while the pod of
  the old process still runs with the old one and holds the agent's only session.
* **Things that expire.** The GitHub facade hands out clients, tokens and credentials from
  caches that all reconciliations share, behind a lookup, a mutex and a second lookup; each may
  expire while a caller waits.
* **Two containers and a daemon.** The runner and dind start, fail and end independently; dind
  learns what the daemon does from a stream that is not replayed, in one goroutine, and acts on
  it in another.

### What makes each component correct

* Wire: at most one listener per Wire; nobody replaces the session under a listener; a valid
  job request is never acknowledged by the operator; a listener that ends can be started again.
* AR reconciler with its Wire: a token is never forgotten; a pod gets the dot files and the
  registered key of one Wire; a queued job is eventually served; the agent of a deleted AR goes.
* ARJ reconciler: it does not come to rest with an outdated status; a job comes to an end; the
  ARJ goes through the life cycle on which the AR reconciler relies.
* ARRS reconciler: it does not come to rest with the wrong ARs; they converge.
* GitHub facade: a mutex is held in its critical section and given back on every path; nothing
  usable is fetched; no token is used more often than its limit; no repository escapes the
  checks of owner and visibility; whoever wants a credential gets it.
* dind: at rest the rules and proxies are those of the networks and containers there are; it
  panics only for the causes `PanicHasCause` names; it ends when its daemon does.
* runner: no job before the daemon answers; the setup ends; after it dind is always asked to end.

`PROJECT.json` lists the hazards at the line where each bites, with the properties aimed at it.

## 2. Modules

```
Naturals                       Controller ---- what controller-runtime gives a reconciler
   |                            |        |
AzureDevOps   JobLifecycle      |        |
   |            |    :..........|........:  (ActionsRunnerJob implements JobLifecycle)
  Wire          |    ActionsRunnerJob   ActionsRunnerReplicaSet
     \         /            |                    |
    ActionsRunner     MCActionsRunnerJob   MCActionsRunnerReplicaSet
     /         \      ActionsRunnerJobProofs   ActionsRunnerReplicaSetProofs
MCActionsRunner ActionsRunnerProofs

Docker --- Dind --- Runner --- Pod --- MCPod          GitHub --- MCGitHub, GitHubProofs
                                |
                            PodProofs --- PodNetworkProofs --- PodProxyProofs
```

**AzureDevOps** (external service, as `facades/ado.go` uses it). `agent` is the Wire whose
public key the service accepts (a key pair is made per Wire, so a Wire stands for its key and
its dot files), `session` who created the agent's one session, `message` where each message is
(`unsent`, `queued`, `taken` by a runner, `acked` by the operator). `Answers(ok)` and
`Fails(ok)` are the two outcomes of a call: a call that would be accepted may fail while the
budget `faults` lasts, one that would be refused always fails.

**Wire.** The fields of a Wire as functions of the Wire (`invalid`, `listening`, `loopClose`,
`jobRequests`, `taskAgentSession`), and the goroutines: `pc`, `wire` (what the goroutine works
on), `received`, `panicking`. One action per stretch of code between two points where another
goroutine can matter: `ListenerOpen`, `ListenerLoop`, `ListenerPoll`, `ListenerAck`,
`ListenerToken`, `ListenerEvent`, then the deferred function `ListenerStop`, `Close`,
`ListenerRecover`. `Close` is three goroutines' code and has one action per step:
`CloseCheck`, `CloseChannel`, `DeinitSession`, `ClearSession`. A panic that no `recover`
follows ends the process (`process = "crashed"`).

**ActionsRunner** adds the registry, the AR, the ARJ and its cached copy, the ConfigMap and the
Secret (each named by the Wire whose dot files it holds) for one AR; keys of the registry and
workqueue items of different ARs are independent. `Reconcile` is split at the points where its
effects become visible: `ReconcileStart` (to `GetWire`), `ReconcileDestroy`, `ReconcileMake`,
`ReconcileInitFailed`, `ReconcileDotFiles`, `ReconcileJob` (to the `select`),
`ReconcileCreate`, `ReconcileListen`, `ReconcileListening`. `Terminate`, `Kill` and `Restart`
are the process; `CacheSync` is the informer with the `eventFilter`, which drops creations of
owned objects; the rest is users, Kubernetes, the pod and ADO.

**JobLifecycle** is the abstract specification of an ARJ: absent, active, completed (as its
status says), deleting, absent. `ActionsRunner` uses its actions for the ARJ, and
**ActionsRunnerJob** is shown to implement it: the two models meet there.

**Controller** is shared by the last two: the label `pc`, the request in the workqueue
(`queued`), and which copies of the reconciled object are at the newest resourceVersion
(`current`), from which optimistic concurrency follows (`UpdateAccepted`, `UpdateRefused`).

**ActionsRunnerJob** models the ARJ, its claim and its pod in the API server and in three
caches. Objects of successive ARJs have the same name and differ in their owner; `TypeOK` includes
that every claim and pod there is has an ARJ as its owner, without which nothing would collect it.

**ActionsRunnerReplicaSet** models the ARRS and its ARs, the list read from the cache (`items`)
and the resourceVersions by comparing what was read with what is there.

**GitHub** models `facades/gh.go`. The globals `githubClient`, `githubRepositories`,
`githubTenantCredentials` are the time they are still good for, `githubTokens` (registration and
remove tokens, whose code is the same twice) also has `rate`, the counter of the code, and `uses`,
how often the token has really been given out. A caller goes through `GitHub.Init`
(`InitGitHubClient`, `Login`, `GetRepository`, `LockRepository`, `FetchRepository`) and
`GetGitHubTenantCredential` (`TryGetCredential`, `LockCredential`, `TryGetToken` twice,
`CreateToken`, `CreateTenantCredential`), as `Wire.init` and `Wire.Destroy` do, and starts again
after an error. The mutexes of the tokens are only taken under that of the credentials and have
no state of their own. `Tick` lets time pass between any two steps.

**Docker** is the daemon inside dind (external): networks with subnets from a pool, containers
that may be started again, and the event stream with what was lost of it. **Dind** has the two
goroutines of `src/dind`: the event loop (`eventPc`: it subscribes, selects, handles one event and
waits in a send) and `main` (`mainPc`: boot, start of the daemon, wait, loop and handlers).
`ReceiveInfo` is their rendezvous on a channel. The Cache is shared without a lock, so the steps
that touch the map of PIDs are actions of their own, and `ConcurrentMapAccess` is what the Go
runtime does if it sees two of them at once. `End` is the end of the process, which takes the
container's daemon and proxies with it. **Runner** has the four goroutines of the setup as steps
(`setup`), the channels `main` receives in order, and `main` with its two deferred calls. **Pod**
puts both together with the job, the kubelet and the probe.

### Modelling decisions

* Steps of the code that no other actor can tell apart are one action: RefreshForRun with the
  creation of the session, the probe session inside `Wire.init`, the two updates of ConfigMap
  and Secret (whose failure in between is a disjunct), the check of `Listening` with the start
  of the goroutine (the flag can only go down in between, so a stale check means one more event),
  a cached read with the creation that depends on it.
* An owned object that is being deleted makes `Reconcile` return early; its removal brings an
  event. In `ActionsRunner` this is folded into "returns and the request is queued again".
* `Touch` stands for every event of the AR, the ConfigMap, the Secret and the PodDisruptionBudget
  and for the informer's periodic resync (10 hours by default).
* ADO keeps the messages of an agent that is deleted and registered again; it has at most one
  outstanding job request per agent; deleting a session that is not there is an error.
* `Ended` stands for the pod phases Succeeded and Failed, which the code treats alike.
* An informer's watch delivers every event in order, and the caches of the models go to the
  newest state in one step. Broken watches are left out. After one that cannot be resumed the
  informer lists again, and an object that was created and changed in the meantime comes as one
  creation, which the `eventFilter` drops: the status then stays behind until the next event or
  resync (listed as a hazard).
* Kubernetes keeps a claim while a pod uses it (PVC protection) and removes an object that is
  deleted in the foreground after what it owns.
* Time in `GitHub` is the number of coarse minutes an entry has left; the code keeps what has more
  than one. A new credential is usable when it is made. `GitHubPAT` is a constant, as the
  environment variable is.
* A docker network has one subnet, and networks are numbered in the order of their creation.
  (`docker.go 193-199` gives each IPAM subnet of a network an octet of its own; a network with two
  subnets takes two octets at one event, and the limit of `peak` below is then one of subnets.
  The models leave that out.) `peak`, a history
  variable, is the most networks there have been at once.
* `Exposed` has the ports of each container, with their protocols; `Proxyable` are those of tcp and
  udp, for which `createSocatCommand` makes a command; `Reserved` are those on which a process
  listens before any socat does: 2378, on all addresses, by dind itself, and 2375 by the daemon.
* Networks and containers the daemon has before dind subscribes, or that are not told, are the
  flag `lost`. A container keeps its address when it is started again, so a proxy that is left
  over keeps the new one from its port. Events dind ignores and the default bridge are left out.
* A wait of a fixed number of tries (`WaitForDockerd`, `waitForDocker`) ends at any time.
* SIGTERM reaches both containers in one step. dind forwards it to the daemon once that is
  started and only logs it before; the runner forwards it to its commands once one has started.

## 3. Runs

All runs but `github` say `CHECK_DEADLOCK FALSE`: an environment whose budgets are used up, an
operator that crashed with no restart left or a pod that is done may stop. In `github` some
caller can always go on, and TLC checks it.

| Run | Instance | Properties | Shows |
|---|---|---|---|
| `listener_overlap` | 2 Wires, 2 goroutines, 1 job | `AtMostOneListener`, `SessionNotReplaced`, `NoLostJobRequest` | a goroutine in its deferred function overlaps with the next listener on the same Wire without harm to the session or the token |
| `operator_restart` | 3 Wires, 1 goroutine, 1 job, 1 failure, 1 restart | `NoLostJobRequest`, `RunnerCredentials` | SIGTERM or a crash at any point, a new key afterwards |
| `job_served` | 2 Wires, 1 goroutine, 1 job, 1 failure | `TypeOK`, `ValidJobNeverAcked`, `JobServed` | a call that fails anywhere loses no job |
| `agent_removed` | 2 Wires, 1 goroutine, bad job, AgentRefresh, 2 deletions | `AgentRemoved` | deletion races with registration and re-creation |
| `replica_set_converges` | 3 ARs, 0..2 replicas, 2 templates, 1 edit, 1 failure or restart | `TypeOK`, `RestsOnlyConverged`, `EventuallyConverged` | no change goes unnoticed; the ARs converge |
| `job_status` | 1 ARJ, 1 disruption, 1 failure or restart | `TypeOK`, `RestsOnlyReported`, `ImplementsLifecycle`, `JobEnds` | lagging caches, conflicts and filtered events leave no status outdated; every job comes to an end |
| `github` | 2 callers, register and remove for one repository, one forbidden repository, limit 2, 3 minutes, 1 failure | `TypeOK`, `TokenWithinLimit`, `OnlyAllowedRepositories`, `NoRedundantFetch`, `CredentialObtained` | the shared caches stay within their limits and nobody waits for ever |
| `pod_limits` | 3 networks with 3 subnets and 2 octets, 1 container with 3 ports (one of sctp, one that dind listens on), 1 start, 3 events, no failure | `RulesAtRest`, `PanicHasCause` | networks that are up together have different octets; dind panics at the limit and not before |
| `pod` | 2 networks with 1 subnet and 1 octet, 1 container with 2 ports and 2 starts, 3 events, 1 failure | `TypeOK`, `RulesAtRest`, `ProxiedAtRest`, `PanicHasCause`, `DockerForTheJob`, `DindReleased`, `DindFollowsDockerd`, `SetupEnds` | dind keeps up with the daemon; the two containers start and end together |
| `deaf_wire`, `listener_recovers`, `job_report` | | one property each, violated | section 4 |

**Why the bounds are enough.** The problems of a Wire need two goroutines on it (three parties
with the reconciler) and one message; a second Wire is needed because an invalid one is
replaced, a third because after a restart the old key may still be in ADO or in the ConfigMap.
One failure reaches every error path, and every error path returns to a state from which the
next failure is like the first. For the ARRS, three ARs leave room for one more than the two
that may be asked for, which is how far a stale list overshoots in one reconciliation. For the
ARJ, two in turn are what confuses objects of the same name: `job_report` has them. The safety
properties of `job_status` also hold for two in turn (1 disruption, 4.2 million states) and are
proved for any number; with fairness that instance is beyond the time of a regular run. All properties of the passing
runs other than liveness are in addition proved for all values of the bounds (section 5). In `github` a client of life 2 expires while its user waits, a token of life 3 is
reused once, refused near its end, refused at its limit and expires in a bridge client; two keys
of one repository compete for one mutex. The safety properties also hold for lives of 3, 4
minutes and four keys (9.1 million states, outside the time of a regular run). In `pod` one octet
and one subnet for two networks in turn make every octet that is not given back fatal, two ports
make a list of PIDs, a second start is what confuses a container with itself, and three events
are a stop told twice with the start behind it. With one subnet the daemon has one network at a
time; `pod_limits` has up to three at once, one more than there are octets, so that octets are
shared out, given back out of order and used up, and it has ports for which there is no socat or
whose socat ends at once.

**Views and symmetry.** The views drop what no later step reads: the fields of a Wire nothing
refers to (`ReconcileMake` initialises them), `invalid` and `listening` of a Wire that is not
registered (only `GetWire` and `Listen` read them, and a Wire is not registered twice), what `Reconcile` holds when it is idle (it reads
it again), the history `ran`, which only `ReportsOwnPod` reads (its run uses no view).
Symmetry of Wires and goroutines is used in safety runs only.

**Fairness.** Weak fairness of every goroutine, of the worker of each workqueue, of the
informers, of Kubernetes' deletions, binding and starts, of the start of a new process (the
Deployment), of the expiry of an abandoned ADO session and of the end of a pod
(`activeDeadlineSeconds`): each stands for a scheduler that keeps running what can run. No
fairness is assumed of users, failures, crashes or disruptions. In `Pod` only the goroutines of
dind and of the runner's process are fair: not the job, the daemon, the probe or the kubelet. In
`GitHub` a caller that waits for a mutex is strongly fair, because a Go mutex is handed to
whoever has waited for more than a millisecond; the other steps, answers of calls and repeated
reconciliations, are weakly fair. `Touch` is fair because of the
resync. This one matters: without it `JobServed` fails even if no call does. When a job
completes while the old listener is still before `listening = false`, the last `Reconcile`
finds the flag set and leaves, and the listener ends without an error and therefore without an
event; only the resync starts a listener again. `EventuallyConverged` has the premise
`ListKeepsUp`, that the list is eventually not stale when it is read: without it a
reconciler that always reads the list before its last change arrives creates and deletes ARs
for ever. `JobEnds` excepts a claim deleted by a user: `Reconcile` waits for the claim before
it looks at the pod, and Kubernetes waits for the pod before it removes the claim, so the end
of the pod is not reported until the pod itself is removed.

**Mutants.** For each property of a passing run a variant of the code (next to the definition
it replaces, marked *Variant*) breaks it: a check that is dropped, an event that is filtered, a
conflict that is ignored, an object that is not updated.

## 4. Where the code does not do what it says

* `deaf_wire` (`wire.go:337`): `Listen` sets `listening = true` after it has started the
  goroutine. If the goroutine fails before that line its `listening = false` is overwritten, and
  the Wire claims to listen for ever. (`JobServed` excepts this state.)
* `listener_recovers` (`wire.go:464`): two goroutines in `Close` both find the channel open; the
  second `close` panics, in the deferred function before its `recover`.
* `job_report` (`actionsrunnerjob/reconciler.go:187`): the pod of the previous ARJ, still in the
  cache, ends the next ARJ.

Also visible in the models, without a sentence of the code that excludes it: a listener blocked
for ever on the token of a Wire that has been replaced; a listener that is started while a token
waits (the `default` branch is taken before the token arrives); a nil dereference when two
goroutines delete the session of one facade; an agent that stays in ADO when `Destroy` fails
after `TryDestroy` has removed the Wire from the registry; `Status.Replicas` of an ARRS, written
only after a creation or deletion (`actionsrunnerreplicaset/reconciler.go:204`), that stays wrong
while the ARs are right.

In the pod: a panic in the runner's setup comes before the request to dind is deferred
(`src/runner/main.go:119-129`), so that dind runs until the deadline of the pod; `run` blocks for
ever on the error of a command that cannot be started (`src/runner/util.go:23`), which `SetupEnds`
excepts; a container that is started again while its stop is handled gets a new, empty list of
PIDs (`src/dind/cache.go:34`), so that its proxies leak, the new ones cannot bind, and the next
stop panics on a PID that is gone, which `PanicHasCause` and `ProxiedAtRest` except; an exposed
port of another protocol than tcp and udp, such as sctp, leaves `createSocatCommand` without a
command, and `cmd.Env` panics (`src/dind/portproxy.go:72`); the socat for an exposed port 2378 (or
2375) cannot bind and ends, its PID is remembered all the same, and the stop of that container
panics; the 256th network at once panics (`src/dind/docker.go:297`), which a job reaches with
`--subnet`. `PanicHasCause` names these causes and says that there is no other. The
map of PIDs is accessed by two goroutines without a lock; a network that exists before dind has
subscribed, or whose event is lost, is never registered (`src/dind/docker.go:156`, `:172`).

## 5. Proofs

`ActionsRunnerProofs` proves, for all sets of Wires, goroutines and messages and all bounds:

| Theorem | Statement | Rests on |
|---|---|---|
| `TypeCorrect` | `Spec => []TypeOK` | one step per action |
| `ListenersCorrect`, `SessionKept` | `Spec => [](AtMostOneListener /\ SessionNotReplaced)` | `ListenerInv`, `RegistryInv` |
| `RegistryCorrect` | `Spec => []RegistryInv` | `TypeOK` |
| `RequestsCorrect` | `Spec => []NoLostJobRequest` | `RegistryInv` |
| `CredentialsCorrect` | `Spec => []RunnerCredentials` | `RegistryInv` |
| `JobsLeftToRunner` | `Spec => []ValidJobNeverAcked` | `AcksNoJob` |

The assumptions are those of `AzureDevOps` and `ActionsRunner`: goroutines, messages and `None`
are distinct, the three kinds of messages are disjoint, bounds are naturals. TLC evaluates them
in every run.

*Listeners.* `AtMostOneListener` is not inductive: `Listen` looks at the flag, not at the
goroutines. `ListenersFlagged` says what the flag means: a goroutine that is not yet in its
deferred function runs on a Wire that is flagged, or `Reconcile` is at the line that is about
to flag it. (The converse does not hold, and that is the deaf Wire.)

*Credentials.* When the ARJ is created the ConfigMap, the Secret and the agent must belong to
the Wire at hand. That needs the relation between four pieces of state across reconciliations:
`Reconcile` works with the registered Wire (`WorksOnRegistered`); `WireFor` replaces a Wire
only after it has become invalid (`ReplacesInvalid`); the agent has the key of a registered
valid Wire or none (`AgentOfRegistered`); past the two updates the objects hold its dot files
(`DotFilesOfRegistered`). "Or none" is needed because Kubernetes may collect the objects and
an AgentRefresh may delete the agent at any time.

*Requests.* A token can only be put by a goroutine that then sends the event, and every step
that ends a `Reconcile` without having looked at the channel queues the request again, or found
an ARJ in the cache, whose removal the `eventFilter` lets through.

*Jobs.* Only `ListenerAck` acknowledges; `AcksNoJob` says what it can hold.

`GitHubProofs` proves, for any number of callers, any repositories and requests, any rate limit,
lives and budgets:

| Theorem | Statement | Rests on |
|---|---|---|
| `TypeCorrect` | `Spec => []TypeOK` | `CacheTypes`, `CallerTypes`, `LockDiscipline` (the parts of `TypeOK`, which is inductive) |
| `TokensWithinLimit` | `Spec => []TokenWithinLimit` | `UsesCounted` |
| `RepositoriesAllowed` | `Spec => []OnlyAllowedRepositories` | `CachedAllowed` |
| `FetchesNeeded` | `Spec => []NoRedundantFetch` | `LoginNeeded`, `FetchNeeded`, `CredentialNeeded`, `TokenNeeded` |

The assumptions are `GitHubBounds` and `RequestsAreEvents`. *Limit.* That `uses` stays within the
limit follows from the counter only together with the relation between the two: every use but the
first has been counted (`uses <= rate + 1`), and the token is refused when the count reaches the
limit. *Fetches.* What was looked up when a critical section was entered stays true in it: only
the owner of the mutex fills that cache (`LockDiscipline`), and time only takes away.

`ActionsRunnerReplicaSetProofs` proves, for any finite set of names of ARs, any number of replicas
and templates and any budgets:

| Theorem | Statement | Rests on |
|---|---|---|
| `TypeCorrect` | `Spec => [](TypeOK /\ Counted)` | `Counted` |
| `ChangesNoticed` | `Spec => []RestsOnlyConverged` | `RestInv` |

*Types.* That the unsigned status does not wrap around needs `Counted`: `Reconcile` subtracts one
only when it has counted more ARs than are asked for. *Rest.* `RestsOnlyConverged` speaks of a
reconciler that is idle; `RestInv` says what keeps it true on the way there. A cache without events
on their way is the API server (`CachesTrue`); a copy or a list that is out of date has a request
queued behind it or an event on its way (`CopyTrue`, `ListTrue`), so a reconciliation that ends
without one has worked on the truth; and one that ends by writing its status brings an event of
its own, unless the write changes nothing, which happens only when the AR it deleted was being
deleted already (`StatusTold`).

`ActionsRunnerJobProofs` proves, for any number of jobs and any budgets:

| Theorem | Statement | Rests on |
|---|---|---|
| `TypeCorrect` | `Spec => []TypeOK` | `ObjectSteps`, `JobSteps` (what the environment's steps have in common); `TypeOK` is inductive because it includes that `Reconcile` goes on only with a copy of a live ARJ |
| `LifecycleImplemented` | `Spec => ImplementsLifecycle` | `CopyInv` |
| `ChangesReported` | `Spec => []RestsOnlyReported` | `RestInv` |

*Refinement.* Every step maps to a step of `JobLifecycle` or leaves the ARJ as it is. The one that
needs an invariant is the update of the status, which writes the whole copy: `CopyTrue` says that a
copy the API server accepts is one of the live ARJ. *Rest.* The `eventFilter` drops creations, so
a cache may change without a request. `RestsOnlyTold` therefore speaks of the caches: what
`Reconcile` has told is what they show, up to a creation, and while the cache has no pod an event
of one is on its way. `StagesTrue` carries that through the stages of a reconciliation, each of
which looks at a cache that may have moved since the stage before.

Three modules prove, about the pod, for any networks, containers, subnets, ports and processes and
any bounds on events, starts and failures:

| Theorem | Module | Statement | Rests on |
|---|---|---|---|
| `TypeCorrect` | `PodProofs` | `Spec => []TypeOK` | `TypeInv` |
| `JobHasDocker` | `PodProofs` | `Spec => []DockerForTheJob` | `JobInv` |
| `TableCorrect` | `PodNetworkProofs` | `Spec => []NetInv` | `TypeInv`, `JobInv` |
| `RulesFollowNetworks` | `PodNetworkProofs` | `Spec => []RulesAtRest` | `NetInv`, `RulesInv` |
| `PanicsHaveCauses` | `PodProxyProofs` | `Spec => []PanicHasCause` | `NetInv`, `CrowdInv`, `HistoryInv`, `PidInv`, `RegisteredInv`, `ProxiesInv` |
| `ContainersAreProxied` | `PodProxyProofs` | `Spec => []ProxiedAtRest` | the same and `ServedInv` |

The assumptions are `DockerBounds` and `DindBounds` (the sets are finite, every container has a set
of ports, there is an octet; nothing relates the number of octets to that of subnets or networks)
and `NoneIsNil` (nil is neither a process nor a list of subnets).

*Types.* What the event loop sends and what main handles depends on where each is
(`EventShapes`, `MainShapes`), and `LoopOff` says that the loop does not run before main starts it.

*Docker for the job.* The daemon is seen by `wait for docker` and then has to stay. `DockerStays`
needs to know that nobody interrupts dind before the runner has ended (`NotInterrupted`), that the
event loop cannot find its stream closed while the daemon is up and nothing has failed
(`StreamOpen`), and that nothing runs before main has started the daemon (`DaemonOff`).

*Networks.* A subnet passes from one network to the next in the daemon before dind has heard of
either, and an octet passes from one to the next in the event loop before main has deleted the rule.
`NetInv` relates the daemon, the queue of events and the table: the octets in use are those of the
table and no two networks share one; a network is created once and told once; and `DestroyFirst`,
the order that makes the reuse harmless, says that the creation of a network with a subnet that is
still in the table has the destruction of its last owner before it in the queue. `RulesInv` then
says that the rules, with what main is doing and what the loop sends applied to them, are the table.

*Octets.* The event loop lags behind the daemon, so the networks in its table need not be those
there are; but it must not run out of octets unless the daemon itself has had more networks at once
than there are (`peak > MaxOctet`). `CrowdInv` says why. The crowd at a place in the queue is the set
of networks the loop will know when it has come to that place: those in the table or created before
it, whose end does not come before it. At the place of a creation the crowd was there all at once,
when that network was created, and is therefore no larger than `peak` (`KnownTogether`); that needs
the creation of a network to come before its end (`CreateFirst`) and a network whose creation is
queued to be up or to have its end queued too (`CreatedUp`). When the loop hears of a creation the
octets in use are those of the crowd without the new network, and one is left (`OctetLeft`).

*Containers.* `HistoryInv` is about the daemon and the queue only: the start of a container comes
once, after the creation of its network and before its stops. `PidInv` says whose process a PID
is, so that what main does for one container leaves the others' alone (`Others`). `ProxiesInv`
follows one container, started at most once and without a port that is taken already (`Tracked`), through its stages: untouched until its start is
heard; then sent; then handled; its stop is sent and handled only when it is not registered; and
what is remembered is exactly what runs, but for the process just started and those just killed.
`Kill` therefore finds every process it looks for, and a panic there, as one for a port without a
command, has a cause that stays (`CausesStay`). `ServedInv` adds that a running container is
on its way: its start is queued, sent with all its ports, or each port has a process or one to be
started; here the order of creation and start in the queue is what lets the inspection find the
network in the table. With a second start `ProxiesInv` fails, as section 4 describes, and that
is why the properties except it. `TypeInv`, `JobInv`, `NetInv`, `HistoryInv` and `PidInv` need no
such exception.

Only model-checked: the eight liveness properties (`JobServed`, `AgentRemoved`,
`EventuallyConverged`, `JobEnds`, `CredentialObtained`, `DindReleased`, `DindFollowsDockerd`,
`SetupEnds`), which rest on fairness and `ENABLED` and are out of the prover's reach. Every other
property of a passing run is stated by a theorem.

## 6. Plan

Done: AzureDevOps, Wire, ActionsRunner with proofs; JobLifecycle, Controller, ActionsRunnerJob,
ActionsRunnerReplicaSet with runs and proofs; Docker, Dind, Runner, Pod and GitHub with runs and
proofs.

Next, in this order:

1. A revision of the AR's policy that a registered Wire does not see (`wire/collection.go:78`),
   and the timeline of `onPolicyViolation` (`wire/wire.go:313`), both in `ActionsRunner`.
2. **Policy validator**: `Flattened` and `Validate` as functions over bounded context data.

## 7. Not modelled

* The policy validator: a pure function of a job request and the policy. `ActionsRunner` has its
  outcome, the split of messages into `Jobs` and `BadJobs`.
* The webhooks: they refuse objects the reconcilers then never see; the models take any object
  the reconcilers accept.
* The wording of timelines and logs, encodings (JWT, PKCS7, dot file formats, RSA parameters),
  volumes, affinities and environment of the pod, metrics, generated deep copies, flags and
  health endpoints: no property depends on them. The timeline that `onPolicyViolation` writes is
  a call whose error is logged; that the job is then neither run nor failed is listed as a hazard.
