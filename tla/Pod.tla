-------------------------------- MODULE Pod --------------------------------
(***************************************************************************)
(* The pod of an ActionsRunnerJob: the runner and the dind containers,     *)
(* the job that uses docker, and the kubelet.  No container is restarted.  *)
(***************************************************************************)
EXTENDS Runner

VARIABLES
    kubelet  \* "running", "terminating" (the grace period) or "done"

vars == <<dockerVars, faults, dindVars, runnerVars, kubelet>>

\* Type correctness; the octets in use are those of 1..MaxOctet.
TypeOK ==
    /\ DockerTypeOK /\ DindTypeOK /\ RunnerTypeOK
    /\ kubelet \in {"running", "terminating", "done"}

Init ==
    /\ DockerInit
    /\ RunnerInit
    /\ DindInit(IF hasDockerCapability THEN "new" ELSE "absent")
    /\ kubelet = "running"

DindStep == Dind /\ UNCHANGED <<runnerVars, kubelet>>

RunnerStep ==
    \/ /\ RunnerSetup \/ RunnerMain \/ JobEnds
       /\ UNCHANGED <<dockerVars, dindVars, kubelet>>
    \/ /\ RequestDindTermination
       /\ UNCHANGED <<eventVars, mainVars, proxyPortPIDs, dockerVars, kubelet>>

JobUsesDocker ==
    /\ runnerPc = "job" /\ hasDockerCapability /\ dockerd = "up"
    /\ UseDocker
    /\ UNCHANGED <<dindVars, runnerVars, kubelet>>

\* The pod is deleted, evicted or has reached its ActiveDeadlineSeconds: SIGTERM for both
\* containers.  dind forwards it to the daemon once it has started it, and logs it before.
Terminate ==
    /\ kubelet = "running"
    /\ kubelet' = "terminating"
    /\ Sigterm
    /\ \/ dockerd \in {"starting", "up"} /\ DockerdGone
       \/ dockerd \notin {"starting", "up"} /\ UNCHANGED dockerVars
    /\ UNCHANGED <<faults, dindVars>>

GracePeriodEnds ==
    /\ kubelet = "terminating"
    /\ kubelet' = "done"
    /\ runnerPc' = IF runnerPc \in RunnerEnded THEN runnerPc ELSE "killed"
    /\ IF mainPc \in Finished \cup {"absent"} THEN UNCHANGED <<dindVars, dockerVars>> ELSE End("killed")
    /\ UNCHANGED <<hasDockerCapability, setup, faults>>

\* The liveness probe of the dind container: the daemon does not accept connections.
ProbeFails ==
    /\ DindRuns /\ dockerd # "up"
    /\ End("killed")
    /\ UNCHANGED <<faults, runnerVars, kubelet>>

Next ==
    \/ DindStep \/ RunnerStep \/ JobUsesDocker
    \/ Terminate \/ GracePeriodEnds \/ ProbeFails

\* The goroutines of each container go on while they can; nothing is assumed of jobs, of
\* failures, of the daemon or of the kubelet.
Fairness ==
    /\ WF_vars((EventLoop \/ Main \/ Interrupted) /\ UNCHANGED <<runnerVars, kubelet>>)
    /\ WF_vars(\/ (RunnerSetup \/ RunnerMain) /\ UNCHANGED <<dockerVars, dindVars, kubelet>>
               \/ RequestDindTermination
                    /\ UNCHANGED <<eventVars, mainVars, proxyPortPIDs, dockerVars, kubelet>>)

Spec == Init /\ [][Next]_vars /\ Fairness

-----------------------------------------------------------------------------
(* Properties.                                                             *)

Quiet == faults = 0 /\ kubelet = "running"

DindOver == mainPc \in Finished

StartedAgain == \E c \in Containers : container[c].starts > 1

\* When both goroutines of dind wait, the NETMAP rules are those of the networks there are,
\* one octet for each, although the event loop gives an octet back before main has deleted its
\* rule; unless a call failed or an event was missed.
RulesAtRest ==
    AtRest /\ faults = 0 /\ ~lost =>
        LET up == {n \in Networks : network[n].phase = "up"} IN
        /\ {r.subnet : r \in rules} = {network[n].subnet : n \in up}
        /\ Cardinality({r.octet : r \in rules}) = Cardinality(up)

\* When both goroutines of dind wait, a container that was started once has exactly the
\* proxies of its ports, all of them remembered for its stop, if it runs on a registered
\* network, and none otherwise; unless a call failed, an event was missed, or the container
\* exposes a port that dind or the daemon listens on.
ProxiedAtRest ==
    AtRest /\ faults = 0 /\ ~lost =>
        \A c \in Containers : container[c].starts = 1 /\ Exposed[c] \cap Reserved = {} =>
            LET own == {p \in Running : socat[p].id = c} IN
            /\ {socat[p].port : p \in own} =
                 IF container[c].running /\ HasProxyIP(c) THEN Exposed[c] ELSE {}
            /\ Cardinality(own) <= Cardinality(Exposed[c])
            /\ proxyPortPIDs[c] = own

\* The causes of a panic of dind are a call that failed, a container that was started again,
\* one that exposes a port socat cannot listen on (another protocol than tcp and udp, or a
\* port that is listened on already), and more networks at once than there are octets: the
\* event loop gives octets back in time, and main never kills a process that is gone.
PanicHasCause ==
    mainPc = "panicked" =>
        \/ faults > 0 \/ StartedAgain \/ peak > MaxOctet
        \/ \E c \in Containers : container[c].starts > 0 /\ ~(Exposed[c] \subseteq Proxyable \ Reserved)

\* A job that asked for docker runs with a daemon: main waits for docker before the job, and
\* asks dind to end after it.  What takes the daemon away is a failure, the kubelet, or a
\* panic or concurrent map access of dind.
DockerForTheJob ==
    runnerPc = "job" /\ hasDockerCapability /\ Quiet =>
        dockerd = "up" \/ mainPc \in {"panicked", "crashed"}

\* However the runner ends after its setup, dind ends too: the pod does not wait for its
\* deadline.
DindReleased == runnerPc \in {"request", "ended"} /\ hasDockerCapability ~> DindOver

\* dind ends when its daemon does, whatever both goroutines are doing.
DindFollowsDockerd == DindRuns /\ dockerd = "down" ~> DindOver

\* The setup of the runner comes to an end, whether dind and docker come up or not, unless a
\* command cannot be started.
SetupEnds == <>(runnerPc # "setup" \/ \E s \in Commands : setup[s] = "blocked")

=============================================================================
