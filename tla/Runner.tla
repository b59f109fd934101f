------------------------------ MODULE Runner ------------------------------
(***************************************************************************)
(* src/runner: the process of the runner container.  Four goroutines set   *)
(* the container up, main waits for them in order, runs the GitHub Actions *)
(* runner for one job and asks dind to end.                                *)
(***************************************************************************)
EXTENDS Dind

VARIABLES
    hasDockerCapability,  \* DOCKER_HOST is set, and the pod has a dind container
    setup,                \* the steps of the goroutines
    runnerPc              \* where main is

runnerVars == <<hasDockerCapability, setup, runnerPc>>

\* Commands that run() starts, and the other steps
Commands == {"update-ca-certificates", "user.name", "user.email"}
Steps    == Commands \cup {"aws and docker config", "wait for docker"}

\* Variant: main does not wait for docker.
ChannelsWithoutDocker ==
    <<{"update-ca-certificates"}, {"user.name", "user.email"}, {"aws and docker config"}>>

\* The channels main receives from, in order, with the steps behind each
Channels == <<{"update-ca-certificates"}, {"user.name", "user.email"},
              {"aws and docker config"}, {"wait for docker"}>>

\* "setupFailed" and "killed": the process has ended without its deferred functions.
RunnerEnded == {"ended", "setupFailed", "killed"}

RunnerTypeOK ==
    /\ hasDockerCapability \in BOOLEAN
    /\ setup \in [Steps -> {"new", "running", "ok", "failed", "blocked"}]
    /\ runnerPc \in RunnerEnded \cup {"setup", "push", "run", "job", "blocked", "request"}

RunnerInit ==
    /\ hasDockerCapability \in BOOLEAN
    /\ setup = [s \in Steps |-> "new"]
    /\ runnerPc = "setup"

SetupStep(s, from, to) ==
    /\ runnerPc = "setup" /\ setup[s] = from
    /\ setup' = [setup EXCEPT ![s] = to]
    /\ UNCHANGED <<hasDockerCapability, runnerPc>>

\* run(): the error of a command that does not start is sent before anyone can receive it.
StartCommand(s) ==
    /\ s = "user.email" => setup["user.name"] = "ok"
    /\ \/ SetupStep(s, "new", "running") /\ UNCHANGED faults
       \/ SetupStep(s, "new", "blocked") /\ Fault

CommandEnds(s) ==
    \/ SetupStep(s, "running", "ok") /\ UNCHANGED faults
    \/ SetupStep(s, "running", "failed") /\ Fault

\* ensureAwsEnv and setupDockerConfig.  Neither the region nor the caller identity has to
\* be known; a configuration that cannot be read or written is an error.
ConfigureAwsAndDocker ==
    \/ SetupStep("aws and docker config", "new", "ok") /\ UNCHANGED faults
    \/ SetupStep("aws and docker config", "new", "failed") /\ Fault

\* Variant: the number of tries is not bounded.
WaitForDockerForever ==
    /\ hasDockerCapability => dockerd = "up"
    /\ SetupStep("wait for docker", "new", "ok")
    /\ UNCHANGED faults

\* waitForDocker: the daemon answers, or it does not until the tries are used up, or there is
\* no client to ask it with.
WaitForDocker ==
    LET ready == hasDockerCapability => dockerd = "up" IN
    \/ SetupStep("wait for docker", "new", IF ready THEN "ok" ELSE "failed") /\ UNCHANGED faults
    \/ hasDockerCapability /\ SetupStep("wait for docker", "new", "failed") /\ Fault

Received(i) == \A s \in Channels[i] : setup[s] = "ok"

\* The error of a channel counts once all channels before it have been received; the
\* panic comes before the request to dind is deferred.
SetupFails ==
    /\ runnerPc = "setup"
    /\ \E i \in DOMAIN Channels :
         /\ \E s \in Channels[i] : setup[s] = "failed"
         /\ \A j \in 1..(i - 1) : Received(j)
    /\ runnerPc' = "setupFailed"
    /\ UNCHANGED <<hasDockerCapability, setup, faults>>

RunnerGoto(from, to) ==
    /\ runnerPc = from /\ runnerPc' = to
    /\ UNCHANGED <<hasDockerCapability, setup>>

SetupSucceeds ==
    /\ \A i \in DOMAIN Channels : Received(i)
    /\ RunnerGoto("setup", "push")
    /\ UNCHANGED faults

\* Variant: the request to dind is deferred after the metrics have been pushed.
PushMetricsBeforeDefer ==
    \/ RunnerGoto("push", "run") /\ UNCHANGED faults
    \/ RunnerGoto("push", "ended") /\ Fault

\* pushMetrics panics by itself; the deferred request to dind is made.
PushMetrics ==
    \/ RunnerGoto("push", "run") /\ UNCHANGED faults
    \/ RunnerGoto("push", "request") /\ Fault

RunGitHubActionsRunner ==
    \/ RunnerGoto("run", "job") /\ UNCHANGED faults
    \/ RunnerGoto("run", "blocked") /\ Fault

\* With or without an error, main's deferred functions run: the metrics are pushed once more,
\* and a panic of that does not keep main from the request to dind.
JobEnds == RunnerGoto("job", "request") /\ UNCHANGED faults

\* requestDindTermination: connects when dind listens; an error is logged.
RequestDindTermination ==
    /\ RunnerGoto("request", "ended")
    /\ interrupt' = (hasDockerCapability /\ DindRuns)
    /\ UNCHANGED faults

RunnerSetup ==
    \/ \E s \in Commands : StartCommand(s) \/ CommandEnds(s)
    \/ ConfigureAwsAndDocker \/ WaitForDocker
    \/ SetupFails \/ SetupSucceeds

RunnerMain == PushMetrics \/ RunGitHubActionsRunner

\* A command that started has made run() catch all signals.
Notified == \E s \in Commands : setup[s] \notin {"new", "blocked"}

\* SIGTERM is forwarded to the commands, the GitHub Actions runner included (which then may
\* end its job); before the first command it ends the process.
Sigterm ==
    \/ /\ runnerPc = "setup" /\ ~Notified
       /\ runnerPc' = "killed"
       /\ UNCHANGED <<hasDockerCapability, setup>>
    \/ /\ runnerPc = "setup" /\ Notified
       /\ \E S \in SUBSET {s \in Commands : setup[s] = "running"} :
            setup' = [s \in Steps |-> IF s \in S THEN "failed" ELSE setup[s]]
       /\ UNCHANGED <<hasDockerCapability, runnerPc>>
    \/ runnerPc # "setup" /\ UNCHANGED runnerVars

=============================================================================
