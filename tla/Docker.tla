------------------------------ MODULE Docker ------------------------------
(***************************************************************************)
(* The docker daemon inside the dind container, as dind and the job use    *)
(* it: networks and containers, and the event stream that tells dind about *)
(* them.  The stream is not replayed: what happens while nobody is         *)
(* subscribed, or is under way when the connection breaks, is never told.  *)
(***************************************************************************)
EXTENDS Naturals, Sequences, FiniteSets

CONSTANTS
    Networks,    \* ids of networks, used once, in the order the networks are created
    Containers,  \* ids of containers; a container may be started again
    Subnets,     \* the daemon's address pool, given out from the first free one
    MaxStarts,   \* bound: starts of one container
    MaxEvents,   \* bound: events on their way to dind
    MaxFaults,   \* bound: calls, commands and connections that fail
    None

ASSUME DockerBounds ==
    /\ Networks \subseteq Nat /\ None \notin Networks /\ IsFiniteSet(Networks)
    /\ Subnets \subseteq Nat /\ None \notin Subnets /\ IsFiniteSet(Subnets)
    /\ MaxStarts \in Nat /\ MaxEvents \in Nat /\ MaxFaults \in Nat

VARIABLES
    dockerd,     \* the daemon: "off", "starting", "up" or "down"
    network,     \* its networks
    container,   \* its containers
    events,      \* events sent on the stream and not received yet
    subscribed,  \* the stream is open
    lost,        \* history: the daemon has had an event nobody will be told
    peak,        \* history: the most networks there have been at once
    faults       \* failures so far

dockerVars == <<dockerd, network, container, events, subscribed, lost, peak>>

NetworkStates   == [phase : {"new", "up", "gone"}, subnet : Subnets \cup {None}]
ContainerStates == [running : BOOLEAN, starts : 0..MaxStarts, network : Networks \cup {None}]
Events == {"create", "destroy"} \X Networks \cup {"start", "stop"} \X Containers

DockerTypeOK ==
    /\ dockerd \in {"off", "starting", "up", "down"}
    /\ network \in [Networks -> NetworkStates]
    /\ container \in [Containers -> ContainerStates]
    /\ events \in Seq(Events) /\ Len(events) <= MaxEvents
    /\ subscribed \in BOOLEAN /\ lost \in BOOLEAN /\ peak \in Nat
    /\ faults \in 0..MaxFaults

NoNetworks   == [n \in Networks |-> [phase |-> "new", subnet |-> None]]
NoContainers == [c \in Containers |-> [running |-> FALSE, starts |-> 0, network |-> None]]

DockerInit ==
    /\ dockerd = "off"
    /\ network = NoNetworks
    /\ container = NoContainers
    /\ events = <<>>
    /\ subscribed = FALSE
    /\ lost = FALSE
    /\ peak = 0
    /\ faults = 0

\* A call, a command or a connection fails.
Fault == faults < MaxFaults /\ faults' = faults + 1

\* The daemon and all it runs are gone.
DockerdGone ==
    /\ dockerd' = "down"
    /\ network' = NoNetworks
    /\ container' = [c \in Containers |-> [container[c] EXCEPT !.running = FALSE, !.network = None]]
    /\ events' = <<>>
    /\ subscribed' = FALSE
    /\ UNCHANGED <<lost, peak>>

Emit(es) ==
    /\ Len(events) + Len(es) <= MaxEvents
    /\ events' = IF subscribed THEN events \o es ELSE events
    /\ lost' = (lost \/ ~subscribed)
    /\ UNCHANGED <<dockerd, subscribed, faults>>

-----------------------------------------------------------------------------
(* What the job asks of the daemon.                                        *)

CreateNetwork(n) ==
    LET Free == Subnets \ {network[m].subnet : m \in Networks}
        up   == {n} \cup {m \in Networks : network[m].phase = "up"}
    IN
    /\ \A m \in Networks : network[m].phase = "new" <=> m >= n
    /\ \E s \in Free : /\ \A t \in Free : s <= t
                      /\ network' = [network EXCEPT ![n] = [phase |-> "up", subnet |-> s]]
    /\ peak' = IF Cardinality(up) > peak THEN Cardinality(up) ELSE peak
    /\ Emit(<<<<"create", n>>>>)
    /\ UNCHANGED container

\* Refused while a container uses the network.
RemoveNetwork(n) ==
    /\ network[n].phase = "up"
    /\ \A c \in Containers : container[c].running => container[c].network # n
    /\ network' = [network EXCEPT ![n] = [phase |-> "gone", subnet |-> None]]
    /\ Emit(<<<<"destroy", n>>>>)
    /\ UNCHANGED <<container, peak>>

\* A container keeps the network of its first start.
StartContainer(c, n) ==
    LET k == container[c] IN
    /\ ~k.running /\ k.starts < MaxStarts
    /\ k.starts > 0 => n = k.network
    /\ network[n].phase = "up"
    /\ container' = [container EXCEPT ![c] = [running |-> TRUE, starts |-> k.starts + 1, network |-> n]]
    /\ Emit(<<<<"start", c>>>>)
    /\ UNCHANGED <<network, peak>>

\* A container that ends is told as "die", a container that is stopped also as "stop";
\* dind treats both as "stop".
StopContainer(c) ==
    /\ container[c].running
    /\ container' = [container EXCEPT ![c].running = FALSE]
    /\ \/ Emit(<<<<"stop", c>>>>)
       \/ Emit(<<<<"stop", c>>, <<"stop", c>>>>)
    /\ UNCHANGED <<network, peak>>

UseDocker ==
    \/ \E n \in Networks : CreateNetwork(n) \/ RemoveNetwork(n)
    \/ \E c \in Containers : StopContainer(c) \/ \E n \in Networks : StartContainer(c, n)

-----------------------------------------------------------------------------
(* The daemon by itself.                                                   *)

DockerdReady ==
    /\ dockerd = "starting"
    /\ dockerd' = "up"
    /\ UNCHANGED <<network, container, events, subscribed, lost, peak, faults>>

DockerdDies ==
    /\ dockerd \in {"starting", "up"}
    /\ Fault
    /\ DockerdGone

StreamBreaks ==
    /\ subscribed
    /\ Fault
    /\ lost' = (lost \/ events # <<>>)
    /\ events' = <<>>
    /\ subscribed' = FALSE
    /\ UNCHANGED <<dockerd, network, container, peak>>

=============================================================================
