------------------------------- MODULE Dind -------------------------------
(***************************************************************************)
(* src/dind: the process of the dind container.  Two goroutines share the  *)
(* Cache without a lock: the event loop of GetResourcesInfoFromEvents,     *)
(* which follows docker's networks and containers, and main, which keeps   *)
(* a NETMAP rule per network and a socat process per port of a container.  *)
(* They meet on unbuffered channels: the event loop waits in a send until  *)
(* main has done with the previous one.                                    *)
(***************************************************************************)
EXTENDS Docker

CONSTANTS
    MaxOctet,   \* the last index of usedHostSecondOctet (255)
    Ports,      \* ports, each with its protocol
    Exposed,    \* the ports of each container
    Proxyable,  \* the ports of the protocols tcp and udp
    Reserved,   \* the ports that are listened on before any proxy: 2378 by dind, 2375 by the daemon
    Pids        \* bound: processes main knows or has running

ASSUME DindBounds ==
    /\ MaxOctet \in Nat \ {0}
    /\ IsFiniteSet(Ports) /\ Pids \subseteq Nat /\ IsFiniteSet(Pids)
    /\ Exposed \in [Containers -> SUBSET Ports]

VARIABLES
    mainPc,               \* where main is
    eventPc,              \* where the event loop is
    sending,              \* the value the event loop sends
    handling,             \* the value main works on
    networkInfoByID,      \* Cache.networkInfoByID
    containerInfoByID,    \* the containers Cache.containerInfoByID has: only that is used
    proxyPortPIDs,        \* Cache.proxyPortPIDsByContainerID
    usedHostSecondOctet,  \* indices that are true
    rules,                \* NETMAP rules of iptables
    socat,                \* the socat processes
    interrupt             \* a connection to port 2378 waits to be accepted

eventVars == <<eventPc, sending, networkInfoByID, containerInfoByID, usedHostSecondOctet>>
mainVars  == <<mainPc, handling, rules, socat>>
dindVars  == <<eventVars, mainVars, proxyPortPIDs, interrupt>>

Octets   == 1..MaxOctet
Subnet   == [subnet : Subnets, octet : Octets]
Infos    == [action : {"create", "destroy"}, id : Networks, subnets : SUBSET Subnet]
              \cup {i \in [action : {"start"}, id : Containers, run : 0..MaxStarts, ports : SUBSET Ports] :
                      i.ports \subseteq Exposed[i.id]}
              \cup [action : {"stop"}, id : Containers]
Proxies  == {x \in [id : Containers, port : Ports, run : 0..MaxStarts] : x.port \in Exposed[x.id]}
Finished == {"exited", "panicked", "crashed", "killed"}

\* nil is neither a process nor a list of subnets.
ASSUME NoneIsNil == None \notin Proxies /\ \A S \in SUBSET Subnet : S # None

DindTypeOK ==
    /\ mainPc \in Finished \cup {"absent", "new", "boot", "start", "wait", "iptables", "loop", "append",
                                 "delete", "proxy", "remember", "pids", "kill", "forget"}
    /\ eventPc \in {"off", "subscribe", "select", "add", "send", "closed"}
    /\ sending \in Infos \cup {None}
    /\ handling \in [info : Infos \cup {None}, pids : SUBSET Pids]
    /\ networkInfoByID \in [Networks -> (SUBSET Subnet) \cup {None}]
    /\ containerInfoByID \in SUBSET Containers
    /\ proxyPortPIDs \in [Containers -> SUBSET Pids]
    /\ usedHostSecondOctet \in SUBSET Octets
    /\ rules \in SUBSET Subnet
    /\ socat \in [Pids -> Proxies \cup {None}]
    /\ interrupt \in BOOLEAN

Nothing  == [info |-> None, pids |-> {}]
Each(S, v) == [x \in S |-> v]

DindInit(pc) ==
    /\ mainPc = pc
    /\ eventPc = "off"
    /\ sending = None
    /\ handling = Nothing
    /\ networkInfoByID = Each(Networks, None)
    /\ containerInfoByID = {}
    /\ proxyPortPIDs = Each(Containers, {})
    /\ usedHostSecondOctet = {}
    /\ rules = {}
    /\ socat = Each(Pids, None)
    /\ interrupt = FALSE

\* The process ends and the container with it: the daemon and the socats die.
End(pc) ==
    /\ mainPc' = pc
    /\ eventPc' = "off"
    /\ sending' = None
    /\ handling' = Nothing
    /\ networkInfoByID' = Each(Networks, None)
    /\ containerInfoByID' = {}
    /\ proxyPortPIDs' = Each(Containers, {})
    /\ usedHostSecondOctet' = {}
    /\ rules' = {}
    /\ socat' = Each(Pids, None)
    /\ interrupt' = FALSE
    /\ DockerdGone

DindRuns == mainPc \notin Finished \cup {"absent", "new"}

-----------------------------------------------------------------------------
(* The event loop, docker.go 150-268.                                      *)

\* docker.Events; while the daemon does not answer it is called again and again.
Subscribe ==
    /\ eventPc = "subscribe" /\ dockerd = "up"
    /\ subscribed' = TRUE
    /\ eventPc' = "select"
    /\ UNCHANGED <<sending, networkInfoByID, containerInfoByID, usedHostSecondOctet>>
    /\ UNCHANGED <<mainVars, proxyPortPIDs, interrupt, dockerd, network, container, events, lost, peak, faults>>

\* The stream has ended: an EOF closes the channels, an error opens it again.
StreamEnded ==
    /\ eventPc = "select" /\ ~subscribed
    /\ eventPc' \in {"closed", "subscribe"}
    /\ UNCHANGED <<sending, networkInfoByID, containerInfoByID, usedHostSecondOctet>>
    /\ UNCHANGED <<mainVars, proxyPortPIDs, interrupt, dockerVars, faults>>

Receive(event) ==
    /\ eventPc = "select" /\ events # <<>> /\ Head(events) = event
    /\ events' = Tail(events)
    /\ UNCHANGED <<dockerd, network, container, subscribed, lost, peak>>

\* Variant: the search starts at index 0.
FirstAvailableFromZero ==
    {o \in (0..MaxOctet) \ usedHostSecondOctet : \A p \in (0..MaxOctet) \ usedHostSecondOctet : o <= p}

\* Variant: the search ends before the last index.
FirstAvailableBeforeLast ==
    {o \in (1..(MaxOctet - 1)) \ usedHostSecondOctet :
        \A p \in (1..(MaxOctet - 1)) \ usedHostSecondOctet : o <= p}

\* Variant: octets are not marked, so the first one is found again.
FirstAvailableUnmarked ==
    {o \in Octets : \A p \in Octets : o <= p}

\* markAndGetFirstAvailableHostSecondOctet: the least octet that is not in use, if there is one
FirstAvailable ==
    {o \in Octets \ usedHostSecondOctet : \A p \in Octets \ usedHostSecondOctet : o <= p}

\* A network is inspected, each subnet gets an octet, the network is registered and sent; a
\* network that cannot be inspected any more is registered without subnets.
NetworkCreated(n) ==
    LET Register(subnets) ==
          /\ networkInfoByID' = [networkInfoByID EXCEPT ![n] = subnets]
          /\ usedHostSecondOctet' = usedHostSecondOctet \cup {s.octet : s \in subnets}
          /\ sending' = [action |-> "create", id |-> n, subnets |-> subnets]
          /\ eventPc' = "send"
          /\ UNCHANGED containerInfoByID
    IN  /\ Receive(<<"create", n>>)
        /\ \/ /\ network[n].phase = "up" /\ UNCHANGED faults
              /\ \E o \in FirstAvailable : Register({[subnet |-> network[n].subnet, octet |-> o]})
           \/ /\ network[n].phase # "up" /\ UNCHANGED faults
              /\ Register({})
           \/ Fault /\ Register({})
        /\ UNCHANGED <<mainVars, proxyPortPIDs, interrupt>>

\* All octets are in use: the event loop panics.
NoOctetLeft(n) ==
    /\ eventPc = "select" /\ events # <<>> /\ Head(events) = <<"create", n>>
    /\ network[n].phase = "up" /\ FirstAvailable = {}
    /\ End("panicked")
    /\ UNCHANGED faults

\* Variant: main is not told.
NetworkDestroyedSilently(n) ==
    LET subnets == networkInfoByID[n] IN
    /\ Receive(<<"destroy", n>>)
    /\ networkInfoByID' = [networkInfoByID EXCEPT ![n] = None]
    /\ usedHostSecondOctet' = usedHostSecondOctet \ {s.octet : s \in IF subnets = None THEN {} ELSE subnets}
    /\ UNCHANGED <<eventPc, sending, containerInfoByID, mainVars, proxyPortPIDs, interrupt, faults>>

\* Variant: the octets are not given back.
NetworkDestroyedKeepsOctets(n) ==
    LET subnets == networkInfoByID[n] IN
    /\ Receive(<<"destroy", n>>)
    /\ \/ subnets = None /\ UNCHANGED eventVars
       \/ /\ subnets # None
          /\ networkInfoByID' = [networkInfoByID EXCEPT ![n] = None]
          /\ sending' = [action |-> "destroy", id |-> n, subnets |-> subnets]
          /\ eventPc' = "send"
          /\ UNCHANGED <<containerInfoByID, usedHostSecondOctet>>
    /\ UNCHANGED <<mainVars, proxyPortPIDs, interrupt, faults>>

\* The octets of a registered network are given back, and main is told.
NetworkDestroyed(n) ==
    LET subnets == networkInfoByID[n] IN
    /\ Receive(<<"destroy", n>>)
    /\ \/ subnets = None /\ UNCHANGED eventVars
       \/ /\ subnets # None
          /\ usedHostSecondOctet' = usedHostSecondOctet \ {s.octet : s \in subnets}
          /\ networkInfoByID' = [networkInfoByID EXCEPT ![n] = None]
          /\ sending' = [action |-> "destroy", id |-> n, subnets |-> subnets]
          /\ eventPc' = "send"
          /\ UNCHANGED containerInfoByID
    /\ UNCHANGED <<mainVars, proxyPortPIDs, interrupt, faults>>

\* The networks of the container that are registered, and have a subnet, give it proxy IPs.
HasProxyIP(c) ==
    LET n == container[c].network IN n # None /\ networkInfoByID[n] \notin {None, {}}

\* getContainerInspectInfo: what the container is now, which may be another run than the event's
InspectInfo(c) ==
    [action |-> "start", id |-> c, run |-> container[c].starts,
     ports |-> IF container[c].running /\ HasProxyIP(c) THEN Exposed[c] ELSE {}]

ContainerStarted(c) ==
    /\ Receive(<<"start", c>>)
    /\ \/ /\ sending' = InspectInfo(c)
          /\ eventPc' = "add"
          /\ UNCHANGED faults
       \/ Fault /\ UNCHANGED <<sending, eventPc>>
    /\ UNCHANGED <<networkInfoByID, containerInfoByID, usedHostSecondOctet>>
    /\ UNCHANGED <<mainVars, proxyPortPIDs, interrupt>>

\* Forgets the PIDs the container had.
AddContainerInfo ==
    /\ eventPc = "add"
    /\ containerInfoByID' = containerInfoByID \cup {sending.id}
    /\ proxyPortPIDs' = [proxyPortPIDs EXCEPT ![sending.id] = {}]
    /\ eventPc' = "send"
    /\ UNCHANGED <<sending, networkInfoByID, usedHostSecondOctet, mainVars, interrupt, dockerVars, faults>>

\* A second "stop" of the container finds nothing; main uses the id only.
ContainerStopped(c) ==
    /\ Receive(<<"stop", c>>)
    /\ \/ c \notin containerInfoByID /\ UNCHANGED eventVars
       \/ /\ c \in containerInfoByID
          /\ containerInfoByID' = containerInfoByID \ {c}
          /\ sending' = [action |-> "stop", id |-> c]
          /\ eventPc' = "send"
          /\ UNCHANGED <<networkInfoByID, usedHostSecondOctet>>
    /\ UNCHANGED <<mainVars, proxyPortPIDs, interrupt, faults>>

EventLoop ==
    \/ Subscribe \/ StreamEnded \/ AddContainerInfo
    \/ \E n \in Networks : NetworkCreated(n) \/ NoOctetLeft(n) \/ NetworkDestroyed(n)
    \/ \E c \in Containers : ContainerStarted(c) \/ ContainerStopped(c)

-----------------------------------------------------------------------------
(* main, main.go 23-134.                                                   *)

MainGoto(pc) ==
    /\ mainPc' = pc
    /\ UNCHANGED <<eventVars, handling, rules, socat, proxyPortPIDs, interrupt>>

MainPanics == Fault /\ End("panicked")

\* listenForInterrupt: from here on a connection to port 2378 is accepted.
Begin ==
    /\ mainPc = "new"
    /\ \/ MainGoto("boot") /\ UNCHANGED <<dockerVars, faults>>
       \/ MainPanics

\* The docker client, the runtime directories and the privileges of the rootless user
Boot ==
    /\ mainPc = "boot"
    /\ \/ MainGoto("start") /\ UNCHANGED <<dockerVars, faults>>
       \/ MainPanics

\* Without the daemon cmdWait is a nil channel, and main goes on.
StartDockerd ==
    /\ mainPc = "start"
    /\ \/ dockerd' = "starting" /\ UNCHANGED faults
       \/ Fault /\ UNCHANGED dockerd
    /\ MainGoto("wait")
    /\ UNCHANGED <<network, container, events, subscribed, lost, peak>>

\* Until the daemon answers or the tries are used up; the error is logged.
WaitForDockerd ==
    /\ mainPc = "wait"
    /\ MainGoto("iptables")
    /\ UNCHANGED <<dockerVars, faults>>

StartEventLoop ==
    /\ mainPc = "iptables"
    /\ \/ /\ mainPc' = "loop" /\ eventPc' = "subscribe"
          /\ UNCHANGED <<sending, networkInfoByID, containerInfoByID, usedHostSecondOctet>>
          /\ UNCHANGED <<handling, rules, socat, proxyPortPIDs, interrupt, dockerVars, faults>>
       \/ MainPanics

\* The label at which main handles each action
Handler == [create |-> "append", destroy |-> "delete", start |-> "proxy", stop |-> "pids"]

\* The event loop and main meet on a channel.
ReceiveInfo ==
    /\ mainPc = "loop" /\ eventPc = "send"
    /\ mainPc' = Handler[sending.action]
    /\ handling' = [info |-> sending, pids |-> {}]
    /\ eventPc' = "select" /\ sending' = None
    /\ UNCHANGED <<networkInfoByID, containerInfoByID, usedHostSecondOctet, rules, socat>>
    /\ UNCHANGED <<proxyPortPIDs, interrupt, dockerVars, faults>>

\* Variant: cmdWait is not received from.
LeaveLoopWithoutWait ==
    /\ mainPc = "loop" /\ eventPc = "closed"
    /\ End("exited")
    /\ UNCHANGED faults

\* cmdWait or a closed channel ends the loop and with it the process; a daemon that ended
\* without an exit status makes main panic.
LeaveLoop ==
    /\ mainPc = "loop"
    /\ \/ (dockerd = "down" \/ eventPc = "closed") /\ End("exited") /\ UNCHANGED faults
       \/ dockerd = "down" /\ MainPanics

BackToLoop == mainPc' = "loop" /\ handling' = Nothing

SetupNetworkPortForward ==
    /\ mainPc = "append"
    /\ \/ /\ rules' = rules \cup handling.info.subnets
          /\ BackToLoop
          /\ UNCHANGED <<eventVars, socat, proxyPortPIDs, interrupt, dockerVars, faults>>
       \/ MainPanics

\* An error is logged and the rule stays.
SetdownNetworkPortForward ==
    /\ mainPc = "delete"
    /\ \/ rules' = rules \ handling.info.subnets /\ UNCHANGED faults
       \/ Fault /\ UNCHANGED rules
    /\ BackToLoop
    /\ UNCHANGED <<eventVars, socat, proxyPortPIDs, interrupt, dockerVars>>

Running == {p \in Pids : socat[p] # None}

Known == UNION {proxyPortPIDs[c] : c \in Containers} \cup handling.pids

\* createSocatCommand makes no command for another protocol than tcp and udp: main
\* dereferences nil.
NoSocatCommand(port) ==
    /\ mainPc = "proxy" /\ port \in handling.info.ports \ Proxyable
    /\ End("panicked")
    /\ UNCHANGED faults

\* Starts a socat for the next port.  One that cannot bind, because another process listens
\* on the address, exits at once; its PID is remembered all the same.
AddPortProxy(port, pid) ==
    LET info  == handling.info
        proxy == [id |-> info.id, port |-> port, run |-> info.run]
        taken == port \in Reserved \/ \E p \in Running : socat[p].id = info.id /\ socat[p].port = port
    IN  /\ mainPc = "proxy" /\ port \in info.ports \cap Proxyable
        /\ pid \in Pids \ (Running \cup Known)
        /\ \A p \in Pids \ (Running \cup Known) : pid <= p
        /\ \/ /\ socat' = [socat EXCEPT ![pid] = IF taken THEN None ELSE proxy]
              /\ handling' = [handling EXCEPT !.info.ports = @ \ {port}, !.pids = {pid}]
              /\ mainPc' = "remember"
              /\ UNCHANGED <<eventVars, rules, proxyPortPIDs, interrupt, dockerVars, faults>>
           \/ MainPanics

\* Variant: the list is replaced.
AddProxyPortPIDOnly ==
    /\ mainPc = "remember"
    /\ proxyPortPIDs' = [proxyPortPIDs EXCEPT ![handling.info.id] = handling.pids]
    /\ handling' = [handling EXCEPT !.pids = {}]
    /\ mainPc' = "proxy"
    /\ UNCHANGED <<eventVars, rules, socat, interrupt, dockerVars, faults>>

AddProxyPortPID ==
    /\ mainPc = "remember"
    /\ proxyPortPIDs' = [proxyPortPIDs EXCEPT ![handling.info.id] = @ \cup handling.pids]
    /\ handling' = [handling EXCEPT !.pids = {}]
    /\ mainPc' = "proxy"
    /\ UNCHANGED <<eventVars, rules, socat, interrupt, dockerVars, faults>>

AllPortsProxied ==
    /\ mainPc = "proxy" /\ handling.info.ports = {}
    /\ BackToLoop
    /\ UNCHANGED <<eventVars, rules, socat, proxyPortPIDs, interrupt, dockerVars, faults>>

GetProxyPortPIDs ==
    /\ mainPc = "pids"
    /\ handling' = [handling EXCEPT !.pids = proxyPortPIDs[handling.info.id]]
    /\ mainPc' = "kill"
    /\ UNCHANGED <<eventVars, rules, socat, proxyPortPIDs, interrupt, dockerVars, faults>>

\* RemovePortProxy for each PID; that of a process that is gone is an error.
Kill ==
    /\ mainPc = "kill"
    /\ UNCHANGED faults
    /\ \/ /\ handling.pids \subseteq Running
          /\ socat' = [p \in Pids |-> IF p \in handling.pids THEN None ELSE socat[p]]
          /\ mainPc' = "forget"
          /\ UNCHANGED <<eventVars, handling, rules, proxyPortPIDs, interrupt, dockerVars>>
       \/ ~(handling.pids \subseteq Running) /\ End("panicked")

DeleteProxyPortPIDs ==
    /\ mainPc = "forget"
    /\ proxyPortPIDs' = [proxyPortPIDs EXCEPT ![handling.info.id] = {}]
    /\ BackToLoop
    /\ UNCHANGED <<eventVars, rules, socat, interrupt, dockerVars, faults>>

Main ==
    \/ Begin \/ Boot \/ StartDockerd \/ WaitForDockerd \/ StartEventLoop
    \/ ReceiveInfo \/ LeaveLoop
    \/ SetupNetworkPortForward \/ SetdownNetworkPortForward
    \/ \E port \in Ports : NoSocatCommand(port) \/ \E pid \in Pids : AddPortProxy(port, pid)
    \/ AddProxyPortPID \/ AllPortsProxied
    \/ GetProxyPortPIDs \/ Kill \/ DeleteProxyPortPIDs

-----------------------------------------------------------------------------
(* What happens to the process meanwhile.                                  *)

\* Both goroutines are about to access the map of PIDs and one of them writes it: the Go
\* runtime ends the process when it notices.
ConcurrentMapAccess ==
    /\ eventPc = "add" /\ mainPc \in {"remember", "pids", "forget"}
    /\ End("crashed")
    /\ UNCHANGED faults

\* A socat ends by itself.
SocatExits ==
    /\ \E p \in Running : socat' = [socat EXCEPT ![p] = None]
    /\ Fault
    /\ UNCHANGED <<eventVars, mainPc, handling, rules, proxyPortPIDs, interrupt, dockerVars>>

\* The goroutine of listenForInterrupt
Interrupted ==
    /\ DindRuns /\ interrupt
    /\ End("exited")
    /\ UNCHANGED faults

Docker ==
    /\ DockerdReady \/ DockerdDies \/ StreamBreaks
    /\ UNCHANGED dindVars

Dind == EventLoop \/ Main \/ ConcurrentMapAccess \/ SocatExits \/ Interrupted \/ Docker

-----------------------------------------------------------------------------
\* Both goroutines wait, and no event is on its way.
AtRest == mainPc = "loop" /\ eventPc = "select" /\ subscribed /\ events = <<>>

=============================================================================
