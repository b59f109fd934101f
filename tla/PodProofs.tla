----------------------------- MODULE PodProofs -----------------------------
(***************************************************************************)
(* Proofs about Pod for any networks, containers, subnets, ports and       *)
(* processes and any bounds on events, starts and failures: types, and     *)
(* that a job that asked for docker has it.                                *)
(***************************************************************************)
EXTENDS Pod, SequenceTheorems, FiniteSetTheorems, TLAPS

-----------------------------------------------------------------------------
(* Type correctness.                                                       *)

NetworkInfos(action) == [action : {action}, id : Networks, subnets : SUBSET Subnet]
StartInfos           == {i \in [action : {"start"}, id : Containers, run : 0..MaxStarts, ports : SUBSET Ports] :
                           i.ports \subseteq Exposed[i.id]}
StopInfos            == [action : {"stop"}, id : Containers]

\* Where the event loop is tells what it sends, and where main is what it handles.
EventShapes ==
    /\ eventPc = "add" => sending \in StartInfos
    /\ eventPc = "send" => sending \in Infos
    /\ eventPc \notin {"add", "send"} => sending = None

MainShapes ==
    /\ mainPc = "append" => handling.info \in NetworkInfos("create")
    /\ mainPc = "delete" => handling.info \in NetworkInfos("destroy")
    /\ mainPc \in {"proxy", "remember"} => handling.info \in StartInfos
    /\ mainPc \in {"pids", "kill", "forget"} => handling.info \in StopInfos
    /\ mainPc \notin {"append", "delete", "proxy", "remember", "pids", "kill", "forget"} => handling = Nothing

\* The event loop runs only after main has started it.
LoopOff == mainPc \in Finished \cup {"absent", "new", "boot", "start", "wait", "iptables"} => eventPc = "off"

Up(n) == network[n].phase = "up"

\* The networks that are up are those that have a subnet.
SubnetsInUse == \A n \in Networks : Up(n) <=> network[n].subnet # None

DockerTypes == DockerTypeOK /\ SubnetsInUse
DindTypes   == DindTypeOK /\ EventShapes /\ MainShapes /\ LoopOff

\* The inductive form of type correctness
TypeInv == TypeOK /\ SubnetsInUse /\ EventShapes /\ MainShapes /\ LoopOff

\* The parts of the inductive form
LEMMA TypeParts ==
  TypeInv <=> DockerTypes /\ DindTypes /\ RunnerTypeOK /\ kubelet \in {"running", "terminating", "done"}
  BY DEF TypeInv, TypeOK, DockerTypes, DindTypes

\* A failure uses up one of those that are left.
LEMMA FaultTypes ==
  ASSUME faults \in 0..MaxFaults, Fault \/ UNCHANGED faults
  PROVE  faults' \in 0..MaxFaults /\ (faults' = 0 => faults = 0 /\ UNCHANGED faults)
  BY DockerBounds DEF Fault

\* What is left of a daemon that is gone
LEMMA GoneFacts ==
  ASSUME DockerTypes, DockerdGone
  PROVE  /\ dockerd' = "down" /\ network' = NoNetworks /\ events' = <<>> /\ subscribed' = FALSE /\ lost' = lost /\ peak' = peak
         /\ \A c \in Containers : /\ container'[c].starts = container[c].starts
                                 /\ container'[c].running = FALSE /\ container'[c].network = None
  <1>1. \A c \in Containers : container'[c] = [container[c] EXCEPT !.running = FALSE, !.network = None]
    BY DEF DockerdGone
  <1>2. \A c \in Containers : container[c] \in ContainerStates
    BY DEF DockerTypes, DockerTypeOK
  <1>3. ASSUME NEW k \in ContainerStates
        PROVE  LET l == [k EXCEPT !.running = FALSE, !.network = None] IN
               l.starts = k.starts /\ l.running = FALSE /\ l.network = None
    BY DEF ContainerStates
  <1> QED
    BY <1>1, <1>2, <1>3 DEF DockerdGone

\* The daemon without networks, and nobody subscribed, has the types.
LEMMA GoneTypes ==
  ASSUME DockerTypes, DockerdGone, Fault \/ UNCHANGED faults
  PROVE  DockerTypes'
  <1>1. faults' \in 0..MaxFaults
    BY FaultTypes DEF DockerTypes, DockerTypeOK
  <1>2. network' \in [Networks -> NetworkStates] /\ SubnetsInUse'
    BY DEF DockerdGone, NoNetworks, NetworkStates, SubnetsInUse, Up
  <1>3. container' \in [Containers -> ContainerStates]
    <2>1. ASSUME NEW c \in Containers
          PROVE  [container[c] EXCEPT !.running = FALSE, !.network = None] \in ContainerStates
      BY DEF DockerTypes, DockerTypeOK, ContainerStates
    <2> QED
      BY <2>1 DEF DockerdGone
  <1>4. events' = <<>> /\ dockerd' = "down" /\ subscribed' = FALSE /\ lost' = lost /\ peak' = peak
    BY DEF DockerdGone
  <1>5. events' \in Seq(Events) /\ Len(events') <= MaxEvents
    BY <1>4, EmptySeq, DockerBounds
  <1> QED
    BY <1>1, <1>2, <1>3, <1>4, <1>5 DEF DockerTypes, DockerTypeOK

\* A step that leaves the daemon alone keeps its types.
LEMMA DockerSame ==
  ASSUME DockerTypes, UNCHANGED dockerVars, Fault \/ UNCHANGED faults
  PROVE  DockerTypes'
  <1>1. faults' \in 0..MaxFaults
    BY FaultTypes DEF DockerTypes, DockerTypeOK
  <1> QED
    BY <1>1 DEF DockerTypes, DockerTypeOK, SubnetsInUse, Up, dockerVars

\* A step that leaves dind alone keeps its types.
LEMMA DindSame ==
  ASSUME DindTypes, UNCHANGED dindVars
  PROVE  DindTypes'
  BY DEF DindTypes, DindTypeOK, EventShapes, MainShapes, LoopOff, dindVars, eventVars, mainVars

\* A process that has ended has the types.
LEMMA EndTypes ==
  ASSUME DockerTypes, NEW pc \in Finished, End(pc), Fault \/ UNCHANGED faults
  PROVE  DockerTypes' /\ DindTypes'
  <1>1. DockerTypes'
    BY GoneTypes DEF End
  <1>2. DindTypeOK'
    BY DEF End, DindTypeOK, Finished, Nothing, Each
  <1>3. EventShapes' /\ MainShapes' /\ LoopOff'
    BY DEF End, EventShapes, MainShapes, LoopOff, Finished
  <1> QED
    BY <1>1, <1>2, <1>3 DEF DindTypes

\* The initial state has the types.
LEMMA TypeInit == Init => TypeInv
  <1> SUFFICES ASSUME Init
               PROVE  TypeInv
    OBVIOUS
  <1>1. DockerTypes
    <2>1. network \in [Networks -> NetworkStates] /\ SubnetsInUse
      BY DEF Init, DockerInit, NoNetworks, NetworkStates, SubnetsInUse, Up
    <2>2. container \in [Containers -> ContainerStates]
      BY DockerBounds DEF Init, DockerInit, NoContainers, ContainerStates
    <2>3. events \in Seq(Events) /\ Len(events) <= MaxEvents
      BY EmptySeq, DockerBounds DEF Init, DockerInit
    <2>4. faults \in 0..MaxFaults
      BY DockerBounds DEF Init, DockerInit
    <2> QED
      BY <2>1, <2>2, <2>3, <2>4 DEF Init, DockerInit, DockerTypes, DockerTypeOK
  <1>2. mainPc \in {"new", "absent"}
    BY DEF Init, DindInit
  <1>3. DindTypeOK
    BY <1>2 DEF Init, DindInit, DindTypeOK, Nothing, Each
  <1>4. EventShapes /\ MainShapes /\ LoopOff
    BY <1>2 DEF Init, DindInit, EventShapes, MainShapes, LoopOff
  <1>5. RunnerTypeOK /\ kubelet = "running"
    BY DEF Init, RunnerInit, RunnerTypeOK, RunnerEnded
  <1> QED
    BY <1>1, <1>3, <1>4, <1>5, TypeParts DEF DindTypes

\* The event loop takes the first event; the others move up.
LEMMA ReceiveTypes ==
  ASSUME DockerTypes, NEW event, Receive(event), Fault \/ UNCHANGED faults
  PROVE  DockerTypes' /\ event \in Events
  <1>1. faults' \in 0..MaxFaults
    BY FaultTypes DEF DockerTypes, DockerTypeOK
  <1>2. events \in Seq(Events) /\ events # <<>> /\ Len(events) <= MaxEvents /\ Len(events) \in Nat
    BY LenProperties DEF Receive, DockerTypes, DockerTypeOK
  <1>3. Tail(events) \in Seq(Events) /\ Len(Tail(events)) = Len(events) - 1 /\ Head(events) \in Events
    BY <1>2, HeadTailProperties
  <1>4. Len(Tail(events)) <= MaxEvents
    BY <1>2, <1>3, DockerBounds
  <1>5. events' \in Seq(Events) /\ Len(events') <= MaxEvents /\ event \in Events
    BY <1>3, <1>4 DEF Receive
  <1> QED
    BY <1>1, <1>5 DEF Receive, DockerTypes, DockerTypeOK, SubnetsInUse, Up

\* A step of the event loop that leaves main alone keeps the types of what main has.
LEMMA MainSame ==
  ASSUME DindTypes, UNCHANGED <<mainVars, interrupt>>,
         EventShapes', eventPc # "off",
         eventPc' \in {"off", "subscribe", "select", "add", "send", "closed"},
         sending' \in Infos \cup {None},
         networkInfoByID' \in [Networks -> (SUBSET Subnet) \cup {None}],
         containerInfoByID' \in SUBSET Containers,
         proxyPortPIDs' \in [Containers -> SUBSET Pids],
         usedHostSecondOctet' \in SUBSET Octets
  PROVE  DindTypes'
  BY DEF DindTypes, DindTypeOK, MainShapes, LoopOff, mainVars

\* What has been inspected of a container is an information of a start.
LEMMA InspectTypes ==
  ASSUME DockerTypes, NEW c \in Containers
  PROVE  InspectInfo(c) \in StartInfos
  <1>1. container[c].starts \in 0..MaxStarts
    BY DEF DockerTypes, DockerTypeOK, ContainerStates
  <1>2. Exposed[c] \in SUBSET Ports
    BY DindBounds
  <1> QED
    BY <1>1, <1>2 DEF InspectInfo, StartInfos

\* The informations are those of networks, of starts and of stops.
LEMMA InfoKinds ==
  /\ Infos = NetworkInfos("create") \cup NetworkInfos("destroy") \cup StartInfos \cup StopInfos
  /\ \A info \in NetworkInfos("create") : info.action = "create"
  /\ \A info \in NetworkInfos("destroy") : info.action = "destroy"
  /\ \A info \in StartInfos : info.action = "start"
  /\ \A info \in StopInfos : info.action = "stop"
  <1>1. [action : {"create", "destroy"}, id : Networks, subnets : SUBSET Subnet]
          = NetworkInfos("create") \cup NetworkInfos("destroy")
    BY DEF NetworkInfos
  <1> QED
    BY <1>1 DEF Infos, NetworkInfos, StartInfos, StopInfos

\* The steps of the event loop keep the types.
LEMMA EventLoopTypes ==
  ASSUME DockerTypes, DindTypes, EventLoop
  PROVE  DockerTypes' /\ DindTypes'
  <1>1. CASE Subscribe
    <2>1. DockerTypes'
      BY <1>1 DEF Subscribe, DockerTypes, DockerTypeOK, SubnetsInUse, Up
    <2>2. DindTypes'
      BY <1>1 DEF Subscribe, DindTypes, DindTypeOK, EventShapes, MainShapes, LoopOff, mainVars
    <2> QED
      BY <2>1, <2>2
  <1>2. CASE StreamEnded
    <2>1. DindTypes'
      BY <1>2 DEF StreamEnded, DindTypes, DindTypeOK, EventShapes, MainShapes, LoopOff, mainVars
    <2> QED
      BY <1>2, <2>1, DockerSame DEF StreamEnded
  <1>3. CASE AddContainerInfo
    <2>1. sending \in StartInfos /\ sending \in Infos /\ sending.id \in Containers
      BY <1>3, InfoKinds DEF AddContainerInfo, DindTypes, EventShapes, StartInfos
    <2>2. EventShapes'
      BY <1>3, <2>1 DEF AddContainerInfo, EventShapes
    <2>3. /\ containerInfoByID' \in SUBSET Containers
          /\ proxyPortPIDs' \in [Containers -> SUBSET Pids]
      BY <1>3, <2>1 DEF AddContainerInfo, DindTypes, DindTypeOK
    <2>4. DindTypes'
      BY <1>3, <2>1, <2>2, <2>3 DEF AddContainerInfo, DindTypes, DindTypeOK, MainShapes, LoopOff, mainVars
    <2> QED
      BY <1>3, <2>4, DockerSame DEF AddContainerInfo
  <1>4. ASSUME NEW n \in Networks, NetworkCreated(n)
        PROVE  DockerTypes' /\ DindTypes'
    <2>1. DockerTypes'
      BY <1>4, ReceiveTypes DEF NetworkCreated
    <2>2. PICK subnets \in SUBSET Subnet :
             /\ networkInfoByID' = [networkInfoByID EXCEPT ![n] = subnets]
             /\ usedHostSecondOctet' = usedHostSecondOctet \cup {s.octet : s \in subnets}
             /\ sending' = [action |-> "create", id |-> n, subnets |-> subnets]
             /\ eventPc' = "send"
             /\ UNCHANGED containerInfoByID
      <3>1. ASSUME Up(n), NEW o \in FirstAvailable
            PROVE  {[subnet |-> network[n].subnet, octet |-> o]} \in SUBSET Subnet
        <4>1. network[n].subnet \in Subnets
          BY <3>1 DEF DockerTypes, DockerTypeOK, SubnetsInUse, NetworkStates
        <4> QED
          BY <4>1 DEF Subnet, FirstAvailable
      <3> QED
        BY <1>4, <3>1 DEF NetworkCreated, Up
    <2>3. sending' \in NetworkInfos("create")
      BY <2>2 DEF NetworkInfos
    <2>4. sending' \in Infos /\ EventShapes'
      BY <2>2, <2>3, InfoKinds DEF EventShapes
    <2>5. /\ networkInfoByID' \in [Networks -> (SUBSET Subnet) \cup {None}]
          /\ usedHostSecondOctet' \in SUBSET Octets
      BY <2>2 DEF DindTypes, DindTypeOK, Subnet
    <2>6. UNCHANGED <<mainVars, proxyPortPIDs, interrupt>> /\ eventPc # "off"
      BY <1>4 DEF NetworkCreated, Receive
    <2>7. DindTypes'
      BY <2>2, <2>4, <2>5, <2>6, MainSame DEF DindTypes, DindTypeOK
    <2> QED
      BY <2>1, <2>7
  <1>5. ASSUME NEW n \in Networks, NoOctetLeft(n)
        PROVE  DockerTypes' /\ DindTypes'
    BY <1>5, EndTypes DEF NoOctetLeft, Finished
  <1>6. ASSUME NEW n \in Networks, NetworkDestroyed(n)
        PROVE  DockerTypes' /\ DindTypes'
    <2>1. DockerTypes'
      BY <1>6, ReceiveTypes DEF NetworkDestroyed
    <2>2. UNCHANGED <<mainVars, proxyPortPIDs, interrupt>> /\ eventPc # "off"
      BY <1>6 DEF NetworkDestroyed, Receive
    <2>3. CASE UNCHANGED eventVars
      BY <2>1, <2>2, <2>3, DindSame DEF dindVars
    <2>4. CASE /\ networkInfoByID[n] # None
               /\ usedHostSecondOctet' = usedHostSecondOctet \ {s.octet : s \in networkInfoByID[n]}
               /\ networkInfoByID' = [networkInfoByID EXCEPT ![n] = None]
               /\ sending' = [action |-> "destroy", id |-> n, subnets |-> networkInfoByID[n]]
               /\ eventPc' = "send"
               /\ UNCHANGED containerInfoByID
      <3>1. networkInfoByID[n] \in SUBSET Subnet
        BY <2>4 DEF DindTypes, DindTypeOK
      <3>2. sending' \in NetworkInfos("destroy")
        BY <2>4, <3>1 DEF NetworkInfos
      <3>3. sending' \in Infos /\ EventShapes'
        BY <2>4, <3>2, InfoKinds DEF EventShapes
      <3>4. /\ networkInfoByID' \in [Networks -> (SUBSET Subnet) \cup {None}]
            /\ usedHostSecondOctet' \in SUBSET Octets
        BY <2>4 DEF DindTypes, DindTypeOK
      <3>5. DindTypes'
        BY <2>2, <2>4, <3>3, <3>4, MainSame DEF DindTypes, DindTypeOK
      <3> QED
        BY <2>1, <3>5
    <2> QED
      BY <1>6, <2>3, <2>4 DEF NetworkDestroyed
  <1>7. ASSUME NEW c \in Containers, ContainerStarted(c)
        PROVE  DockerTypes' /\ DindTypes'
    <2>1. DockerTypes'
      BY <1>7, ReceiveTypes DEF ContainerStarted
    <2>2. /\ UNCHANGED <<networkInfoByID, containerInfoByID, usedHostSecondOctet>>
          /\ UNCHANGED <<mainVars, proxyPortPIDs, interrupt>> /\ eventPc # "off"
      BY <1>7 DEF ContainerStarted, Receive
    <2>3. CASE UNCHANGED <<sending, eventPc>>
      BY <2>1, <2>2, <2>3, DindSame DEF dindVars, eventVars
    <2>4. CASE sending' = InspectInfo(c) /\ eventPc' = "add"
      <3>1. sending' \in StartInfos /\ sending' \in Infos /\ EventShapes'
        BY <2>4, InspectTypes, InfoKinds DEF EventShapes
      <3>2. DindTypes'
        BY <2>2, <2>4, <3>1, MainSame DEF DindTypes, DindTypeOK
      <3> QED
        BY <2>1, <3>2
    <2> QED
      BY <1>7, <2>3, <2>4 DEF ContainerStarted
  <1>8. ASSUME NEW c \in Containers, ContainerStopped(c)
        PROVE  DockerTypes' /\ DindTypes'
    <2>1. DockerTypes'
      BY <1>8, ReceiveTypes DEF ContainerStopped
    <2>2. UNCHANGED <<mainVars, proxyPortPIDs, interrupt>> /\ eventPc # "off"
      BY <1>8 DEF ContainerStopped, Receive
    <2>3. CASE UNCHANGED eventVars
      BY <2>1, <2>2, <2>3, DindSame DEF dindVars
    <2>4. CASE /\ containerInfoByID' = containerInfoByID \ {c}
               /\ sending' = [action |-> "stop", id |-> c]
               /\ eventPc' = "send"
               /\ UNCHANGED <<networkInfoByID, usedHostSecondOctet>>
      <3>1. sending' \in StopInfos
        BY <2>4 DEF StopInfos
      <3>2. sending' \in Infos /\ EventShapes'
        BY <2>4, <3>1, InfoKinds DEF EventShapes
      <3>3. DindTypes'
        BY <2>2, <2>4, <3>2, MainSame DEF DindTypes, DindTypeOK
      <3> QED
        BY <2>1, <3>3
    <2> QED
      BY <1>8, <2>3, <2>4 DEF ContainerStopped
  <1> QED
    BY <1>1, <1>2, <1>3, <1>4, <1>5, <1>6, <1>7, <1>8 DEF EventLoop

\* A step of main that leaves the event loop alone keeps the types of what it has.
LEMMA EventSame ==
  ASSUME DindTypes, UNCHANGED <<eventVars, interrupt>>,
         mainPc' \in {"loop", "append", "delete", "proxy", "remember", "pids", "kill", "forget"},
         handling' \in [info : Infos \cup {None}, pids : SUBSET Pids],
         MainShapes',
         proxyPortPIDs' \in [Containers -> SUBSET Pids],
         rules' \in SUBSET Subnet,
         socat' \in [Pids -> Proxies \cup {None}]
  PROVE  DindTypes'
  BY DEF DindTypes, DindTypeOK, EventShapes, LoopOff, Finished, eventVars

\* What main gets from the event loop fits the label it goes to.
LEMMA HandlerTypes ==
  ASSUME NEW info \in Infos
  PROVE  LET pc == Handler[info.action] IN
         /\ pc \in {"append", "delete", "proxy", "pids"}
         /\ pc = "append" => info \in NetworkInfos("create")
         /\ pc = "delete" => info \in NetworkInfos("destroy")
         /\ pc = "proxy" => info \in StartInfos
         /\ pc = "pids" => info \in StopInfos
  <1>1. CASE info \in NetworkInfos("create")
    BY <1>1, InfoKinds DEF Handler
  <1>2. CASE info \in NetworkInfos("destroy")
    BY <1>2, InfoKinds DEF Handler
  <1>3. CASE info \in StartInfos
    BY <1>3, InfoKinds DEF Handler
  <1>4. CASE info \in StopInfos
    BY <1>4, InfoKinds DEF Handler
  <1> QED
    BY <1>1, <1>2, <1>3, <1>4, InfoKinds

\* The steps of main keep the types.
LEMMA MainTypes ==
  ASSUME DockerTypes, DindTypes, Main
  PROVE  DockerTypes' /\ DindTypes'
  <1>1. ASSUME MainPanics
        PROVE  DockerTypes' /\ DindTypes'
    BY <1>1, EndTypes DEF MainPanics, Finished
  <1>2. ASSUME NEW pc \in {"boot", "start", "wait", "iptables"}, MainGoto(pc),
               mainPc \in {"new", "boot", "start", "wait"}
        PROVE  DindTypes'
    BY <1>2 DEF MainGoto, DindTypes, DindTypeOK, EventShapes, MainShapes, LoopOff, eventVars
  <1>3. CASE Begin
    BY <1>3, <1>1, <1>2, DockerSame DEF Begin
  <1>4. CASE Boot
    BY <1>4, <1>1, <1>2, DockerSame DEF Boot
  <1>5. CASE StartDockerd
    <2>1. faults' \in 0..MaxFaults
      BY <1>5, FaultTypes DEF StartDockerd, DockerTypes, DockerTypeOK
    <2>2. DockerTypes'
      BY <1>5, <2>1 DEF StartDockerd, DockerTypes, DockerTypeOK, SubnetsInUse, Up
    <2> QED
      BY <1>5, <1>2, <2>2 DEF StartDockerd
  <1>6. CASE WaitForDockerd
    BY <1>6, <1>2, DockerSame DEF WaitForDockerd
  <1>7. CASE StartEventLoop
    <2>1. CASE MainPanics
      BY <1>1, <2>1
    <2>2. CASE ~MainPanics
      <3>1. /\ mainPc = "iptables" /\ mainPc' = "loop" /\ eventPc' = "subscribe"
            /\ UNCHANGED <<sending, networkInfoByID, containerInfoByID, usedHostSecondOctet>>
            /\ UNCHANGED <<handling, rules, socat, proxyPortPIDs, interrupt, dockerVars, faults>>
        BY <1>7, <2>2 DEF StartEventLoop
      <3>2. DindTypeOK'
        BY <3>1 DEF DindTypes, DindTypeOK
      <3>3. MainShapes'
        BY <3>1 DEF DindTypes, MainShapes
      <3>4. EventShapes' /\ LoopOff'
        BY <3>1 DEF DindTypes, EventShapes, LoopOff, Finished
      <3> QED
        BY <3>1, <3>2, <3>3, <3>4, DockerSame DEF DindTypes
    <2> QED
      BY <2>1, <2>2
  <1>8. CASE ReceiveInfo
    <2>1. sending \in Infos
      BY <1>8 DEF ReceiveInfo, DindTypes, EventShapes
    <2>2. mainPc' = Handler[sending.action] /\ handling' = [info |-> sending, pids |-> {}]
      BY <1>8 DEF ReceiveInfo
    <2>3. handling'.info = sending /\ handling' \in [info : Infos \cup {None}, pids : SUBSET Pids]
      BY <2>1, <2>2
    <2>4. mainPc' \in {"append", "delete", "proxy", "pids"} /\ MainShapes'
      BY <2>1, <2>2, <2>3, HandlerTypes DEF MainShapes
    <2>5. EventShapes' /\ LoopOff'
      BY <1>8, <2>4 DEF ReceiveInfo, EventShapes, LoopOff, Finished
    <2>6. DindTypes'
      BY <1>8, <2>3, <2>4, <2>5 DEF ReceiveInfo, DindTypes, DindTypeOK
    <2> QED
      BY <1>8, <2>6, DockerSame DEF ReceiveInfo
  <1>9. CASE LeaveLoop
    BY <1>9, <1>1, EndTypes DEF LeaveLoop, Finished
  <1>10. CASE SetupNetworkPortForward
    <2>1. CASE MainPanics
      BY <1>1, <2>1
    <2>2. CASE ~MainPanics
      <3>1. handling.info.subnets \in SUBSET Subnet
        BY <1>10 DEF SetupNetworkPortForward, DindTypes, MainShapes, NetworkInfos
      <3>2. /\ rules' = rules \cup handling.info.subnets /\ BackToLoop
            /\ UNCHANGED <<eventVars, socat, proxyPortPIDs, interrupt, dockerVars, faults>>
        BY <1>10, <2>2 DEF SetupNetworkPortForward
      <3>3. DindTypes'
        BY <3>1, <3>2, EventSame DEF BackToLoop, DindTypes, DindTypeOK, MainShapes, Nothing
      <3> QED
        BY <3>2, <3>3, DockerSame
    <2> QED
      BY <2>1, <2>2
  <1>11. CASE SetdownNetworkPortForward
    <2>1. DockerTypes'
      BY <1>11, DockerSame DEF SetdownNetworkPortForward
    <2>2. rules' \in SUBSET Subnet
      BY <1>11 DEF SetdownNetworkPortForward, DindTypes, DindTypeOK
    <2>3. DindTypes'
      BY <1>11, <2>2, EventSame DEF SetdownNetworkPortForward, BackToLoop, DindTypes, DindTypeOK, MainShapes, Nothing
    <2> QED
      BY <2>1, <2>3
  <1>12. ASSUME NEW port \in Ports, NEW pid \in Pids, AddPortProxy(port, pid)
         PROVE  DockerTypes' /\ DindTypes'
    <2>1. CASE MainPanics
      BY <1>1, <2>1
    <2>2. CASE ~MainPanics
      <3>1. handling.info \in StartInfos /\ handling \in [info : Infos \cup {None}, pids : SUBSET Pids]
        BY <1>12 DEF AddPortProxy, DindTypes, DindTypeOK, MainShapes
      <3>2. [id |-> handling.info.id, port |-> port, run |-> handling.info.run] \in Proxies
        <4>1. port \in handling.info.ports
          BY <1>12 DEF AddPortProxy
        <4> QED
          BY <3>1, <4>1 DEF Proxies, StartInfos
      <3>3. socat' \in [Pids -> Proxies \cup {None}]
        BY <1>12, <2>2, <3>2 DEF AddPortProxy, DindTypes, DindTypeOK
      <3>4. [handling.info EXCEPT !.ports = @ \ {port}] \in StartInfos
        BY <3>1 DEF StartInfos
      <3>5. handling' = [handling EXCEPT !.info.ports = @ \ {port}, !.pids = {pid}] /\ mainPc' = "remember"
        BY <1>12, <2>2 DEF AddPortProxy
      <3>6. handling' = [info |-> [handling.info EXCEPT !.ports = @ \ {port}], pids |-> {pid}]
        BY <3>1, <3>5
      <3>7. handling' \in [info : Infos \cup {None}, pids : SUBSET Pids] /\ handling'.info \in StartInfos
        BY <3>4, <3>6, InfoKinds
      <3>8. MainShapes'
        BY <3>5, <3>7 DEF MainShapes
      <3>9. UNCHANGED <<eventVars, rules, proxyPortPIDs, interrupt, dockerVars, faults>>
        BY <1>12, <2>2 DEF AddPortProxy
      <3>10. DindTypes'
        BY <3>3, <3>5, <3>7, <3>8, <3>9, EventSame DEF DindTypes, DindTypeOK
      <3> QED
        BY <3>9, <3>10, DockerSame
    <2> QED
      BY <2>1, <2>2
  <1>13. CASE AddProxyPortPID
    <2>1. handling.info \in StartInfos /\ handling.info.id \in Containers
      BY <1>13 DEF AddProxyPortPID, DindTypes, MainShapes, StartInfos
    <2>2. proxyPortPIDs' \in [Containers -> SUBSET Pids]
      BY <1>13, <2>1 DEF AddProxyPortPID, DindTypes, DindTypeOK
    <2>3. handling' \in [info : Infos \cup {None}, pids : SUBSET Pids] /\ handling'.info = handling.info
      BY <1>13 DEF AddProxyPortPID, DindTypes, DindTypeOK
    <2>4. DindTypes'
      BY <1>13, <2>1, <2>2, <2>3, EventSame DEF AddProxyPortPID, DindTypes, DindTypeOK, MainShapes
    <2> QED
      BY <1>13, <2>4, DockerSame DEF AddProxyPortPID
  <1>14. CASE AllPortsProxied
    <2>1. DindTypes'
      BY <1>14, EventSame DEF AllPortsProxied, BackToLoop, DindTypes, DindTypeOK, MainShapes, Nothing
    <2> QED
      BY <1>14, <2>1, DockerSame DEF AllPortsProxied
  <1>15. CASE GetProxyPortPIDs
    <2>1. handling.info \in StopInfos /\ handling.info.id \in Containers
      BY <1>15 DEF GetProxyPortPIDs, DindTypes, MainShapes, StopInfos
    <2>2. handling' \in [info : Infos \cup {None}, pids : SUBSET Pids] /\ handling'.info = handling.info
      BY <1>15, <2>1 DEF GetProxyPortPIDs, DindTypes, DindTypeOK
    <2>3. DindTypes'
      BY <1>15, <2>1, <2>2, EventSame DEF GetProxyPortPIDs, DindTypes, DindTypeOK, MainShapes
    <2> QED
      BY <1>15, <2>3, DockerSame DEF GetProxyPortPIDs
  <1>16. CASE Kill
    <2>1. CASE End("panicked")
      BY <1>16, <2>1, EndTypes DEF Kill, Finished
    <2>2. CASE ~End("panicked")
      <3>1. socat' \in [Pids -> Proxies \cup {None}]
        BY <1>16, <2>2 DEF Kill, DindTypes, DindTypeOK
      <3>2. DindTypes'
        BY <1>16, <2>2, <3>1, EventSame DEF Kill, DindTypes, DindTypeOK, MainShapes
      <3> QED
        BY <1>16, <2>2, <3>2, DockerSame DEF Kill
    <2> QED
      BY <2>1, <2>2
  <1>17. CASE DeleteProxyPortPIDs
    <2>1. proxyPortPIDs' \in [Containers -> SUBSET Pids]
      BY <1>17 DEF DeleteProxyPortPIDs, DindTypes, DindTypeOK
    <2>2. DindTypes'
      BY <1>17, <2>1, EventSame DEF DeleteProxyPortPIDs, BackToLoop, DindTypes, DindTypeOK, MainShapes, Nothing
    <2> QED
      BY <1>17, <2>2, DockerSame DEF DeleteProxyPortPIDs
  <1>18. ASSUME NEW port \in Ports, NoSocatCommand(port)
         PROVE  DockerTypes' /\ DindTypes'
    BY <1>18, EndTypes DEF NoSocatCommand, Finished
  <1> QED
    BY <1>3, <1>4, <1>5, <1>6, <1>7, <1>8, <1>9, <1>10, <1>11, <1>12, <1>13, <1>14, <1>15, <1>16, <1>17, <1>18 DEF Main

\* What else happens to dind and to the daemon keeps the types.
LEMMA DindMeanwhileTypes ==
  ASSUME DockerTypes, DindTypes, ConcurrentMapAccess \/ SocatExits \/ Interrupted \/ Docker
  PROVE  DockerTypes' /\ DindTypes'
  <1>1. CASE ConcurrentMapAccess
    BY <1>1, EndTypes DEF ConcurrentMapAccess, Finished
  <1>2. CASE Interrupted
    BY <1>2, EndTypes DEF Interrupted, Finished
  <1>3. CASE SocatExits
    <2>1. socat' \in [Pids -> Proxies \cup {None}]
      BY <1>3 DEF SocatExits, Running, DindTypes, DindTypeOK
    <2>2. DindTypes'
      BY <1>3, <2>1 DEF SocatExits, DindTypes, DindTypeOK, EventShapes, MainShapes, LoopOff, eventVars
    <2> QED
      BY <1>3, <2>2, DockerSame DEF SocatExits
  <1>4. CASE Docker
    <2>1. DindTypes'
      BY <1>4, DindSame DEF Docker
    <2>2. CASE DockerdReady
      BY <2>1, <2>2 DEF DockerdReady, DockerTypes, DockerTypeOK, SubnetsInUse, Up
    <2>3. CASE DockerdDies
      BY <2>1, <2>3, GoneTypes DEF DockerdDies
    <2>4. CASE StreamBreaks
      <3>1. faults' \in 0..MaxFaults
        BY <2>4, FaultTypes DEF StreamBreaks, DockerTypes, DockerTypeOK
      <3>2. events' \in Seq(Events) /\ Len(events') <= MaxEvents
        BY <2>4, EmptySeq, DockerBounds DEF StreamBreaks
      <3>3. lost' \in BOOLEAN
        BY <2>4 DEF StreamBreaks, DockerTypes, DockerTypeOK
      <3>4. DockerTypes'
        BY <2>4, <3>1, <3>2, <3>3 DEF StreamBreaks, DockerTypes, DockerTypeOK, SubnetsInUse, Up
      <3> QED
        BY <2>1, <3>4
    <2> QED
      BY <1>4, <2>2, <2>3, <2>4 DEF Docker
  <1> QED
    BY <1>1, <1>2, <1>3, <1>4

\* Events are told, after those that are on their way, if somebody listens.
LEMMA EmitTypes ==
  ASSUME DockerTypes, NEW es \in Seq(Events), Emit(es)
  PROVE  /\ events' \in Seq(Events) /\ Len(events') <= MaxEvents
         /\ lost' \in BOOLEAN /\ UNCHANGED <<dockerd, subscribed, faults>>
         /\ events' = IF subscribed THEN events \o es ELSE events
  <1>1. events \in Seq(Events) /\ Len(events) <= MaxEvents
    BY DEF DockerTypes, DockerTypeOK
  <1>2. events \o es \in Seq(Events) /\ Len(events \o es) = Len(events) + Len(es)
    BY <1>1, ConcatProperties
  <1>3. lost' \in BOOLEAN
    BY DEF Emit, DockerTypes, DockerTypeOK
  <1> QED
    BY <1>1, <1>2, <1>3 DEF Emit

\* What the job does with docker keeps the types.
LEMMA UseDockerTypes ==
  ASSUME DockerTypes, UseDocker
  PROVE  DockerTypes'
  <1>1. ASSUME NEW es \in Seq(Events), Emit(es),
               network' \in [Networks -> NetworkStates], SubnetsInUse',
               container' \in [Containers -> ContainerStates], peak' \in Nat
        PROVE  DockerTypes'
    <2>1. /\ events' \in Seq(Events) /\ Len(events') <= MaxEvents
          /\ lost' \in BOOLEAN /\ UNCHANGED <<dockerd, subscribed, faults>>
      BY <1>1, EmitTypes
    <2> QED
      BY <1>1, <2>1 DEF DockerTypes, DockerTypeOK
  <1>2. ASSUME NEW e \in Events
        PROVE  <<e>> \in Seq(Events) /\ <<e, e>> \in Seq(Events)
    OBVIOUS
  <1>3. ASSUME NEW n \in Networks, CreateNetwork(n)
        PROVE  DockerTypes'
    <2>1. PICK s \in Subnets : network' = [network EXCEPT ![n] = [phase |-> "up", subnet |-> s]]
      BY <1>3 DEF CreateNetwork
    <2>2. s # None /\ [phase |-> "up", subnet |-> s] \in NetworkStates
      BY DockerBounds DEF NetworkStates
    <2>3. network' \in [Networks -> NetworkStates] /\ SubnetsInUse'
      BY <2>1, <2>2 DEF DockerTypes, DockerTypeOK, SubnetsInUse, Up
    <2>4. <<"create", n>> \in Events
      BY DEF Events
    <2>5. Cardinality({n} \cup {m \in Networks : network[m].phase = "up"}) \in Nat
      <3>1. {n} \cup {m \in Networks : network[m].phase = "up"} \in SUBSET Networks
        OBVIOUS
      <3> QED
        BY <3>1, DockerBounds, FS_Subset, FS_CardinalityType
    <2>6. peak' \in Nat
      BY <1>3, <2>5 DEF CreateNetwork, DockerTypes, DockerTypeOK
    <2> QED
      BY <1>1, <1>2, <1>3, <2>3, <2>4, <2>6 DEF CreateNetwork, DockerTypes, DockerTypeOK
  <1>4. ASSUME NEW n \in Networks, RemoveNetwork(n)
        PROVE  DockerTypes'
    <2>1. [phase |-> "gone", subnet |-> None] \in NetworkStates
      BY DEF NetworkStates
    <2>2. network' \in [Networks -> NetworkStates] /\ SubnetsInUse'
      BY <1>4, <2>1 DEF RemoveNetwork, DockerTypes, DockerTypeOK, SubnetsInUse, Up
    <2>3. <<"destroy", n>> \in Events
      BY DEF Events
    <2> QED
      BY <1>1, <1>2, <1>4, <2>2, <2>3 DEF RemoveNetwork, DockerTypes, DockerTypeOK
  <1>5. ASSUME NEW c \in Containers, NEW n \in Networks, StartContainer(c, n)
        PROVE  DockerTypes'
    <2>1. container[c].starts \in 0..MaxStarts /\ container[c].starts < MaxStarts
      BY <1>5 DEF StartContainer, DockerTypes, DockerTypeOK, ContainerStates
    <2>2. container[c].starts + 1 \in 0..MaxStarts
      BY <2>1, DockerBounds
    <2>3. [running |-> TRUE, starts |-> container[c].starts + 1, network |-> n] \in ContainerStates
      BY <2>2 DEF ContainerStates
    <2>4. container' \in [Containers -> ContainerStates]
      BY <1>5, <2>3 DEF StartContainer, DockerTypes, DockerTypeOK
    <2>5. <<"start", c>> \in Events
      BY DEF Events
    <2>6. network' \in [Networks -> NetworkStates] /\ SubnetsInUse'
      BY <1>5 DEF StartContainer, DockerTypes, DockerTypeOK, SubnetsInUse, Up
    <2> QED
      BY <1>1, <1>2, <1>5, <2>4, <2>5, <2>6 DEF StartContainer, DockerTypes, DockerTypeOK
  <1>6. ASSUME NEW c \in Containers, StopContainer(c)
        PROVE  DockerTypes'
    <2>1. [container[c] EXCEPT !.running = FALSE] \in ContainerStates
      BY DEF DockerTypes, DockerTypeOK, ContainerStates
    <2>2. container' \in [Containers -> ContainerStates]
      BY <1>6, <2>1 DEF StopContainer, DockerTypes, DockerTypeOK
    <2>3. <<"stop", c>> \in Events
      BY DEF Events
    <2>4. network' \in [Networks -> NetworkStates] /\ SubnetsInUse'
      BY <1>6 DEF StopContainer, DockerTypes, DockerTypeOK, SubnetsInUse, Up
    <2> QED
      BY <1>1, <1>2, <1>6, <2>2, <2>3, <2>4 DEF StopContainer, DockerTypes, DockerTypeOK
  <1> QED
    BY <1>3, <1>4, <1>5, <1>6 DEF UseDocker

\* The steps of the runner keep its types, and leave the daemon alone.
LEMMA RunnerTypes ==
  ASSUME RunnerTypeOK, RunnerSetup \/ RunnerMain \/ JobEnds \/ RequestDindTermination
  PROVE  RunnerTypeOK' /\ (Fault \/ UNCHANGED faults)
  <1>1. ASSUME NEW s \in Steps, NEW from, NEW to \in {"new", "running", "ok", "failed", "blocked"},
               SetupStep(s, from, to)
        PROVE  RunnerTypeOK'
    BY <1>1 DEF SetupStep, RunnerTypeOK
  <1>2. ASSUME NEW from, NEW to \in RunnerEnded \cup {"setup", "push", "run", "job", "blocked", "request"},
               RunnerGoto(from, to)
        PROVE  RunnerTypeOK'
    BY <1>2 DEF RunnerGoto, RunnerTypeOK
  <1>3. ASSUME NEW s \in Commands, StartCommand(s) \/ CommandEnds(s)
        PROVE  RunnerTypeOK' /\ (Fault \/ UNCHANGED faults)
    BY <1>3, <1>1 DEF StartCommand, CommandEnds, Steps
  <1>4. CASE ConfigureAwsAndDocker \/ WaitForDocker
    BY <1>4, <1>1 DEF ConfigureAwsAndDocker, WaitForDocker, Steps
  <1>5. CASE SetupFails
    BY <1>5 DEF SetupFails, RunnerTypeOK, RunnerEnded
  <1>6. CASE SetupSucceeds \/ RunnerMain \/ JobEnds \/ RequestDindTermination
    BY <1>6, <1>2 DEF SetupSucceeds, RunnerMain, PushMetrics, RunGitHubActionsRunner, JobEnds,
                      RequestDindTermination, RunnerEnded
  <1> QED
    BY <1>3, <1>4, <1>5, <1>6 DEF RunnerSetup

\* Every step keeps the types.
LEMMA TypeNext == TypeInv /\ [Next]_vars => TypeInv'
  <1> SUFFICES ASSUME TypeInv, [Next]_vars
               PROVE  TypeInv'
    OBVIOUS
  <1>0. DockerTypes /\ DindTypes /\ RunnerTypeOK /\ kubelet \in {"running", "terminating", "done"}
    BY TypeParts
  <1>1. ASSUME DockerTypes', DindTypes', RunnerTypeOK', kubelet' \in {"running", "terminating", "done"}
        PROVE  TypeInv'
    BY <1>1 DEF TypeInv, TypeOK, DockerTypes, DindTypes
  <1>2. ASSUME UNCHANGED runnerVars
        PROVE  RunnerTypeOK'
    BY <1>0, <1>2 DEF runnerVars, RunnerTypeOK
  <1>3. CASE DindStep
    <2>1. DockerTypes' /\ DindTypes'
      BY <1>0, <1>3, EventLoopTypes, MainTypes, DindMeanwhileTypes DEF DindStep, Dind
    <2> QED
      BY <1>0, <1>1, <1>2, <1>3, <2>1 DEF DindStep
  <1>4. CASE RunnerStep
    <2>1. RunnerTypeOK' /\ (Fault \/ UNCHANGED faults) /\ UNCHANGED <<dockerVars, kubelet>>
      BY <1>0, <1>4, RunnerTypes DEF RunnerStep
    <2>2. DockerTypes'
      BY <1>0, <2>1, DockerSame
    <2>3. CASE UNCHANGED dindVars
      BY <1>0, <1>1, <2>1, <2>2, <2>3, DindSame
    <2>4. CASE RequestDindTermination /\ UNCHANGED <<eventVars, mainVars, proxyPortPIDs>>
      <3>1. interrupt' \in BOOLEAN
        BY <1>0, <2>4 DEF RequestDindTermination, RunnerTypeOK, DindRuns
      <3>2. DindTypes'
        BY <1>0, <2>4, <3>1 DEF DindTypes, DindTypeOK, EventShapes, MainShapes, LoopOff, eventVars, mainVars
      <3> QED
        BY <1>0, <1>1, <2>1, <2>2, <3>2
    <2> QED
      BY <1>4, <2>3, <2>4 DEF RunnerStep
  <1>5. CASE JobUsesDocker
    <2>1. DockerTypes'
      BY <1>0, <1>5, UseDockerTypes DEF JobUsesDocker
    <2>2. DindTypes'
      BY <1>0, <1>5, DindSame DEF JobUsesDocker
    <2> QED
      BY <1>0, <1>1, <1>2, <1>5, <2>1, <2>2 DEF JobUsesDocker
  <1>6. CASE Terminate
    <2>1. DockerTypes'
      BY <1>0, <1>6, GoneTypes, DockerSame DEF Terminate
    <2>2. DindTypes'
      BY <1>0, <1>6, DindSame DEF Terminate
    <2>3. RunnerTypeOK'
      BY <1>0, <1>6 DEF Terminate, Sigterm, RunnerTypeOK, RunnerEnded, runnerVars
    <2> QED
      BY <1>1, <1>6, <2>1, <2>2, <2>3 DEF Terminate
  <1>7. CASE GracePeriodEnds
    <2>1. CASE mainPc \in Finished \cup {"absent"}
      <3>1. DockerTypes' /\ DindTypes'
        BY <1>0, <1>7, <2>1, DockerSame, DindSame DEF GracePeriodEnds
      <3>2. RunnerTypeOK'
        BY <1>0, <1>7 DEF GracePeriodEnds, RunnerTypeOK, RunnerEnded
      <3> QED
        BY <1>1, <1>7, <3>1, <3>2 DEF GracePeriodEnds
    <2>2. CASE mainPc \notin Finished \cup {"absent"}
      <3>1. DockerTypes' /\ DindTypes'
        BY <1>0, <1>7, <2>2, EndTypes DEF GracePeriodEnds, Finished
      <3>2. RunnerTypeOK'
        BY <1>0, <1>7 DEF GracePeriodEnds, RunnerTypeOK, RunnerEnded
      <3> QED
        BY <1>1, <1>7, <3>1, <3>2 DEF GracePeriodEnds
    <2> QED
      BY <2>1, <2>2
  <1>8. CASE ProbeFails
    <2>1. DockerTypes' /\ DindTypes'
      BY <1>0, <1>8, EndTypes DEF ProbeFails, Finished
    <2> QED
      BY <1>0, <1>1, <1>2, <1>8, <2>1 DEF ProbeFails
  <1>9. CASE UNCHANGED vars
    <2>1. DockerTypes' /\ DindTypes'
      BY <1>0, <1>9, DockerSame, DindSame DEF vars
    <2> QED
      BY <1>0, <1>1, <1>2, <1>9, <2>1 DEF vars
  <1> QED
    BY <1>3, <1>4, <1>5, <1>6, <1>7, <1>8, <1>9 DEF Next

\* Type correctness: whatever docker, dind, the runner and the kubelet do, the octets, the
\* processes, the queue of events and the failures stay within their bounds, the subnets are of
\* the daemon's pool, and each goroutine of dind works on the kind of information its label is for.
THEOREM TypeInvariant == Spec => []TypeInv
  BY TypeInit, TypeNext, PTL DEF Spec

\* What the pod run checks of it
THEOREM TypeCorrect == Spec => []TypeOK
  <1>1. TypeInv => TypeOK
    BY DEF TypeInv
  <1> QED
    BY <1>1, TypeInvariant, PTL

-----------------------------------------------------------------------------
(* A job that asked for docker has it.                                     *)

\* The daemon is started once, by main; the event loop hears nothing before.
DaemonOff ==
    /\ mainPc \in {"absent", "new", "boot", "start"} => dockerd = "off"
    /\ dockerd \in {"off", "starting"} => eventPc \in {"off", "subscribe"}

\* Without failures the stream stays open as long as the daemon runs, and its end is not seen.
StreamOpen ==
    faults = 0 /\ dockerd = "up" /\ eventPc \notin {"off", "subscribe"} => subscribed /\ eventPc # "closed"

\* Nobody asks dind to end before the runner has.
NotInterrupted == interrupt => runnerPc = "ended"

\* Once the runner has seen docker it stays, until the job is done.
DockerStays ==
    hasDockerCapability /\ Quiet /\ setup["wait for docker"] = "ok" /\ runnerPc \in {"setup", "push", "run", "job"}
        => dockerd = "up" \/ mainPc \in {"panicked", "crashed"}

SetupDone == runnerPc \in {"push", "run", "job"} => setup["wait for docker"] = "ok"

\* The inductive form of DockerForTheJob
JobInv == DaemonOff /\ StreamOpen /\ NotInterrupted /\ DockerStays /\ SetupDone

\* Whatever the job does with docker is told.
LEMMA UseDockerEmits ==
  ASSUME UseDocker
  PROVE  \E es : Emit(es)
  BY DEF UseDocker, CreateNetwork, RemoveNetwork, StartContainer, StopContainer

\* A step fails at most once.
LEMMA FaultStep ==
  ASSUME TypeInv, [Next]_vars
  PROVE  (Fault \/ UNCHANGED faults) /\ faults \in Nat /\ (faults' = 0 => faults = 0 /\ UNCHANGED faults)
  <1> SUFFICES Fault \/ UNCHANGED faults
    BY FaultTypes DEF TypeInv, TypeOK, DockerTypeOK
  <1>1. CASE DindStep
    <2>1. CASE EventLoop
      BY <2>1 DEF EventLoop, Subscribe, StreamEnded, AddContainerInfo, NetworkCreated, NoOctetLeft,
                  NetworkDestroyed, ContainerStarted, ContainerStopped
    <2>2. CASE Main
      BY <2>2 DEF Main, Begin, Boot, StartDockerd, WaitForDockerd, StartEventLoop, ReceiveInfo, LeaveLoop,
                  SetupNetworkPortForward, SetdownNetworkPortForward, NoSocatCommand, AddPortProxy, AddProxyPortPID,
                  AllPortsProxied, GetProxyPortPIDs, Kill, DeleteProxyPortPIDs, MainPanics
    <2>3. CASE ConcurrentMapAccess \/ SocatExits \/ Interrupted \/ Docker
      BY <2>3 DEF ConcurrentMapAccess, SocatExits, Interrupted, Docker, DockerdReady, DockerdDies, StreamBreaks
    <2> QED
      BY <1>1, <2>1, <2>2, <2>3 DEF DindStep, Dind
  <1>2. CASE RunnerStep
    BY <1>2, RunnerTypes DEF RunnerStep, TypeInv, TypeOK
  <1>3. CASE JobUsesDocker
    BY <1>3, UseDockerEmits DEF JobUsesDocker, Emit
  <1>4. CASE Terminate \/ GracePeriodEnds \/ ProbeFails \/ UNCHANGED vars
    BY <1>4 DEF Terminate, GracePeriodEnds, ProbeFails, vars
  <1> QED
    BY <1>1, <1>2, <1>3, <1>4 DEF Next

\* The inductive form holds initially.
LEMMA JobInit == Init => JobInv
  <1> SUFFICES ASSUME Init
               PROVE  JobInv
    OBVIOUS
  <1>1. dockerd = "off" /\ eventPc = "off" /\ interrupt = FALSE /\ runnerPc = "setup"
    BY DEF Init, DockerInit, DindInit, RunnerInit
  <1>2. setup["wait for docker"] = "new"
    BY DEF Init, RunnerInit, Steps
  <1> QED
    BY <1>1, <1>2 DEF JobInv, DaemonOff, StreamOpen, NotInterrupted, DockerStays, SetupDone

\* The end of the process, for whatever reason a running job allows
LEMMA JobInvEnd ==
  ASSUME JobInv, NEW pc \in Finished, End(pc), runnerPc' = runnerPc, UNCHANGED <<hasDockerCapability, setup>>,
         \/ pc \in {"panicked", "crashed"}
         \/ ~Quiet'
         \/ runnerPc \notin {"setup", "push", "run", "job"}
         \/ Quiet /\ dockerd # "up" /\ mainPc \notin {"panicked", "crashed"}
  PROVE  JobInv'
  <1>1. dockerd' = "down" /\ mainPc' = pc /\ eventPc' = "off" /\ interrupt' = FALSE
    BY DEF End, DockerdGone
  <1>2. DockerStays'
    BY <1>1 DEF JobInv, DockerStays
  <1> QED
    BY <1>1, <1>2 DEF JobInv, DaemonOff, StreamOpen, NotInterrupted, SetupDone, Finished

\* Every step keeps the inductive form.
LEMMA JobNext == TypeInv /\ JobInv /\ [Next]_vars => JobInv'
  <1> SUFFICES ASSUME TypeInv, JobInv, [Next]_vars
               PROVE  JobInv'
    OBVIOUS
  <1> USE DEF DaemonOff, StreamOpen, NotInterrupted, SetupDone
  <1>1. faults' = 0 => faults = 0 /\ UNCHANGED faults
    BY FaultStep
  <1>2. LoopOff /\ dockerd \in {"off", "starting", "up", "down"} /\ faults \in Nat /\ subscribed \in BOOLEAN /\ DockerTypes
    BY FaultStep DEF TypeInv, TypeOK, DockerTypeOK, DockerTypes
  <1>3. ASSUME UNCHANGED runnerVars, UNCHANGED kubelet, UNCHANGED interrupt, UNCHANGED <<mainPc, dockerd>>,
               StreamOpen', dockerd \in {"off", "starting"} => eventPc' \in {"off", "subscribe"}
        PROVE  JobInv'
    BY <1>1, <1>3 DEF JobInv, DockerStays, Quiet, runnerVars
  <1>4. ASSUME NEW pc \in {"panicked", "crashed"}, End(pc), UNCHANGED <<runnerVars, kubelet>>
        PROVE  JobInv'
    BY <1>4, JobInvEnd DEF Finished, runnerVars
  <1>5. ASSUME UNCHANGED <<runnerVars, kubelet, interrupt, dockerd, eventPc, subscribed>>,
               mainPc \notin {"panicked", "crashed"},
               mainPc \notin {"absent", "new", "boot", "start"}
                 => mainPc' \notin {"absent", "new", "boot", "start"}
        PROVE  JobInv'
    BY <1>1, <1>5 DEF JobInv, DockerStays, Quiet, runnerVars
  <1>6. ASSUME EventLoop, UNCHANGED <<runnerVars, kubelet>>
        PROVE  JobInv'
    <2>1. CASE \E n \in Networks : NoOctetLeft(n)
      BY <1>4, <1>6, <2>1 DEF NoOctetLeft
    <2>2. CASE ~\E n \in Networks : NoOctetLeft(n)
      <3>1. UNCHANGED <<mainPc, dockerd, interrupt>>
        BY <1>6, <2>2 DEF EventLoop, Subscribe, StreamEnded, AddContainerInfo, NetworkCreated,
                          NetworkDestroyed, ContainerStarted, ContainerStopped, Receive, mainVars, dockerVars
      <3>2. CASE Subscribe
        BY <1>3, <1>6, <3>1, <3>2 DEF Subscribe
      <3>3. CASE StreamEnded
        BY <1>1, <1>3, <1>6, <3>1, <3>3 DEF StreamEnded, JobInv, dockerVars
      <3>4. CASE ~Subscribe /\ ~StreamEnded
        <4>1. UNCHANGED subscribed /\ eventPc \in {"add", "select"} /\ (eventPc' = eventPc \/ eventPc' \in {"add", "send"})
          BY <1>6, <2>2, <3>4 DEF EventLoop, AddContainerInfo, NetworkCreated,
                NetworkDestroyed, ContainerStarted, ContainerStopped, Receive, eventVars, dockerVars
        <4> QED
          BY <1>1, <1>3, <1>6, <3>1, <4>1 DEF JobInv
      <3> QED
        BY <3>2, <3>3, <3>4
    <2> QED
      BY <2>1, <2>2
  <1>7. ASSUME Main, UNCHANGED <<runnerVars, kubelet>>
        PROVE  JobInv'
    <2>1. CASE MainPanics
      BY <1>4, <1>7, <2>1 DEF MainPanics
    <2>2. CASE Kill /\ End("panicked")
      BY <1>4, <1>7, <2>2
    <2>3. CASE LeaveLoop /\ ~MainPanics
      <3>1. CASE Quiet'
        <4>1. Quiet
          BY <1>1, <1>7, <3>1 DEF Quiet
        <4>2. mainPc = "loop" /\ dockerd # "up"
          BY <2>3, <4>1 DEF LeaveLoop, JobInv, Quiet
        <4> QED
          BY <1>7, <2>3, <4>1, <4>2, JobInvEnd DEF LeaveLoop, Finished, runnerVars
      <3>2. CASE ~Quiet'
        BY <1>7, <2>3, <3>2, JobInvEnd DEF LeaveLoop, Finished, runnerVars
      <3> QED
        BY <3>1, <3>2
    <2>4. CASE StartDockerd
      <3>1. dockerd = "off" /\ mainPc = "start" /\ mainPc' = "wait" /\ UNCHANGED <<interrupt, eventPc, subscribed>>
        BY <2>4 DEF StartDockerd, JobInv, MainGoto, eventVars
      <3>2. eventPc = "off"
        BY <1>2, <3>1 DEF LoopOff
      <3> QED
        BY <1>1, <1>7, <3>1, <3>2 DEF JobInv, DockerStays, Quiet, runnerVars
    <2>5. CASE ~MainPanics /\ (Begin \/ Boot \/ WaitForDockerd)
      BY <1>5, <1>7, <2>5 DEF Begin, Boot, WaitForDockerd, MainGoto, eventVars, dockerVars
    <2>6. CASE ~MainPanics /\ StartEventLoop
      <3>1. mainPc = "iptables" /\ mainPc' = "loop" /\ eventPc' = "subscribe" /\ UNCHANGED <<interrupt, dockerd>>
        BY <2>6 DEF StartEventLoop, dockerVars
      <3> QED
        BY <1>1, <1>7, <3>1 DEF JobInv, DockerStays, Quiet, runnerVars
    <2>7. CASE ReceiveInfo
      <3>1. /\ mainPc = "loop" /\ eventPc = "send" /\ eventPc' = "select"
            /\ UNCHANGED <<interrupt, dockerd, subscribed>>
        BY <2>7 DEF ReceiveInfo, dockerVars
      <3>2. mainPc' \in {"append", "delete", "proxy", "pids"}
        BY <2>7, HandlerTypes DEF ReceiveInfo, TypeInv, EventShapes
      <3> QED
        BY <1>1, <1>7, <3>1, <3>2 DEF JobInv, DockerStays, Quiet, runnerVars
    <2>8. CASE /\ ~MainPanics
               /\ \/ SetupNetworkPortForward \/ SetdownNetworkPortForward
                  \/ AddProxyPortPID \/ AllPortsProxied
                  \/ GetProxyPortPIDs \/ (Kill /\ ~End("panicked")) \/ DeleteProxyPortPIDs
      <3>1. /\ mainPc \in {"append", "delete", "proxy", "remember", "pids", "kill", "forget"}
            /\ mainPc' \in {"loop", "proxy", "remember", "kill", "forget"}
            /\ UNCHANGED <<interrupt, dockerd, eventPc, subscribed>>
        BY <2>8 DEF SetupNetworkPortForward, SetdownNetworkPortForward, AddProxyPortPID,
                    AllPortsProxied, GetProxyPortPIDs, Kill, DeleteProxyPortPIDs, BackToLoop, eventVars, dockerVars
      <3> QED
        BY <1>5, <1>7, <3>1
    <2>9. ASSUME NEW port \in Ports, NEW pid \in Pids, AddPortProxy(port, pid), ~MainPanics
          PROVE  JobInv'
      <3>1. mainPc = "proxy" /\ mainPc' = "remember" /\ UNCHANGED <<interrupt, dockerd, eventPc, subscribed>>
        BY <2>9 DEF AddPortProxy, eventVars, dockerVars
      <3> QED
        BY <1>5, <1>7, <3>1
    <2>10. ASSUME NEW port \in Ports, NoSocatCommand(port)
           PROVE  JobInv'
      BY <1>4, <1>7, <2>10 DEF NoSocatCommand
    <2> QED
      BY <1>7, <2>1, <2>2, <2>3, <2>4, <2>5, <2>6, <2>7, <2>8, <2>9, <2>10 DEF Main
  <1>8. CASE DindStep
    <2>1. CASE EventLoop \/ Main
      BY <1>6, <1>7, <1>8, <2>1 DEF DindStep
    <2>2. CASE ConcurrentMapAccess
      BY <1>4, <1>8, <2>2 DEF ConcurrentMapAccess, DindStep
    <2>3. CASE SocatExits
      BY <1>1, <1>3, <1>8, <2>3 DEF SocatExits, DindStep, JobInv, eventVars, dockerVars
    <2>4. CASE Interrupted
      <3>1. runnerPc = "ended"
        BY <2>4 DEF Interrupted, JobInv
      <3> QED
        BY <1>8, <2>4, <3>1, JobInvEnd DEF Interrupted, DindStep, Finished, runnerVars
    <2>5. CASE Docker
      <3>1. UNCHANGED <<runnerVars, kubelet, mainPc, eventPc, interrupt>>
        BY <1>8, <2>5 DEF DindStep, Docker, dindVars, eventVars, mainVars
      <3>2. CASE DockerdReady
        BY <1>1, <1>2, <3>1, <3>2 DEF DockerdReady, JobInv, DockerStays, Quiet, runnerVars, LoopOff
      <3>3. CASE DockerdDies \/ StreamBreaks
        <4>1. faults' # 0
          BY <1>2, <3>3 DEF DockerdDies, StreamBreaks, Fault
        <4>2. dockerd' = dockerd \/ (dockerd \in {"starting", "up"} /\ dockerd' = "down")
          BY <1>2, <3>3, GoneFacts DEF DockerdDies, StreamBreaks
        <4> QED
          BY <3>1, <4>1, <4>2 DEF JobInv, DockerStays, Quiet, runnerVars
      <3> QED
        BY <2>5, <3>2, <3>3 DEF Docker
    <2> QED
      BY <1>8, <2>1, <2>2, <2>3, <2>4, <2>5 DEF DindStep, Dind
  <1>9. CASE RunnerStep
    <2>1. UNCHANGED <<mainPc, eventPc, dockerd, subscribed, kubelet, hasDockerCapability>>
      BY <1>9 DEF RunnerStep, dindVars, mainVars, eventVars, dockerVars, RunnerSetup, RunnerMain, JobEnds, StartCommand,
                  CommandEnds, ConfigureAwsAndDocker, WaitForDocker, SetupFails, SetupSucceeds, SetupStep,
                  RunnerGoto, PushMetrics, RunGitHubActionsRunner, RequestDindTermination
    <2>2. ASSUME NEW s \in Steps, NEW from, NEW to, SetupStep(s, from, to), UNCHANGED interrupt,
                 s = "wait for docker" /\ to = "ok" => (hasDockerCapability => dockerd = "up")
          PROVE  JobInv'
      <3>1. runnerPc = "setup" /\ runnerPc' = "setup" /\ setup' = [setup EXCEPT ![s] = to]
        BY <2>2 DEF SetupStep
      <3>2. setup'["wait for docker"] = IF s = "wait for docker" THEN to ELSE setup["wait for docker"]
        BY <3>1 DEF TypeInv, TypeOK, RunnerTypeOK, Steps
      <3>3. DockerStays'
        BY <1>1, <2>1, <2>2, <3>1, <3>2 DEF JobInv, DockerStays, Quiet
      <3> QED
        BY <1>1, <2>1, <2>2, <3>1, <3>3 DEF JobInv
    <2>3. CASE (\E s \in Commands : StartCommand(s) \/ CommandEnds(s)) /\ UNCHANGED dindVars
      BY <2>2, <2>3 DEF StartCommand, CommandEnds, Steps, Commands, dindVars
    <2>4. CASE (ConfigureAwsAndDocker \/ WaitForDocker) /\ UNCHANGED dindVars
      BY <2>2, <2>4 DEF ConfigureAwsAndDocker, WaitForDocker, Steps, dindVars
    <2>5. ASSUME UNCHANGED <<setup, interrupt>>, runnerPc # "ended",
                 runnerPc' \in {"push", "run", "job"} =>
                    setup["wait for docker"] = "ok" /\ runnerPc \in {"setup", "push", "run"},
                 runnerPc' # "setup"
          PROVE  JobInv'
      BY <1>1, <2>1, <2>5 DEF JobInv, DockerStays, Quiet
    <2>6. CASE SetupFails /\ UNCHANGED dindVars
      BY <2>5, <2>6 DEF SetupFails, dindVars
    <2>7. CASE SetupSucceeds /\ UNCHANGED dindVars
      <3>1. setup["wait for docker"] = "ok"
        <4>1. 4 \in DOMAIN Channels /\ Channels[4] = {"wait for docker"}
          BY DEF Channels
        <4> QED
          BY <2>7, <4>1 DEF SetupSucceeds, Received
      <3> QED
        BY <2>5, <2>7, <3>1 DEF SetupSucceeds, RunnerGoto, dindVars
    <2>8. CASE (RunnerMain \/ JobEnds) /\ UNCHANGED dindVars
      BY <2>5, <2>8 DEF RunnerMain, JobEnds, PushMetrics, RunGitHubActionsRunner, RunnerGoto, dindVars, JobInv
    <2>9. CASE RequestDindTermination
      BY <1>1, <2>1, <2>9 DEF RequestDindTermination, RunnerGoto, JobInv, DockerStays
    <2> QED
      BY <1>9, <2>3, <2>4, <2>6, <2>7, <2>8, <2>9 DEF RunnerStep, RunnerSetup
  <1>10. CASE JobUsesDocker
    <2>1. UNCHANGED <<runnerVars, kubelet, mainPc, eventPc, interrupt, dockerd, subscribed>>
      BY <1>10, UseDockerEmits DEF JobUsesDocker, Emit, dindVars, eventVars, mainVars
    <2> QED
      BY <1>1, <1>3, <2>1 DEF JobInv
  <1>11. CASE Terminate
    <2>1. ~Quiet' /\ UNCHANGED <<mainPc, eventPc, interrupt>>
      BY <1>11 DEF Terminate, Quiet, dindVars, eventVars, mainVars
    <2>2. UNCHANGED <<dockerd, subscribed>> \/ (dockerd # "off" /\ dockerd' = "down")
      <3>1. DockerdGone => dockerd' = "down"
        BY <1>2, GoneFacts
      <3>2. CASE dockerd \in {"starting", "up"} /\ DockerdGone
        BY <3>1, <3>2
      <3>3. CASE UNCHANGED dockerVars
        BY <1>2, <3>3 DEF dockerVars
      <3> QED
        BY <1>11, <3>2, <3>3 DEF Terminate
    <2>3. interrupt' => runnerPc' = "ended"
      BY <1>11, <2>1 DEF Terminate, Sigterm, runnerVars, JobInv
    <2>4. runnerPc' \in {"push", "run", "job"} => setup'["wait for docker"] = "ok"
      BY <1>11 DEF Terminate, Sigterm, runnerVars, JobInv
    <2> QED
      BY <1>1, <2>1, <2>2, <2>3, <2>4 DEF JobInv, DockerStays
  <1>12. CASE GracePeriodEnds
    <2>1. ~Quiet' /\ UNCHANGED <<hasDockerCapability, setup>> /\ (runnerPc' = runnerPc \/ runnerPc' = "killed")
          /\ (runnerPc = "ended" => runnerPc' = "ended")
      BY <1>12 DEF GracePeriodEnds, Quiet, RunnerEnded
    <2>2. CASE UNCHANGED <<dindVars, dockerVars>>
      BY <1>1, <2>1, <2>2 DEF JobInv, DockerStays, dindVars, eventVars, mainVars, dockerVars
    <2>3. CASE End("killed")
      BY <2>1, <2>3 DEF JobInv, DockerStays, End, DockerdGone
    <2> QED
      BY <1>12, <2>2, <2>3 DEF GracePeriodEnds
  <1>13. CASE ProbeFails
    <2>1. dockerd # "up" /\ mainPc \notin {"panicked", "crashed"} /\ End("killed") /\ UNCHANGED <<faults, kubelet, runnerVars>>
      BY <1>13 DEF ProbeFails, DindRuns, Finished
    <2> QED
      BY <2>1, JobInvEnd DEF Finished, runnerVars, Quiet
  <1>14. CASE UNCHANGED vars
    BY <1>14 DEF vars, JobInv, DockerStays, Quiet, dindVars, eventVars, mainVars, dockerVars, runnerVars
  <1> QED
    BY <1>8, <1>9, <1>10, <1>11, <1>12, <1>13, <1>14 DEF Next

\* A job that asked for docker has it: nothing but a failure, the kubelet, or a panic or
\* concurrent map access of dind takes the daemon away between the runner's waitForDocker and
\* the end of the job; not the event loop, whose stream stays open, and not the request to port
\* 2378, which the runner makes only after the job.
THEOREM JobHasDocker == Spec => []DockerForTheJob
  <1>1. JobInv => DockerForTheJob
    BY DEF JobInv, DockerStays, SetupDone, DockerForTheJob
  <1> QED
    BY <1>1, TypeInvariant, JobInit, JobNext, PTL DEF Spec

=============================================================================
