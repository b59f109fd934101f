-------------------------- MODULE PodNetworkProofs --------------------------
(***************************************************************************)
(* Proofs about Pod, the networks: dind's rules and octets are those of    *)
(* the networks there are, and it runs out of octets only if there have    *)
(* been more networks at once than octets.                                 *)
(***************************************************************************)
EXTENDS PodProofs

-----------------------------------------------------------------------------
(* The events on their way.                                                *)

At(i, e)  == i \in 1..Len(events) /\ events[i] = e
Queued(e) == \E i \in Nat : At(i, e)

\* The first event is received and the others move up.
LEMMA QueueReceive ==
  ASSUME DockerTypes, NEW event, Receive(event)
  PROVE  /\ At(1, event) /\ event \in Events
         /\ \A i \in Nat : \A e \in Events : At(i, e)' <=> i >= 1 /\ At(i + 1, e)
         /\ \A e \in Events : Queued(e)' => Queued(e)
         /\ \A e \in Events : Queued(e) /\ e # event => Queued(e)'
  <1>1. events \in Seq(Events) /\ events # <<>> /\ Len(events) \in Nat /\ events' = Tail(events)
    BY LenProperties DEF Receive, DockerTypes, DockerTypeOK
  <1>2. Len(events) >= 1 /\ events[1] = Head(events) /\ Head(events) \in Events
    BY <1>1, HeadTailProperties, EmptySeq
  <1>3. /\ Len(events') = Len(events) - 1
        /\ \A i \in 1..Len(events') : events'[i] = events[i + 1]
    BY <1>1, HeadTailProperties
  <1>4. At(1, event) /\ event \in Events
    BY <1>1, <1>2 DEF At, Receive
  <1>5. \A i \in Nat : \A e \in Events : At(i, e)' <=> i >= 1 /\ At(i + 1, e)
    BY <1>1, <1>3 DEF At
  <1>6. ASSUME NEW e \in Events, Queued(e)'
        PROVE  Queued(e)
    BY <1>5, <1>6 DEF Queued
  <1>7. ASSUME NEW e \in Events, Queued(e), e # event
        PROVE  Queued(e)'
    <2>1. PICK i \in Nat : At(i, e)
      BY <1>7 DEF Queued
    <2>2. i >= 1 /\ i # 1
      BY <1>4, <1>7, <2>1 DEF At
    <2>3. i - 1 \in Nat /\ i - 1 >= 1 /\ (i - 1) + 1 = i
      BY <2>2
    <2>4. At(i - 1, e)'
      BY <1>5, <2>1, <2>3
    <2> QED
      BY <2>3, <2>4 DEF Queued
  <1> QED
    BY <1>4, <1>5, <1>6, <1>7

\* Told events come last; nobody is told when nobody is subscribed.
LEMMA QueueEmit ==
  ASSUME DockerTypes, NEW event \in Events, NEW es \in {<<event>>, <<event, event>>}, Emit(es)
  PROVE  /\ subscribed =>
              /\ Queued(event)'
              /\ \A i \in Nat : \A e \in Events : At(i, e) => At(i, e)' /\ i <= Len(events)
              /\ \A i \in Nat : \A e \in Events : At(i, e)' => At(i, e) \/ (i > Len(events) /\ e = event)
              /\ es = <<event>> => \A i \in Nat : \A e \in Events : At(i, e)' => i <= Len(events) + 1
         /\ ~subscribed => UNCHANGED events /\ lost'
         /\ lost => lost'
         /\ \A e \in Events : Queued(e) => Queued(e)'
         /\ \A e \in Events : Queued(e)' => Queued(e) \/ (e = event /\ subscribed)
         /\ UNCHANGED <<dockerd, subscribed, faults>>
  <1>0. events \in Seq(Events)
    BY DEF DockerTypes, DockerTypeOK
  <1>1. events \in Seq(Events) /\ Len(events) \in Nat /\ es \in Seq(Events) /\ Len(es) \in Nat /\ Len(es) \in 1..2
    <2>1. Len(events) \in Nat
      BY <1>0, LenProperties
    <2>2. <<event>> \in Seq(Events) /\ Len(<<event>>) = 1 /\ <<event, event>> \in Seq(Events) /\ Len(<<event, event>>) = 2
      OBVIOUS
    <2>3. es \in Seq(Events) /\ (Len(es) = 1 \/ Len(es) = 2)
      BY <2>2
    <2> QED
      BY <1>0, <2>1, <2>3
  <1>2. es[1] = event /\ (Len(es) = 2 => es[2] = event) /\ (es = <<event>> => Len(es) = 1)
    OBVIOUS
  <1>3. CASE subscribed
    <2>1. events' = events \o es
      BY <1>3 DEF Emit
    <2>2. /\ Len(events') = Len(events) + Len(es)
          /\ \A i \in 1..(Len(events) + Len(es)) : events'[i] = IF i <= Len(events) THEN events[i] ELSE es[i - Len(events)]
      BY <1>1, <2>1, ConcatProperties
    <2>3. \A i \in Nat : \A e \in Events : At(i, e) => At(i, e)' /\ i <= Len(events)
      BY <1>1, <2>2 DEF At
    <2>4. \A i \in Nat : \A e \in Events : At(i, e)' => At(i, e) \/ (i > Len(events) /\ e = event)
      <3> SUFFICES ASSUME NEW i \in Nat, NEW e \in Events, At(i, e)', i > Len(events)
                   PROVE  e = event
        BY <1>1, <2>2 DEF At
      <3>1. i - Len(events) \in 1..Len(es) /\ e = es[i - Len(events)]
        BY <1>1, <2>2 DEF At
      <3> QED
        BY <1>1, <1>2, <3>1
    <2>5. PICK k \in Nat : k = Len(events) + 1
      BY <1>1
    <2>6. es = <<event>> => \A i \in Nat : \A e \in Events : At(i, e)' => i <= Len(events) + 1
      BY <1>1, <1>2, <2>2 DEF At
    <2>7. Queued(event)'
      <3>1. k \in 1..(Len(events) + Len(es)) /\ ~(k <= Len(events)) /\ k - Len(events) = 1
        BY <1>1, <2>5
      <3>2. events'[k] = event /\ k \in 1..Len(events')
        BY <1>2, <2>2, <3>1
      <3>3. At(k, event)'
        BY <3>2 DEF At
      <3> QED
        BY <3>3 DEF Queued
    <2>8. \A e \in Events : Queued(e) => Queued(e)'
      BY <2>3 DEF Queued
    <2>9. \A e \in Events : Queued(e)' => Queued(e) \/ e = event
      BY <2>4 DEF Queued
    <2>10. lost => lost'
      BY DEF Emit
    <2> QED
      BY <1>3, <2>3, <2>4, <2>6, <2>7, <2>8, <2>9, <2>10 DEF Emit
  <1>4. CASE ~subscribed
    <2>1. UNCHANGED events /\ lost'
      BY <1>4 DEF Emit
    <2>2. \A e \in Events : Queued(e) <=> Queued(e)'
      BY <2>1 DEF Queued, At
    <2> QED
      BY <1>4, <2>1, <2>2 DEF Emit
  <1> QED
    BY <1>3, <1>4

-----------------------------------------------------------------------------
(* What a step can do to the networks and to the event loop's table.       *)

\* The subnets the event loop has registered for a network
Told(n) == IF networkInfoByID[n] = None THEN {} ELSE networkInfoByID[n]

DaemonStarts == dockerd \in {"off", "starting"} /\ dockerd' \in {"starting", "up"}

Still ==
    /\ UNCHANGED <<network, container, events, networkInfoByID, usedHostSecondOctet, lost, peak>>
    /\ subscribed' = subscribed \/ (dockerd = "up" /\ subscribed' = TRUE)
    /\ dockerd' = dockerd \/ DaemonStarts

Gone ==
    /\ DockerdGone
    /\ \/ UNCHANGED <<networkInfoByID, usedHostSecondOctet>>
       \/ networkInfoByID' = Each(Networks, None) /\ usedHostSecondOctet' = {}

Breaks == StreamBreaks /\ UNCHANGED <<networkInfoByID, usedHostSecondOctet>>

HearsContainer(c) ==
    /\ ContainerStarted(c) \/ ContainerStopped(c)
    /\ UNCHANGED <<networkInfoByID, usedHostSecondOctet>>

JobAction ==
    /\ dockerd = "up"
    /\ UseDocker
    /\ UNCHANGED <<networkInfoByID, usedHostSecondOctet>>

\* Every step is one of these.
LEMMA StepKinds ==
  ASSUME TypeInv, JobInv, [Next]_vars
  PROVE  \/ Still \/ Gone \/ Breaks \/ JobAction
         \/ \E n \in Networks : NetworkCreated(n) \/ NetworkDestroyed(n)
         \/ \E c \in Containers : HearsContainer(c)
  <1>1. ASSUME NEW pc, End(pc)
        PROVE  Gone
    BY <1>1 DEF End, Gone
  <1>2. CASE DindStep
    <2>1. CASE EventLoop
      <3>1. CASE Subscribe
        BY <3>1 DEF Subscribe, Still
      <3>2. CASE StreamEnded \/ AddContainerInfo
        BY <3>2 DEF StreamEnded, AddContainerInfo, Still, dockerVars
      <3>3. ASSUME NEW n \in Networks, NoOctetLeft(n)
            PROVE  Gone
        BY <1>1, <3>3 DEF NoOctetLeft
      <3>4. ASSUME NEW c \in Containers, ContainerStarted(c)
            PROVE  HearsContainer(c)
        BY <3>4 DEF ContainerStarted, HearsContainer
      <3>5. ASSUME NEW c \in Containers, ContainerStopped(c)
            PROVE  HearsContainer(c)
        BY <3>5 DEF ContainerStopped, HearsContainer, eventVars
      <3> QED
        BY <2>1, <3>1, <3>2, <3>3, <3>4, <3>5 DEF EventLoop
    <2>2. CASE Main
      <3>1. CASE MainPanics
        BY <1>1, <3>1 DEF MainPanics
      <3>2. CASE (Begin /\ ~MainPanics) \/ WaitForDockerd \/ ReceiveInfo
        BY <3>2 DEF Begin, WaitForDockerd, ReceiveInfo, MainGoto, Still, eventVars, dockerVars
      <3>3. CASE Boot /\ ~MainPanics
        BY <3>3 DEF Boot, MainGoto, Still, eventVars, dockerVars
      <3>4. CASE StartDockerd
        <4>1. dockerd = "off"
          BY <3>4 DEF StartDockerd, JobInv, DaemonOff
        <4> QED
          BY <3>4, <4>1 DEF StartDockerd, MainGoto, Still, DaemonStarts, eventVars
      <3>5. CASE StartEventLoop /\ ~MainPanics
        BY <3>5 DEF StartEventLoop, Still, eventVars, dockerVars
      <3>6. CASE LeaveLoop /\ ~MainPanics
        BY <1>1, <3>6 DEF LeaveLoop
      <3>7. CASE SetupNetworkPortForward /\ ~MainPanics
        BY <3>7 DEF SetupNetworkPortForward, Still, eventVars, dockerVars
      <3>8. CASE SetdownNetworkPortForward \/ AllPortsProxied
        BY <3>8 DEF SetdownNetworkPortForward, AllPortsProxied, Still, eventVars, dockerVars
      <3>9. ASSUME NEW port \in Ports, NEW pid \in Pids, AddPortProxy(port, pid), ~MainPanics
            PROVE  Still
        <4>1. UNCHANGED <<eventVars, dockerVars>>
          BY <3>9 DEF AddPortProxy
        <4> QED
          BY <4>1 DEF Still, eventVars, dockerVars
      <3>10. CASE AddProxyPortPID \/ GetProxyPortPIDs \/ DeleteProxyPortPIDs
        <4>1. UNCHANGED <<eventVars, dockerVars>>
          BY <3>10 DEF AddProxyPortPID, GetProxyPortPIDs, DeleteProxyPortPIDs
        <4> QED
          BY <4>1 DEF Still, eventVars, dockerVars
      <3>11. CASE Kill
        <4>1. CASE End("panicked")
          BY <1>1, <4>1
        <4>2. CASE ~End("panicked")
          BY <3>11, <4>2 DEF Kill, Still, eventVars, dockerVars
        <4> QED
          BY <4>1, <4>2
      <3>12. ASSUME NEW port \in Ports, NoSocatCommand(port)
             PROVE  Gone
        BY <1>1, <3>12 DEF NoSocatCommand
      <3> QED
        BY <2>2, <3>1, <3>2, <3>3, <3>4, <3>5, <3>6, <3>7, <3>8, <3>9, <3>10, <3>11, <3>12 DEF Main
    <2>3. CASE ConcurrentMapAccess \/ Interrupted
      BY <1>1, <2>3 DEF ConcurrentMapAccess, Interrupted
    <2>4. CASE SocatExits
      BY <2>4 DEF SocatExits, Still, eventVars, dockerVars
    <2>5. CASE Docker
      <3>1. UNCHANGED <<networkInfoByID, usedHostSecondOctet>>
        BY <2>5 DEF Docker, dindVars, eventVars
      <3>2. CASE DockerdReady
        BY <3>1, <3>2 DEF DockerdReady, Still, DaemonStarts
      <3>3. CASE DockerdDies
        BY <3>1, <3>3 DEF DockerdDies, Gone
      <3>4. CASE StreamBreaks
        BY <3>1, <3>4 DEF Breaks
      <3> QED
        BY <2>5, <3>2, <3>3, <3>4 DEF Docker
    <2> QED
      BY <1>2, <2>1, <2>2, <2>3, <2>4, <2>5 DEF DindStep, Dind
  <1>3. CASE RunnerStep
    BY <1>3 DEF RunnerStep, Still, dindVars, eventVars, dockerVars
  <1>4. CASE JobUsesDocker
    BY <1>4 DEF JobUsesDocker, JobAction, dindVars, eventVars
  <1>5. CASE Terminate
    <2>1. UNCHANGED <<networkInfoByID, usedHostSecondOctet>>
      BY <1>5 DEF Terminate, dindVars, eventVars
    <2>2. DockerdGone \/ UNCHANGED dockerVars
      BY <1>5 DEF Terminate
    <2> QED
      BY <2>1, <2>2 DEF Gone, Still, dockerVars
  <1>6. CASE GracePeriodEnds
    <2>1. End("killed") \/ UNCHANGED <<dindVars, dockerVars>>
      BY <1>6 DEF GracePeriodEnds
    <2>2. CASE UNCHANGED <<dindVars, dockerVars>>
      BY <2>2 DEF Still, dindVars, eventVars, dockerVars
    <2> QED
      BY <1>1, <2>1, <2>2
  <1>7. CASE ProbeFails
    BY <1>1, <1>7 DEF ProbeFails
  <1>8. CASE UNCHANGED vars
    BY <1>8 DEF vars, Still, dindVars, eventVars, dockerVars
  <1> QED
    BY <1>2, <1>3, <1>4, <1>5, <1>6, <1>7, <1>8 DEF Next

-----------------------------------------------------------------------------
(* The networks and the event loop's table of them.                        *)

\* Before the daemon is up there is nothing to hear, and nobody hears without a stream.
Life ==
    /\ ~subscribed => events = <<>>
    /\ dockerd # "up" => ~subscribed
    /\ dockerd \in {"off", "starting"} =>
         /\ \A n \in Networks : network[n].phase = "new" /\ Told(n) = {}
         /\ \A c \in Containers : container[c].starts = 0

\* Networks that are up share no subnet.
UniqueSubnets == \A n, m \in Networks : n # m /\ Up(n) /\ Up(m) => network[n].subnet # network[m].subnet

\* At most one subnet is registered for a network, the one it has.
OneSubnet ==
    \A n \in Networks : \A s \in Told(n) :
        /\ \A t \in Told(n) : s = t
        /\ Up(n) => s.subnet = network[n].subnet

\* The octets in use are those of the registered subnets, and no two networks share one.
OctetsUsed == \A o \in Octets : o \in usedHostSecondOctet <=> \E n \in Networks : \E s \in Told(n) : s.octet = o
OwnOctet   == \A n, m \in Networks : \A s \in Told(n), t \in Told(m) : n # m => s.octet # t.octet

\* A network that is new is not registered, and one that is created is told once.
NewUnknown  == \A n \in Networks : dockerd = "up" /\ network[n].phase = "new" => Told(n) = {} /\ ~Queued(<<"create", n>>)
CreatedOnce ==
    \A n \in Networks :
        /\ Queued(<<"create", n>>) => Told(n) = {}
        /\ \A i, j \in Nat : At(i, <<"create", n>>) /\ At(j, <<"create", n>>) => i = j

\* A network whose end is told is gone.
DestroyedGone == \A n \in Networks : Queued(<<"destroy", n>>) => network[n].phase = "gone"

\* Without failures: nothing is registered before the event loop has subscribed,
Unheard == faults = 0 /\ dockerd = "up" /\ ~subscribed => \A n \in Networks : Told(n) = {}

\* a registered network is up or its end is on its way,
GoneTold == faults = 0 /\ dockerd = "up" => \A n \in Networks : Told(n) # {} => Up(n) \/ Queued(<<"destroy", n>>)

\* no subnet is registered twice,
OwnSubnet == faults = 0 => \A n, m \in Networks : \A s \in Told(n), t \in Told(m) : n # m => s.subnet # t.subnet

\* because a network that takes over a subnet is told after the end of the one that had it,
DestroyFirst ==
    faults = 0 =>
        \A m, n \in Networks : \A i \in Nat : \A s \in Told(m) :
            n # m /\ Up(n) /\ At(i, <<"create", n>>) /\ s.subnet = network[n].subnet
              => \E j \in Nat : j < i /\ At(j, <<"destroy", m>>)

\* and a network that is up is registered or on its way, unless an event was missed.
UpTold ==
    faults = 0 /\ ~lost /\ dockerd = "up" => \A n \in Networks : Up(n) => Queued(<<"create", n>>) \/ Told(n) # {}

TableInv == Life /\ UniqueSubnets /\ OneSubnet /\ OctetsUsed /\ OwnOctet
HistInv  == NewUnknown /\ CreatedOnce /\ DestroyedGone
CalmInv  == Unheard /\ GoneTold /\ OwnSubnet /\ DestroyFirst /\ UpTold
NetInv   == TableInv /\ HistInv /\ CalmInv

\* The registered subnets are of the daemon's pool.
LEMMA ToldTypes ==
  ASSUME TypeInv
  PROVE  \A n \in Networks : Told(n) \in SUBSET Subnet
  BY DEF TypeInv, TypeOK, DindTypeOK, Told

\* The events of networks differ from each other and from those of containers.
LEMMA EventNames ==
  /\ \A n \in Networks : <<"create", n>> \in Events /\ <<"destroy", n>> \in Events
  /\ \A c \in Containers : <<"start", c>> \in Events /\ <<"stop", c>> \in Events
  /\ \A n, m \in Networks : <<"create", n>> # <<"destroy", m>>
  /\ \A n, m \in Networks : n # m => <<"create", n>> # <<"create", m>> /\ <<"destroy", n>> # <<"destroy", m>>
  /\ \A n \in Networks, c \in Containers : <<"create", n>> \notin {<<"start", c>>, <<"stop", c>>}
                                             /\ <<"destroy", n>> \notin {<<"start", c>>, <<"stop", c>>}
  /\ \A c, d \in Containers : <<"start", c>> # <<"stop", d>>
  /\ \A c, d \in Containers : c # d => <<"start", c>> # <<"start", d>> /\ <<"stop", c>> # <<"stop", d>>
  BY DEF Events

\* A queue without events
LEMMA EmptyQueue ==
  ASSUME events = <<>>
  PROVE  \A e : ~Queued(e) /\ \A i \in Nat : ~At(i, e)
  <1>1. Len(events) = 0
    BY EmptySeq
  <1> QED
    BY <1>1 DEF Queued, At

\* The invariant holds initially.
LEMMA NetInit == Init => NetInv
  <1> SUFFICES ASSUME Init
               PROVE  NetInv
    OBVIOUS
  <1>1. dockerd = "off" /\ events = <<>> /\ ~subscribed /\ usedHostSecondOctet = {}
    BY DEF Init, DockerInit, DindInit
  <1>2. \A n \in Networks : Told(n) = {} /\ network[n].phase = "new" /\ ~Up(n)
    BY DEF Init, DockerInit, DindInit, NoNetworks, Each, Told, Up
  <1>3. \A c \in Containers : container[c].starts = 0
    BY DEF Init, DockerInit, NoContainers
  <1>4. \A e : ~Queued(e) /\ \A i \in Nat : ~At(i, e)
    BY <1>1, EmptyQueue
  <1>5. TableInv
    BY <1>1, <1>2, <1>3 DEF TableInv, Life, UniqueSubnets, OneSubnet, OctetsUsed, OwnOctet
  <1>6. HistInv
    BY <1>1, <1>2, <1>4 DEF HistInv, NewUnknown, CreatedOnce, DestroyedGone
  <1>7. CalmInv
    BY <1>1, <1>2, <1>4 DEF CalmInv, Unheard, GoneTold, OwnSubnet, DestroyFirst, UpTold
  <1> QED
    BY <1>5, <1>6, <1>7 DEF NetInv

\* The daemon that comes up has no networks.
LEMMA NetStill ==
  ASSUME TypeInv, NetInv, Still, faults' = 0 => faults = 0
  PROVE  NetInv'
  <1>1. /\ UNCHANGED <<network, container, events, networkInfoByID, usedHostSecondOctet, lost>>
        /\ subscribed' = subscribed \/ (dockerd = "up" /\ subscribed' = TRUE)
        /\ dockerd' = dockerd \/ DaemonStarts
    BY DEF Still
  <1>2. /\ \A n \in Networks : Told(n)' = Told(n) /\ (Up(n)' <=> Up(n))
        /\ \A e : Queued(e)' <=> Queued(e)
        /\ \A i, e : At(i, e)' <=> At(i, e)
    BY <1>1 DEF Told, Up, Queued, At
  <1>3. CASE dockerd' = dockerd
    <2>1. TableInv'
      BY <1>1, <1>2, <1>3 DEF NetInv, TableInv, Life, UniqueSubnets, OneSubnet, OctetsUsed, OwnOctet
    <2>2. HistInv'
      BY <1>1, <1>2, <1>3 DEF NetInv, HistInv, NewUnknown, CreatedOnce, DestroyedGone
    <2>3. CalmInv'
      BY <1>1, <1>2, <1>3 DEF NetInv, CalmInv, Unheard, GoneTold, OwnSubnet, DestroyFirst, UpTold
    <2> QED
      BY <2>1, <2>2, <2>3 DEF NetInv
  <1>4. CASE DaemonStarts
    <2>1. /\ events = <<>> /\ \A n \in Networks : network[n].phase = "new" /\ Told(n) = {} /\ ~Up(n)
          /\ \A c \in Containers : container[c].starts = 0
      BY <1>4 DEF DaemonStarts, NetInv, TableInv, Life, Up
    <2>2. \A e : ~Queued(e) /\ \A i \in Nat : ~At(i, e)
      BY <2>1, EmptyQueue
    <2>3. TableInv'
      BY <1>1, <1>2, <1>4, <2>1 DEF NetInv, TableInv, Life, UniqueSubnets, OneSubnet, OctetsUsed, OwnOctet, DaemonStarts
    <2>4. HistInv'
      BY <1>2, <2>1, <2>2 DEF HistInv, NewUnknown, CreatedOnce, DestroyedGone
    <2>5. CalmInv'
      BY <1>2, <2>1, <2>2 DEF CalmInv, Unheard, GoneTold, OwnSubnet, DestroyFirst, UpTold
    <2> QED
      BY <2>3, <2>4, <2>5 DEF NetInv
  <1> QED
    BY <1>1, <1>3, <1>4

\* A daemon that is gone has no networks, whatever the event loop still has.
LEMMA NetGone ==
  ASSUME TypeInv, NetInv, Gone, faults' = 0 => faults = 0
  PROVE  NetInv'
  <1>1. dockerd' = "down" /\ network' = NoNetworks /\ events' = <<>> /\ subscribed' = FALSE
    BY GoneFacts, TypeParts DEF Gone
  <1>2. \A n \in Networks : network'[n].phase = "new" /\ ~Up(n)'
    BY <1>1 DEF NoNetworks, Up
  <1>3. \A e : ~Queued(e)' /\ \A i \in Nat : ~At(i, e)'
    <2>1. Len(events') = 0
      BY <1>1, EmptySeq
    <2> QED
      BY <2>1 DEF Queued, At
  <1>4. HistInv'
    BY <1>1, <1>2, <1>3 DEF HistInv, NewUnknown, CreatedOnce, DestroyedGone
  <1>5. CASE UNCHANGED <<networkInfoByID, usedHostSecondOctet>>
    <2>1. \A n \in Networks : Told(n)' = Told(n)
      BY <1>5 DEF Told
    <2>2. TableInv'
      BY <1>1, <1>2, <1>5, <2>1 DEF NetInv, TableInv, Life, UniqueSubnets, OneSubnet, OctetsUsed, OwnOctet
    <2>3. CalmInv'
      BY <1>1, <1>2, <1>3, <2>1 DEF NetInv, CalmInv, Unheard, GoneTold, OwnSubnet, DestroyFirst, UpTold
    <2> QED
      BY <1>4, <2>2, <2>3 DEF NetInv
  <1>6. CASE networkInfoByID' = Each(Networks, None) /\ usedHostSecondOctet' = {}
    <2>1. \A n \in Networks : Told(n)' = {}
      BY <1>6 DEF Told, Each
    <2>2. TableInv'
      BY <1>1, <1>2, <1>6, <2>1 DEF NetInv, TableInv, Life, UniqueSubnets, OneSubnet, OctetsUsed, OwnOctet
    <2>3. CalmInv'
      BY <1>1, <1>2, <1>3, <2>1 DEF NetInv, CalmInv, Unheard, GoneTold, OwnSubnet, DestroyFirst, UpTold
    <2> QED
      BY <1>4, <2>2, <2>3 DEF NetInv
  <1> QED
    BY <1>5, <1>6 DEF Gone

\* A stream that breaks is a failure, and takes the events along.
LEMMA NetBreaks ==
  ASSUME TypeInv, NetInv, Breaks
  PROVE  NetInv'
  <1>1. /\ events' = <<>> /\ subscribed' = FALSE
        /\ UNCHANGED <<dockerd, network, container, networkInfoByID, usedHostSecondOctet>>
    BY DEF Breaks, StreamBreaks
  <1>2. faults' # 0
    BY DEF Breaks, StreamBreaks, Fault, TypeInv, TypeOK, DockerTypeOK
  <1>3. \A e : ~Queued(e)' /\ \A i \in Nat : ~At(i, e)'
    <2>1. Len(events') = 0
      BY <1>1, EmptySeq
    <2> QED
      BY <2>1 DEF Queued, At
  <1>4. \A n \in Networks : Told(n)' = Told(n) /\ (Up(n)' <=> Up(n))
    BY <1>1 DEF Told, Up
  <1>5. TableInv'
    BY <1>1, <1>4 DEF NetInv, TableInv, Life, UniqueSubnets, OneSubnet, OctetsUsed, OwnOctet
  <1>6. HistInv'
    BY <1>1, <1>3, <1>4 DEF NetInv, HistInv, NewUnknown, CreatedOnce, DestroyedGone
  <1>7. CalmInv'
    BY <1>2 DEF CalmInv, Unheard, GoneTold, OwnSubnet, DestroyFirst, UpTold
  <1> QED
    BY <1>5, <1>6, <1>7 DEF NetInv

\* The order of the events stays when the first one is received, if it is not the one that
\* the order asks for.
LEMMA DestroyStillFirst ==
  ASSUME TypeInv, NEW event, Receive(event), NEW n \in Networks, NEW m \in Networks, NEW i \in Nat,
         event # <<"destroy", m>>, \E j \in Nat : j < i + 1 /\ At(j, <<"destroy", m>>)
  PROVE  \E j \in Nat : j < i /\ At(j, <<"destroy", m>>)'
  <1>1. PICK j \in Nat : j < i + 1 /\ At(j, <<"destroy", m>>)
    OBVIOUS
  <1>2. /\ At(1, event)
        /\ \A k \in Nat : At(k, <<"destroy", m>>)' <=> k >= 1 /\ At(k + 1, <<"destroy", m>>)
    BY QueueReceive, TypeParts, EventNames
  <1>3. j >= 1 /\ j # 1
    <2>1. j # 1
      BY <1>1, <1>2 DEF At
    <2>2. j \in 1..Len(events) /\ Len(events) \in Nat
      BY <1>1, LenProperties DEF At, TypeInv, TypeOK, DockerTypeOK
    <2> QED
      BY <2>1, <2>2
  <1>4. j - 1 \in Nat /\ j - 1 >= 1 /\ (j - 1) + 1 = j /\ j - 1 < i
    BY <1>1, <1>3
  <1>5. At(j - 1, <<"destroy", m>>)'
    BY <1>1, <1>2, <1>4
  <1> QED
    BY <1>4, <1>5

\* An event of a container is received.
LEMMA NetHears ==
  ASSUME TypeInv, NetInv, NEW c \in Containers, HearsContainer(c), faults' = 0 => faults = 0
  PROVE  NetInv'
  <1>1. PICK event \in {<<"start", c>>, <<"stop", c>>} : Receive(event)
    BY DEF HearsContainer, ContainerStarted, ContainerStopped
  <1>2. UNCHANGED <<dockerd, network, container, subscribed, lost, networkInfoByID, usedHostSecondOctet>> /\ events # <<>>
    BY <1>1 DEF HearsContainer, Receive
  <1>3. \A n \in Networks : Told(n)' = Told(n) /\ (Up(n)' <=> Up(n))
    BY <1>2 DEF Told, Up
  <1>4. \A n \in Networks : /\ Queued(<<"create", n>>)' <=> Queued(<<"create", n>>)
                            /\ Queued(<<"destroy", n>>)' <=> Queued(<<"destroy", n>>)
                            /\ event # <<"destroy", n>>
    BY <1>1, QueueReceive, TypeParts, EventNames
  <1>5. \A i \in Nat : \A n \in Networks : At(i, <<"create", n>>)' => At(i + 1, <<"create", n>>)
    BY <1>1, QueueReceive, TypeParts, EventNames
  <1>6. TableInv'
    BY <1>2, <1>3 DEF NetInv, TableInv, Life, UniqueSubnets, OneSubnet, OctetsUsed, OwnOctet
  <1>7. HistInv'
    <2>1. CreatedOnce'
      <3>1. ASSUME NEW n \in Networks, NEW i \in Nat, NEW j \in Nat,
                   At(i, <<"create", n>>)', At(j, <<"create", n>>)'
            PROVE  i = j
        <4>1. i + 1 \in Nat /\ j + 1 \in Nat /\ At(i + 1, <<"create", n>>) /\ At(j + 1, <<"create", n>>)
          BY <1>5, <3>1
        <4>2. i + 1 = j + 1
          BY <4>1 DEF NetInv, HistInv, CreatedOnce
        <4> QED
          BY <4>2
      <3> QED
        BY <1>3, <1>4, <3>1 DEF NetInv, HistInv, CreatedOnce
    <2> QED
      BY <1>2, <1>3, <1>4, <2>1 DEF NetInv, HistInv, NewUnknown, DestroyedGone
  <1>8. CalmInv'
    <2>1. DestroyFirst'
      <3> SUFFICES ASSUME faults' = 0, NEW m \in Networks, NEW n \in Networks, NEW i \in Nat, NEW s \in Told(m)',
                          n # m, Up(n)', At(i, <<"create", n>>)', s.subnet = network'[n].subnet
                   PROVE  \E j \in Nat : j < i /\ At(j, <<"destroy", m>>)'
        BY DEF DestroyFirst
      <3>1. \E j \in Nat : j < i + 1 /\ At(j, <<"destroy", m>>)
        BY <1>2, <1>3, <1>5 DEF NetInv, CalmInv, DestroyFirst
      <3> QED
        BY <1>1, <1>4, <3>1, DestroyStillFirst
    <2>2. Unheard' /\ OwnSubnet'
      BY <1>2, <1>3 DEF NetInv, CalmInv, Unheard, OwnSubnet
    <2>3. GoneTold'
      BY <1>2, <1>3, <1>4 DEF NetInv, CalmInv, GoneTold
    <2>4. UpTold'
      BY <1>2, <1>3, <1>4 DEF NetInv, CalmInv, UpTold
    <2> QED
      BY <2>1, <2>2, <2>3, <2>4 DEF CalmInv
  <1> QED
    BY <1>6, <1>7, <1>8 DEF NetInv

\* A network is registered, with the least octet nobody uses or without subnets.
LEMMA NetCreated ==
  ASSUME TypeInv, NetInv, NEW k \in Networks, NetworkCreated(k), faults' = 0 => faults = 0 /\ UNCHANGED faults
  PROVE  NetInv'
  <1>1. Receive(<<"create", k>>)
    BY DEF NetworkCreated
  <1>2. UNCHANGED <<dockerd, network, container, subscribed, lost>> /\ events # <<>>
    BY <1>1 DEF Receive
  <1>3. \A n \in Networks : Up(n)' <=> Up(n)
    BY <1>2 DEF Up
  <1>4. PICK subnets \in SUBSET Subnet :
           /\ networkInfoByID' = [networkInfoByID EXCEPT ![k] = subnets]
           /\ usedHostSecondOctet' = usedHostSecondOctet \cup {s.octet : s \in subnets}
           /\ \A s \in subnets : /\ subnets = {s} /\ Up(k) /\ s.subnet = network[k].subnet
                                 /\ s.octet \in Octets \ usedHostSecondOctet
           /\ faults' = 0 /\ Up(k) => subnets # {}
    <2>1. ASSUME Up(k), NEW o \in FirstAvailable
          PROVE  LET s == [subnet |-> network[k].subnet, octet |-> o] IN
                 s \in Subnet /\ s.subnet = network[k].subnet /\ s.octet \in Octets \ usedHostSecondOctet
      <3>1. network[k].subnet \in Subnets
        BY <2>1 DEF TypeInv, TypeOK, DockerTypeOK, SubnetsInUse, NetworkStates
      <3> QED
        BY <2>1, <3>1 DEF Subnet, FirstAvailable
    <2>2. CASE Up(k) /\ \E o \in FirstAvailable :
                 /\ networkInfoByID' = [networkInfoByID EXCEPT ![k] = {[subnet |-> network[k].subnet, octet |-> o]}]
                 /\ usedHostSecondOctet' = usedHostSecondOctet
                                             \cup {s.octet : s \in {[subnet |-> network[k].subnet, octet |-> o]}}
      <3>1. PICK o \in FirstAvailable :
                 /\ networkInfoByID' = [networkInfoByID EXCEPT ![k] = {[subnet |-> network[k].subnet, octet |-> o]}]
                 /\ usedHostSecondOctet' = usedHostSecondOctet
                                             \cup {s.octet : s \in {[subnet |-> network[k].subnet, octet |-> o]}}
        BY <2>2
      <3> DEFINE S == {[subnet |-> network[k].subnet, octet |-> o]}
      <3>2. S \in SUBSET Subnet /\ S # {}
        BY <2>1, <2>2
      <3>3. \A s \in S : /\ S = {s} /\ Up(k) /\ s.subnet = network[k].subnet
                         /\ s.octet \in Octets \ usedHostSecondOctet
        BY <2>1, <2>2
      <3>4. /\ networkInfoByID' = [networkInfoByID EXCEPT ![k] = S]
            /\ usedHostSecondOctet' = usedHostSecondOctet \cup {s.octet : s \in S}
        BY <3>1
      <3> HIDE DEF S
      <3> QED
        BY <3>2, <3>3, <3>4
    <2>3. CASE /\ networkInfoByID' = [networkInfoByID EXCEPT ![k] = {}]
               /\ usedHostSecondOctet' = usedHostSecondOctet \cup {s.octet : s \in {}}
               /\ ~Up(k) \/ Fault
      <3>1. faults' = 0 => ~Fault
        BY DEF Fault, TypeInv, TypeOK, DockerTypeOK
      <3> DEFINE S == {}
      <3>2. /\ networkInfoByID' = [networkInfoByID EXCEPT ![k] = S]
            /\ usedHostSecondOctet' = usedHostSecondOctet \cup {s.octet : s \in S}
            /\ S \in SUBSET Subnet
        BY <2>3
      <3>3. \A s \in S : /\ S = {s} /\ Up(k) /\ s.subnet = network[k].subnet
                         /\ s.octet \in Octets \ usedHostSecondOctet
        OBVIOUS
      <3>4. faults' = 0 => ~Up(k)
        BY <2>3, <3>1
      <3> HIDE DEF S
      <3> QED
        BY <3>2, <3>3, <3>4
    <2> QED
      BY <2>2, <2>3 DEF NetworkCreated, Up
  <1>5. \A n \in Networks : Told(n)' = IF n = k THEN subnets ELSE Told(n)
    <2>1. subnets # None
      BY NoneIsNil
    <2> QED
      BY <1>4, <2>1 DEF Told, TypeInv, TypeOK, DindTypeOK
  <1>6. /\ At(1, <<"create", k>>) /\ Queued(<<"create", k>>)
        /\ \A i \in Nat : \A e \in Events : At(i, e)' => At(i + 1, e)
        /\ \A e \in Events : Queued(e)' => Queued(e)
        /\ \A e \in Events : Queued(e) /\ e # <<"create", k>> => Queued(e)'
    BY <1>1, QueueReceive, TypeParts DEF Queued
  <1>6a. \A i \in Nat : \A n \in Networks : At(i, <<"create", n>>)' => At(i + 1, <<"create", n>>)
    BY <1>6, EventNames
  <1>7. Told(k) = {} /\ ~Queued(<<"create", k>>)'
    <2>1. Told(k) = {} /\ \A j \in Nat : At(j, <<"create", k>>) => j = 1
      BY <1>6 DEF NetInv, HistInv, CreatedOnce
    <2>2. ASSUME NEW i \in Nat, At(i, <<"create", k>>)'
          PROVE  FALSE
      <3>1. i + 1 = 1 /\ i # 0
        BY <1>6, <2>1, <2>2, QueueReceive, <1>1, TypeParts, EventNames
      <3> QED
        BY <3>1
    <2> QED
      BY <2>1, <2>2 DEF Queued
  <1>8. TableInv'
    <2>1. Life'
      BY <1>2 DEF Life, NetInv, TableInv
    <2>2. UniqueSubnets'
      BY <1>2, <1>3 DEF UniqueSubnets, NetInv, TableInv
    <2>3. OneSubnet'
      BY <1>2, <1>3, <1>4, <1>5 DEF OneSubnet, NetInv, TableInv
    <2>4. OctetsUsed'
      <3> SUFFICES ASSUME NEW o \in Octets
                   PROVE  o \in usedHostSecondOctet' <=> \E n \in Networks : \E s \in Told(n)' : s.octet = o
        BY DEF OctetsUsed
      <3>1. o \in usedHostSecondOctet' <=> o \in usedHostSecondOctet \/ \E s \in subnets : s.octet = o
        BY <1>4
      <3>2. o \in usedHostSecondOctet <=> \E n \in Networks : \E s \in Told(n) : s.octet = o
        BY DEF OctetsUsed, NetInv, TableInv
      <3> QED
        BY <1>5, <1>7, <3>1, <3>2
    <2>5. OwnOctet'
      <3>1. \A m \in Networks : \A s \in subnets, t \in Told(m) : s.octet # t.octet
        BY <1>4 DEF OctetsUsed, NetInv, TableInv
      <3> QED
        BY <1>5, <3>1 DEF OwnOctet, NetInv, TableInv
    <2> QED
      BY <2>1, <2>2, <2>3, <2>4, <2>5 DEF TableInv
  <1>9. HistInv'
    <2>1. CreatedOnce'
      <3>1. ASSUME NEW n \in Networks, NEW i \in Nat, NEW j \in Nat,
                   At(i, <<"create", n>>)', At(j, <<"create", n>>)'
            PROVE  i = j
        <4>1. i + 1 \in Nat /\ j + 1 \in Nat /\ At(i + 1, <<"create", n>>) /\ At(j + 1, <<"create", n>>)
          BY <1>6a, <3>1
        <4>2. i + 1 = j + 1
          BY <4>1 DEF NetInv, HistInv, CreatedOnce
        <4> QED
          BY <4>2
      <3>2. ASSUME NEW n \in Networks, Queued(<<"create", n>>)'
            PROVE  Told(n)' = {}
        BY <1>5, <1>6, <1>7, <3>2, EventNames DEF NetInv, HistInv, CreatedOnce
      <3> QED
        BY <3>1, <3>2 DEF CreatedOnce
    <2>2. NewUnknown'
      <3> SUFFICES ASSUME NEW n \in Networks, dockerd' = "up", network'[n].phase = "new"
                   PROVE  Told(n)' = {} /\ ~Queued(<<"create", n>>)'
        BY DEF NewUnknown
      <3>1. Told(n) = {} /\ ~Queued(<<"create", n>>)
        BY <1>2 DEF NewUnknown, NetInv, HistInv
      <3> QED
        BY <1>5, <1>6, <3>1, EventNames
    <2>3. DestroyedGone'
      BY <1>2, <1>6, EventNames DEF DestroyedGone, NetInv, HistInv
    <2> QED
      BY <2>1, <2>2, <2>3 DEF HistInv
  <1>10. CalmInv'
    <2> SUFFICES ASSUME faults' = 0
                 PROVE  CalmInv'
      BY DEF CalmInv, Unheard, GoneTold, OwnSubnet, DestroyFirst, UpTold
    <2>0. faults = 0
      OBVIOUS
    <2>1. Unheard'
      BY <1>2 DEF Unheard, Life, NetInv, TableInv
    <2>2. GoneTold'
      <3>1. ASSUME NEW n \in Networks, Told(n)' # {}, dockerd = "up"
            PROVE  Up(n)' \/ Queued(<<"destroy", n>>)'
        <4>1. CASE n = k
          BY <1>3, <1>4, <1>5, <3>1, <4>1
        <4>2. CASE n # k
          BY <1>3, <1>5, <1>6, <2>0, <3>1, <4>2, EventNames DEF GoneTold, NetInv, CalmInv
        <4> QED
          BY <4>1, <4>2
      <3> QED
        BY <1>2, <3>1 DEF GoneTold
    <2>3. ASSUME NEW m \in Networks, m # k, NEW s \in subnets, NEW t \in Told(m)
          PROVE  s.subnet # t.subnet
      <3>1. ASSUME s.subnet = t.subnet
            PROVE  \E j \in Nat : j < 1 /\ At(j, <<"destroy", m>>)
        BY <1>4, <1>6, <2>0, <2>3, <3>1 DEF DestroyFirst, NetInv, CalmInv
      <3>2. \A j \in Nat : At(j, <<"destroy", m>>) => j >= 1
        <4>1. Len(events) \in Nat
          BY LenProperties DEF TypeInv, TypeOK, DockerTypeOK
        <4> QED
          BY <4>1 DEF At
      <3> QED
        BY <3>1, <3>2
    <2>4. OwnSubnet'
      <3>1. \A m \in Networks : \A s \in subnets, t \in Told(m) : m # k => s.subnet # t.subnet /\ t.subnet # s.subnet
        BY <2>3
      <3>2. \A n, m \in Networks : \A s \in Told(n), t \in Told(m) : n # m => s.subnet # t.subnet
        BY <2>0 DEF OwnSubnet, NetInv, CalmInv
      <3> QED
        BY <1>5, <3>1, <3>2 DEF OwnSubnet
    <2>5. DestroyFirst'
      <3> SUFFICES ASSUME NEW m \in Networks, NEW n \in Networks, NEW i \in Nat, NEW s \in Told(m)',
                          n # m, Up(n)', At(i, <<"create", n>>)', s.subnet = network'[n].subnet
                   PROVE  \E j \in Nat : j < i /\ At(j, <<"destroy", m>>)'
        BY DEF DestroyFirst
      <3>1. m # k
        BY <1>2, <1>3, <1>4, <1>5 DEF UniqueSubnets, NetInv, TableInv
      <3>2. \E j \in Nat : j < i + 1 /\ At(j, <<"destroy", m>>)
        BY <1>2, <1>3, <1>5, <1>6a, <2>0, <3>1 DEF NetInv, CalmInv, DestroyFirst
      <3>3. <<"create", k>> # <<"destroy", m>>
        BY EventNames
      <3> QED
        BY <1>1, <3>2, <3>3, DestroyStillFirst
    <2>6. UpTold'
      <3>1. ASSUME NEW n \in Networks, Up(n)', ~lost, dockerd = "up"
            PROVE  Queued(<<"create", n>>)' \/ Told(n)' # {}
        <4>1. CASE n = k
          BY <1>3, <1>4, <1>5, <3>1, <4>1
        <4>2. CASE n # k
          BY <1>3, <1>5, <1>6, <2>0, <3>1, <4>2, EventNames DEF UpTold, NetInv, CalmInv
        <4> QED
          BY <4>1, <4>2
      <3> QED
        BY <1>2, <3>1 DEF UpTold
    <2> QED
      BY <2>1, <2>2, <2>4, <2>5, <2>6 DEF CalmInv
  <1> QED
    BY <1>8, <1>9, <1>10 DEF NetInv

\* A network is struck off, and its octet given back.
LEMMA NetDestroyed ==
  ASSUME TypeInv, NetInv, NEW k \in Networks, NetworkDestroyed(k), faults' = 0 => faults = 0
  PROVE  NetInv'
  <1>1. Receive(<<"destroy", k>>)
    BY DEF NetworkDestroyed
  <1>2. UNCHANGED <<dockerd, network, container, subscribed, lost>> /\ events # <<>>
    BY <1>1 DEF Receive
  <1>3. \A n \in Networks : Up(n)' <=> Up(n)
    BY <1>2 DEF Up
  <1>4. \A n \in Networks : Told(n)' = IF n = k THEN {} ELSE Told(n)
    <2>1. CASE networkInfoByID[k] = None /\ UNCHANGED eventVars
      BY <2>1 DEF Told, eventVars
    <2>2. CASE networkInfoByID' = [networkInfoByID EXCEPT ![k] = None]
      BY <2>2 DEF Told, TypeInv, TypeOK, DindTypeOK
    <2> QED
      BY <2>1, <2>2 DEF NetworkDestroyed
  <1>5. \A o \in Octets : o \in usedHostSecondOctet' <=> o \in usedHostSecondOctet /\ ~\E s \in Told(k) : s.octet = o
    <2>1. CASE networkInfoByID[k] = None /\ UNCHANGED eventVars
      BY <2>1 DEF Told, eventVars
    <2>2. CASE networkInfoByID[k] # None /\ usedHostSecondOctet' = usedHostSecondOctet \ {s.octet : s \in networkInfoByID[k]}
      BY <2>2 DEF Told
    <2> QED
      BY <2>1, <2>2 DEF NetworkDestroyed
  <1>6. /\ At(1, <<"destroy", k>>) /\ Queued(<<"destroy", k>>)
        /\ \A i \in Nat : \A n \in Networks : At(i, <<"create", n>>)' => At(i + 1, <<"create", n>>)
        /\ \A n \in Networks : /\ Queued(<<"create", n>>)' <=> Queued(<<"create", n>>)
                               /\ Queued(<<"destroy", n>>)' => Queued(<<"destroy", n>>)
                               /\ Queued(<<"destroy", n>>) /\ n # k => Queued(<<"destroy", n>>)'
    <2>1. /\ At(1, <<"destroy", k>>)
          /\ \A i \in Nat : \A e \in Events : At(i, e)' => At(i + 1, e)
          /\ \A e \in Events : Queued(e)' => Queued(e)
          /\ \A e \in Events : Queued(e) /\ e # <<"destroy", k>> => Queued(e)'
      BY <1>1, QueueReceive, TypeParts
    <2>2. Queued(<<"destroy", k>>)
      BY <2>1 DEF Queued
    <2> QED
      BY <2>1, <2>2, EventNames
  <1>7. ~Up(k)
    BY <1>6 DEF NetInv, HistInv, DestroyedGone, Up
  <1>8. TableInv'
    <2>1. Life'
      BY <1>2 DEF Life, NetInv, TableInv
    <2>2. UniqueSubnets'
      BY <1>2, <1>3 DEF UniqueSubnets, NetInv, TableInv
    <2>3. OneSubnet'
      BY <1>2, <1>3, <1>4 DEF OneSubnet, NetInv, TableInv
    <2>4. OctetsUsed'
      <3> SUFFICES ASSUME NEW o \in Octets
                   PROVE  o \in usedHostSecondOctet' <=> \E n \in Networks : \E s \in Told(n)' : s.octet = o
        BY DEF OctetsUsed
      <3>1. o \in usedHostSecondOctet <=> \E n \in Networks : \E s \in Told(n) : s.octet = o
        BY DEF OctetsUsed, NetInv, TableInv
      <3>2. \A n \in Networks : n # k => \A s \in Told(n), t \in Told(k) : s.octet # t.octet
        BY DEF OwnOctet, NetInv, TableInv
      <3> QED
        BY <1>4, <1>5, <3>1, <3>2
    <2>5. OwnOctet'
      BY <1>4 DEF OwnOctet, NetInv, TableInv
    <2> QED
      BY <2>1, <2>2, <2>3, <2>4, <2>5 DEF TableInv
  <1>9. HistInv'
    <2>1. CreatedOnce'
      <3>1. ASSUME NEW n \in Networks, NEW i \in Nat, NEW j \in Nat,
                   At(i, <<"create", n>>)', At(j, <<"create", n>>)'
            PROVE  i = j
        <4>1. i + 1 \in Nat /\ j + 1 \in Nat /\ At(i + 1, <<"create", n>>) /\ At(j + 1, <<"create", n>>)
          BY <1>6, <3>1
        <4>2. i + 1 = j + 1
          BY <4>1 DEF NetInv, HistInv, CreatedOnce
        <4> QED
          BY <4>2
      <3> QED
        BY <1>4, <1>6, <3>1 DEF NetInv, HistInv, CreatedOnce
    <2>2. NewUnknown'
      BY <1>2, <1>4, <1>6 DEF NewUnknown, NetInv, HistInv
    <2>3. DestroyedGone'
      BY <1>2, <1>6 DEF DestroyedGone, NetInv, HistInv
    <2> QED
      BY <2>1, <2>2, <2>3 DEF HistInv
  <1>10. CalmInv'
    <2>1. Unheard'
      BY <1>2 DEF Unheard, Life, NetInv, TableInv
    <2>2. GoneTold'
      BY <1>2, <1>3, <1>4, <1>6 DEF GoneTold, NetInv, CalmInv
    <2>3. OwnSubnet'
      BY <1>4 DEF OwnSubnet, NetInv, CalmInv
    <2>4. DestroyFirst'
      <3> SUFFICES ASSUME faults' = 0, NEW m \in Networks, NEW n \in Networks, NEW i \in Nat, NEW s \in Told(m)',
                          n # m, Up(n)', At(i, <<"create", n>>)', s.subnet = network'[n].subnet
                   PROVE  \E j \in Nat : j < i /\ At(j, <<"destroy", m>>)'
        BY DEF DestroyFirst
      <3>1. m # k /\ s \in Told(m)
        BY <1>4
      <3>2. \E j \in Nat : j < i + 1 /\ At(j, <<"destroy", m>>)
        BY <1>2, <1>3, <1>6, <3>1 DEF NetInv, CalmInv, DestroyFirst
      <3>3. <<"destroy", k>> # <<"destroy", m>>
        BY <3>1, EventNames
      <3> QED
        BY <1>1, <3>2, <3>3, DestroyStillFirst
    <2>5. UpTold'
      BY <1>2, <1>3, <1>4, <1>6, <1>7 DEF UpTold, NetInv, CalmInv
    <2> QED
      BY <2>1, <2>2, <2>3, <2>4, <2>5 DEF CalmInv
  <1> QED
    BY <1>8, <1>9, <1>10 DEF NetInv

\* A network's events stay where they are when another event is told.
LEMMA NetOthers ==
  ASSUME TypeInv, NEW event \in Events, NEW es \in {<<event>>, <<event, event>>}, Emit(es),
         NEW n \in Networks, event \notin {<<"create", n>>, <<"destroy", n>>}
  PROVE  /\ Queued(<<"create", n>>)' <=> Queued(<<"create", n>>)
         /\ Queued(<<"destroy", n>>)' <=> Queued(<<"destroy", n>>)
         /\ \A i \in Nat : At(i, <<"create", n>>)' <=> At(i, <<"create", n>>)
         /\ \A i \in Nat : At(i, <<"destroy", n>>)' <=> At(i, <<"destroy", n>>)
  <1>1. <<"create", n>> \in Events /\ <<"destroy", n>> \in Events
    BY EventNames
  <1>2. CASE subscribed
    <2>1. /\ \A i \in Nat : \A e \in Events : At(i, e) => At(i, e)'
          /\ \A i \in Nat : \A e \in Events : At(i, e)' => At(i, e) \/ e = event
      BY <1>2, QueueEmit, TypeParts
    <2>2. /\ \A i \in Nat : At(i, <<"create", n>>)' <=> At(i, <<"create", n>>)
          /\ \A i \in Nat : At(i, <<"destroy", n>>)' <=> At(i, <<"destroy", n>>)
      BY <1>1, <2>1
    <2> QED
      BY <2>2 DEF Queued
  <1>3. CASE ~subscribed
    <2>1. UNCHANGED events
      BY <1>3, QueueEmit, TypeParts
    <2> QED
      BY <2>1 DEF Queued, At
  <1> QED
    BY <1>2, <1>3

\* A network is created: its subnet is free, so if the event loop has it registered, it is for a
\* network that is gone and whose end is told first.
LEMMA NetCreate ==
  ASSUME TypeInv, NetInv, NEW k \in Networks, CreateNetwork(k), dockerd = "up",
         UNCHANGED <<networkInfoByID, usedHostSecondOctet>>
  PROVE  NetInv'
  <1>1. /\ Emit(<<<<"create", k>>>>) /\ UNCHANGED container /\ network[k].phase = "new"
    <2>1. k >= k
      BY DockerBounds
    <2> QED
      BY <2>1 DEF CreateNetwork
  <1>2. PICK s0 \in Subnets : /\ \A m \in Networks : network[m].subnet # s0
                              /\ network' = [network EXCEPT ![k] = [phase |-> "up", subnet |-> s0]]
    BY DEF CreateNetwork
  <1>3. /\ \A n \in Networks : n # k => network'[n] = network[n]
        /\ network'[k] = [phase |-> "up", subnet |-> s0]
    BY <1>2 DEF TypeInv, TypeOK, DockerTypeOK
  <1>3a. network'[k].phase = "up" /\ network'[k].subnet = s0
    BY <1>3
  <1>4. /\ \A n \in Networks : Told(n)' = Told(n)
        /\ \A n \in Networks : n # k => (Up(n)' <=> Up(n))
        /\ Up(k)' /\ ~Up(k)
    BY <1>1, <1>3, <1>3a DEF Told, Up
  <1>5. UNCHANGED <<dockerd, subscribed, faults>> /\ (lost => lost')
    BY <1>1, QueueEmit, TypeParts, EventNames
  <1>6. Told(k) = {} /\ ~Queued(<<"create", k>>) /\ ~Queued(<<"destroy", k>>)
    BY <1>1 DEF NetInv, HistInv, NewUnknown, DestroyedGone
  <1>7. /\ \A n \in Networks : Queued(<<"destroy", n>>)' <=> Queued(<<"destroy", n>>)
        /\ \A n \in Networks : n # k => (Queued(<<"create", n>>)' <=> Queued(<<"create", n>>))
        /\ \A i \in Nat, n \in Networks : At(i, <<"destroy", n>>) => At(i, <<"destroy", n>>)'
        /\ \A i \in Nat, n \in Networks : n # k => (At(i, <<"create", n>>)' <=> At(i, <<"create", n>>))
    <2>1. \A n \in Networks : n # k => <<"create", k>> \notin {<<"create", n>>, <<"destroy", n>>}
      BY EventNames
    <2>2. /\ Queued(<<"destroy", k>>)' <=> Queued(<<"destroy", k>>)
          /\ \A i \in Nat : At(i, <<"destroy", k>>) => At(i, <<"destroy", k>>)'
      <3>1. \A i \in Nat : ~At(i, <<"destroy", k>>)
        BY <1>6 DEF Queued
      <3>2. Queued(<<"destroy", k>>)' => Queued(<<"destroy", k>>)
        BY <1>1, QueueEmit, TypeParts, EventNames
      <3> QED
        BY <1>6, <3>1, <3>2
    <2> QED
      BY <1>1, <2>1, <2>2, NetOthers, EventNames
  <1>8. \/ /\ subscribed /\ Queued(<<"create", k>>)'
           /\ \A i \in Nat : At(i, <<"create", k>>)' => i = Len(events) + 1
        \/ /\ ~subscribed /\ lost' /\ ~Queued(<<"create", k>>)'
           /\ \A i \in Nat : ~At(i, <<"create", k>>)'
    <2>1. CASE subscribed
      <3>1. /\ Queued(<<"create", k>>)'
            /\ \A i \in Nat : At(i, <<"create", k>>)' => At(i, <<"create", k>>) \/ i > Len(events)
            /\ \A i \in Nat : At(i, <<"create", k>>)' => i <= Len(events) + 1
        BY <1>1, <2>1, QueueEmit, TypeParts, EventNames
      <3>2. \A i \in Nat : ~At(i, <<"create", k>>)
        BY <1>6 DEF Queued
      <3>3. Len(events) \in Nat
        BY LenProperties DEF TypeInv, TypeOK, DockerTypeOK
      <3> QED
        BY <2>1, <3>1, <3>2, <3>3
    <2>2. CASE ~subscribed
      <3>1. UNCHANGED events /\ lost'
        BY <1>1, <2>2, QueueEmit, TypeParts, EventNames
      <3>2. ~Queued(<<"create", k>>)'
        BY <1>6, <3>1 DEF Queued, At
      <3> QED
        BY <2>2, <3>1, <3>2 DEF Queued
    <2> QED
      BY <2>1, <2>2
  <1>9. TableInv'
    <2>1. Life'
      <3>1. ~subscribed' => events' = <<>>
        BY <1>1, <1>5 DEF Life, NetInv, TableInv, Emit
      <3> QED
        BY <1>5, <3>1 DEF Life, NetInv, TableInv
    <2>2. UniqueSubnets'
      BY <1>2, <1>3, <1>3a, <1>4 DEF UniqueSubnets, NetInv, TableInv
    <2>3. OneSubnet'
      BY <1>3, <1>4, <1>6 DEF OneSubnet, NetInv, TableInv
    <2>4. OctetsUsed' /\ OwnOctet'
      BY <1>4 DEF OctetsUsed, OwnOctet, NetInv, TableInv
    <2> QED
      BY <2>1, <2>2, <2>3, <2>4 DEF TableInv
  <1>10. HistInv'
    <2>1. CreatedOnce'
      <3>1. ASSUME NEW n \in Networks, NEW i \in Nat, NEW j \in Nat,
                   At(i, <<"create", n>>)', At(j, <<"create", n>>)'
            PROVE  i = j
        <4>1. CASE n = k
          BY <1>8, <3>1, <4>1
        <4>2. CASE n # k
          BY <1>7, <3>1, <4>2 DEF NetInv, HistInv, CreatedOnce
        <4> QED
          BY <4>1, <4>2
      <3> QED
        BY <1>4, <1>6, <1>7, <3>1 DEF NetInv, HistInv, CreatedOnce
    <2>2. NewUnknown'
      BY <1>3, <1>3a, <1>4, <1>7 DEF NewUnknown, NetInv, HistInv
    <2>3. DestroyedGone'
      BY <1>3, <1>6, <1>7 DEF DestroyedGone, NetInv, HistInv
    <2> QED
      BY <2>1, <2>2, <2>3 DEF HistInv
  <1>11. CalmInv'
    <2>1. Unheard'
      BY <1>4, <1>5 DEF Unheard, NetInv, CalmInv
    <2>2. GoneTold'
      BY <1>4, <1>5, <1>7 DEF GoneTold, NetInv, CalmInv
    <2>3. OwnSubnet'
      BY <1>4, <1>5 DEF OwnSubnet, NetInv, CalmInv
    <2>4. DestroyFirst'
      <3> SUFFICES ASSUME faults' = 0, NEW m \in Networks, NEW n \in Networks, NEW i \in Nat, NEW s \in Told(m)',
                          n # m, Up(n)', At(i, <<"create", n>>)', s.subnet = network'[n].subnet
                   PROVE  \E j \in Nat : j < i /\ At(j, <<"destroy", m>>)'
        BY DEF DestroyFirst
      <3>1. CASE n # k
        <4>1. \E j \in Nat : j < i /\ At(j, <<"destroy", m>>)
          BY <1>3, <1>4, <1>5, <1>7, <3>1 DEF DestroyFirst, NetInv, CalmInv
        <4> QED
          BY <1>7, <4>1
      <3>2. CASE n = k
        <4>1. i = Len(events) + 1
          BY <1>8, <3>2
        <4>2. s \in Told(m) /\ s.subnet = s0 /\ faults = 0
          BY <1>3a, <1>4, <1>5, <3>2
        <4>3. ~Up(m)
          BY <1>2, <4>2 DEF OneSubnet, NetInv, TableInv
        <4>4. Queued(<<"destroy", m>>)
          BY <4>2, <4>3 DEF GoneTold, NetInv, CalmInv
        <4>5. PICK j \in Nat : At(j, <<"destroy", m>>)
          BY <4>4 DEF Queued
        <4>6. j < i
          BY <4>1, <4>5, LenProperties DEF At, TypeInv, TypeOK, DockerTypeOK
        <4> QED
          BY <1>7, <4>5, <4>6
      <3> QED
        BY <3>1, <3>2
    <2>5. UpTold'
      <3> SUFFICES ASSUME faults' = 0, ~lost', dockerd' = "up", NEW n \in Networks, Up(n)'
                   PROVE  Queued(<<"create", n>>)' \/ Told(n)' # {}
        BY DEF UpTold
      <3>1. ~lost
        BY <1>5
      <3>2. CASE n = k
        BY <1>8, <3>2
      <3>3. CASE n # k
        BY <1>4, <1>5, <1>7, <3>1, <3>3 DEF UpTold, NetInv, CalmInv
      <3> QED
        BY <3>2, <3>3
    <2> QED
      BY <2>1, <2>2, <2>3, <2>4, <2>5 DEF CalmInv
  <1> QED
    BY <1>9, <1>10, <1>11 DEF NetInv

\* A network is removed, and its end is told.
LEMMA NetRemove ==
  ASSUME TypeInv, NetInv, NEW k \in Networks, RemoveNetwork(k), dockerd = "up",
         UNCHANGED <<networkInfoByID, usedHostSecondOctet>>
  PROVE  NetInv'
  <1>1. /\ Emit(<<<<"destroy", k>>>>) /\ UNCHANGED container
        /\ network' = [network EXCEPT ![k] = [phase |-> "gone", subnet |-> None]]
    BY DEF RemoveNetwork
  <1>2. /\ \A n \in Networks : n # k => network'[n] = network[n]
        /\ network'[k] = [phase |-> "gone", subnet |-> None]
    BY <1>1 DEF TypeInv, TypeOK, DockerTypeOK
  <1>3. network'[k].phase = "gone"
    BY <1>2
  <1>4. /\ \A n \in Networks : Told(n)' = Told(n)
        /\ \A n \in Networks : n # k => (Up(n)' <=> Up(n))
        /\ ~Up(k)'
    BY <1>1, <1>2, <1>3 DEF Told, Up
  <1>5. UNCHANGED <<dockerd, subscribed, faults>> /\ (lost => lost')
    BY <1>1, QueueEmit, TypeParts, EventNames
  <1>6. /\ \A n \in Networks : Queued(<<"create", n>>)' <=> Queued(<<"create", n>>)
        /\ \A n \in Networks : n # k => (Queued(<<"destroy", n>>)' <=> Queued(<<"destroy", n>>))
        /\ \A i \in Nat, n \in Networks : At(i, <<"destroy", n>>) => At(i, <<"destroy", n>>)'
        /\ \A i \in Nat, n \in Networks : At(i, <<"create", n>>)' => At(i, <<"create", n>>)
        /\ subscribed => Queued(<<"destroy", k>>)'
    <2>1. \A n \in Networks : n # k => <<"destroy", k>> \notin {<<"create", n>>, <<"destroy", n>>}
      BY EventNames
    <2>2. CASE subscribed
      <3>1. /\ \A i \in Nat : \A e \in Events : At(i, e) => At(i, e)'
            /\ \A i \in Nat : \A e \in Events : At(i, e)' => At(i, e) \/ e = <<"destroy", k>>
            /\ Queued(<<"destroy", k>>)'
        BY <1>1, <2>2, QueueEmit, TypeParts, EventNames
      <3>2. \A i \in Nat, n \in Networks : At(i, <<"create", n>>)' <=> At(i, <<"create", n>>)
        BY <3>1, EventNames
      <3>3. \A i \in Nat, n \in Networks : At(i, <<"destroy", n>>) => At(i, <<"destroy", n>>)'
        BY <3>1, EventNames
      <3> QED
        BY <1>1, <2>1, <3>1, <3>2, <3>3, NetOthers, EventNames DEF Queued
    <2>3. CASE ~subscribed
      <3>1. UNCHANGED events
        BY <1>1, <2>3, QueueEmit, TypeParts, EventNames
      <3> QED
        BY <2>3, <3>1 DEF Queued, At
    <2> QED
      BY <2>2, <2>3
  <1>7. TableInv'
    <2>1. Life'
      <3>1. ~subscribed' => events' = <<>>
        BY <1>1, <1>5 DEF Life, NetInv, TableInv, Emit
      <3> QED
        BY <1>5, <3>1 DEF Life, NetInv, TableInv
    <2>2. UniqueSubnets' /\ OneSubnet'
      BY <1>2, <1>4 DEF UniqueSubnets, OneSubnet, NetInv, TableInv
    <2>3. OctetsUsed' /\ OwnOctet'
      BY <1>4 DEF OctetsUsed, OwnOctet, NetInv, TableInv
    <2> QED
      BY <2>1, <2>2, <2>3 DEF TableInv
  <1>8. HistInv'
    <2>1. CreatedOnce'
      BY <1>4, <1>6 DEF NetInv, HistInv, CreatedOnce
    <2>2. NewUnknown'
      BY <1>2, <1>3, <1>4, <1>6 DEF NewUnknown, NetInv, HistInv
    <2>3. DestroyedGone'
      BY <1>2, <1>3, <1>6 DEF DestroyedGone, NetInv, HistInv
    <2> QED
      BY <2>1, <2>2, <2>3 DEF HistInv
  <1>9. CalmInv'
    <2>1. Unheard'
      BY <1>4, <1>5 DEF Unheard, NetInv, CalmInv
    <2>2. GoneTold'
      <3> SUFFICES ASSUME faults = 0, NEW n \in Networks, Told(n)' # {}
                   PROVE  Up(n)' \/ Queued(<<"destroy", n>>)'
        BY <1>5 DEF GoneTold
      <3>1. subscribed
        BY <1>4 DEF Unheard, NetInv, CalmInv
      <3> QED
        BY <1>4, <1>6, <3>1 DEF GoneTold, NetInv, CalmInv
    <2>3. OwnSubnet'
      BY <1>4, <1>5 DEF OwnSubnet, NetInv, CalmInv
    <2>4. DestroyFirst'
      <3> SUFFICES ASSUME faults' = 0, NEW m \in Networks, NEW n \in Networks, NEW i \in Nat, NEW s \in Told(m)',
                          n # m, Up(n)', At(i, <<"create", n>>)', s.subnet = network'[n].subnet
                   PROVE  \E j \in Nat : j < i /\ At(j, <<"destroy", m>>)'
        BY DEF DestroyFirst
      <3>1. n # k /\ s \in Told(m) /\ faults = 0 /\ At(i, <<"create", n>>)
        BY <1>4, <1>5, <1>6
      <3>2. \E j \in Nat : j < i /\ At(j, <<"destroy", m>>)
        BY <1>2, <1>4, <3>1 DEF DestroyFirst, NetInv, CalmInv
      <3> QED
        BY <1>6, <3>2
    <2>5. UpTold'
      BY <1>4, <1>5, <1>6 DEF UpTold, NetInv, CalmInv
    <2> QED
      BY <2>1, <2>2, <2>3, <2>4, <2>5 DEF CalmInv
  <1> QED
    BY <1>7, <1>8, <1>9 DEF NetInv

\* A container is started or stopped.
LEMMA NetContainer ==
  ASSUME TypeInv, NetInv, NEW c \in Containers, NEW event \in {<<"start", c>>, <<"stop", c>>},
         NEW es \in {<<event>>, <<event, event>>}, Emit(es), dockerd = "up",
         UNCHANGED <<network, networkInfoByID, usedHostSecondOctet>>
  PROVE  NetInv'
  <1>1. event \in Events /\ \A n \in Networks : event \notin {<<"create", n>>, <<"destroy", n>>}
    BY EventNames
  <1>2. UNCHANGED <<dockerd, subscribed, faults>> /\ (lost => lost')
    BY <1>1, QueueEmit, TypeParts
  <1>3. \A n \in Networks : Told(n)' = Told(n) /\ (Up(n)' <=> Up(n))
    BY DEF Told, Up
  <1>4. \A n \in Networks :
           /\ Queued(<<"create", n>>)' <=> Queued(<<"create", n>>)
           /\ Queued(<<"destroy", n>>)' <=> Queued(<<"destroy", n>>)
           /\ \A i \in Nat : At(i, <<"create", n>>)' <=> At(i, <<"create", n>>)
           /\ \A i \in Nat : At(i, <<"destroy", n>>)' <=> At(i, <<"destroy", n>>)
    BY <1>1, NetOthers
  <1>5. TableInv'
    <2>1. ~subscribed' => events' = <<>>
      BY <1>2 DEF Life, NetInv, TableInv, Emit
    <2> QED
      BY <1>2, <1>3, <2>1 DEF TableInv, Life, UniqueSubnets, OneSubnet, OctetsUsed, OwnOctet, NetInv
  <1>6. HistInv'
    BY <1>2, <1>3, <1>4 DEF HistInv, NewUnknown, CreatedOnce, DestroyedGone, NetInv
  <1>7. CalmInv'
    <2>1. Unheard' /\ OwnSubnet'
      BY <1>2, <1>3 DEF Unheard, OwnSubnet, NetInv, CalmInv
    <2>2. GoneTold' /\ UpTold'
      BY <1>2, <1>3, <1>4 DEF GoneTold, UpTold, NetInv, CalmInv
    <2>3. DestroyFirst'
      BY <1>2, <1>3, <1>4 DEF DestroyFirst, NetInv, CalmInv
    <2> QED
      BY <2>1, <2>2, <2>3 DEF CalmInv
  <1> QED
    BY <1>5, <1>6, <1>7 DEF NetInv

\* Every step keeps the invariant.
LEMMA NetNext == TypeInv /\ JobInv /\ NetInv /\ [Next]_vars => NetInv'
  <1> SUFFICES ASSUME TypeInv, JobInv, NetInv, [Next]_vars
               PROVE  NetInv'
    OBVIOUS
  <1>1. faults' = 0 => faults = 0 /\ UNCHANGED faults
    BY FaultStep
  <1>2. CASE Still \/ Gone \/ Breaks
    BY <1>1, <1>2, NetStill, NetGone, NetBreaks
  <1>3. CASE \E n \in Networks : NetworkCreated(n) \/ NetworkDestroyed(n)
    BY <1>1, <1>3, NetCreated, NetDestroyed
  <1>4. CASE \E c \in Containers : HearsContainer(c)
    BY <1>1, <1>4, NetHears
  <1>5. CASE JobAction
    <2>1. dockerd = "up" /\ UNCHANGED <<networkInfoByID, usedHostSecondOctet>>
      BY <1>5 DEF JobAction
    <2>2. ASSUME NEW n \in Networks, CreateNetwork(n) \/ RemoveNetwork(n)
          PROVE  NetInv'
      BY <2>1, <2>2, NetCreate, NetRemove
    <2>3. ASSUME NEW c \in Containers, StopContainer(c)
          PROVE  NetInv'
      <3>1. UNCHANGED network /\ (Emit(<<<<"stop", c>>>>) \/ Emit(<<<<"stop", c>>, <<"stop", c>>>>))
        BY <2>3 DEF StopContainer
      <3> QED
        BY <2>1, <3>1, NetContainer
    <2>4. ASSUME NEW c \in Containers, NEW n \in Networks, StartContainer(c, n)
          PROVE  NetInv'
      <3>1. UNCHANGED network /\ Emit(<<<<"start", c>>>>)
        BY <2>4 DEF StartContainer
      <3> QED
        BY <2>1, <3>1, NetContainer
    <2> QED
      BY <1>5, <2>2, <2>3, <2>4 DEF JobAction, UseDocker
  <1> QED
    BY <1>2, <1>3, <1>4, <1>5, StepKinds

\* The table of the event loop: octets are in use exactly for the registered subnets, one for
\* each; and without failures a subnet is registered once, although the daemon gives it to
\* another network before the event loop has heard of the first one's end.
THEOREM TableCorrect == Spec => []NetInv
  BY TypeInvariant, JobInit, JobNext, NetInit, NetNext, PTL DEF Spec

-----------------------------------------------------------------------------
(* The NETMAP rules.                                                       *)

Announces(a, s) == eventPc = "send" /\ sending.action = a /\ s \in sending.subnets
Applies(pc, s)  == mainPc = pc /\ s \in handling.info.subnets

\* Whether there will be a rule for the subnet once main has done what it is doing and then what
\* the event loop waits to tell it
Settled(s) ==
    \/ Announces("create", s)
    \/ /\ ~Announces("destroy", s)
       /\ \/ Applies("append", s)
          \/ ~Applies("delete", s) /\ s \in rules

\* Without failures those are the registered subnets.
RulesInv == faults = 0 => \A s \in Subnet : Settled(s) <=> \E n \in Networks : s \in Told(n)

\* A step that neither tells, nor takes, nor changes anything of the rules
LEMMA RulesSame ==
  ASSUME RulesInv, faults' = 0 => faults = 0, UNCHANGED <<rules, networkInfoByID>>,
         \A a \in {"create", "destroy"}, s \in Subnet : Announces(a, s)' <=> Announces(a, s),
         \A pc \in {"append", "delete"}, s \in Subnet : Applies(pc, s)' <=> Applies(pc, s)
  PROVE  RulesInv'
  <1>1. \A n \in Networks : Told(n)' = Told(n)
    BY DEF Told
  <1>2. \A s \in Subnet : Settled(s)' <=> Settled(s)
    BY DEF Settled
  <1> QED
    BY <1>1, <1>2 DEF RulesInv

\* An ended process has no rules and knows no networks.
LEMMA RulesEnd ==
  ASSUME NEW pc \in Finished, End(pc)
  PROVE  RulesInv'
  <1>1. eventPc' = "off" /\ mainPc' \in Finished /\ rules' = {} /\ networkInfoByID' = Each(Networks, None)
    BY DEF End
  <1>2. \A n \in Networks : Told(n)' = {}
    BY <1>1 DEF Told, Each
  <1>3. \A s \in Subnet : ~Settled(s)'
    BY <1>1 DEF Settled, Announces, Applies, Finished
  <1> QED
    BY <1>2, <1>3 DEF RulesInv

\* The steps of the event loop keep the rules invariant.
LEMMA RulesEventLoop ==
  ASSUME TypeInv, NetInv, RulesInv, EventLoop, faults' = 0 => faults = 0 /\ UNCHANGED faults
  PROVE  RulesInv'
  <1>1. ASSUME UNCHANGED <<rules, networkInfoByID, mainPc, handling>>,
               \A a \in {"create", "destroy"}, s \in Subnet : Announces(a, s)' <=> Announces(a, s)
        PROVE  RulesInv'
    BY <1>1, RulesSame DEF Applies
  <1>2. CASE Subscribe \/ StreamEnded
    BY <1>1, <1>2 DEF Subscribe, StreamEnded, Announces, mainVars
  <1>3. CASE AddContainerInfo
    <2>1. sending.action = "start" /\ eventPc = "add"
      BY <1>3, InfoKinds DEF AddContainerInfo, TypeInv, EventShapes
    <2> QED
      BY <1>1, <1>3, <2>1 DEF AddContainerInfo, Announces, mainVars
  <1>4. ASSUME NEW k \in Networks, NetworkCreated(k)
        PROVE  RulesInv'
    <2>1. PICK subnets \in SUBSET Subnet :
             /\ networkInfoByID' = [networkInfoByID EXCEPT ![k] = subnets]
             /\ sending' = [action |-> "create", id |-> k, subnets |-> subnets]
             /\ eventPc' = "send"
      <3>1. ASSUME Up(k), NEW o \in FirstAvailable
            PROVE  {[subnet |-> network[k].subnet, octet |-> o]} \in SUBSET Subnet
        <4>1. network[k].subnet \in Subnets
          BY <3>1 DEF TypeInv, TypeOK, DockerTypeOK, SubnetsInUse, NetworkStates
        <4> QED
          BY <4>1 DEF Subnet, FirstAvailable
      <3> QED
        BY <1>4, <3>1 DEF NetworkCreated, Up
    <2>2. UNCHANGED <<rules, mainPc, handling>> /\ eventPc = "select" /\ Receive(<<"create", k>>)
      BY <1>4 DEF NetworkCreated, Receive, mainVars
    <2>3. subnets # None /\ Told(k) = {}
      <3>1. Queued(<<"create", k>>)
        BY <2>2, QueueReceive, TypeParts DEF Queued
      <3> QED
        BY <3>1, NoneIsNil DEF NetInv, HistInv, CreatedOnce
    <2>4. \A n \in Networks : Told(n)' = IF n = k THEN subnets ELSE Told(n)
      BY <2>1, <2>3 DEF Told, TypeInv, TypeOK, DindTypeOK
    <2>5. \A s \in Subnet : /\ Announces("create", s)' <=> s \in subnets
                            /\ ~Announces("destroy", s)'
                            /\ ~Announces("create", s) /\ ~Announces("destroy", s)
                            /\ Applies("append", s)' <=> Applies("append", s)
                            /\ Applies("delete", s)' <=> Applies("delete", s)
      BY <2>1, <2>2 DEF Announces, Applies
    <2>6. \A s \in Subnet : Settled(s)' <=> s \in subnets \/ Settled(s)
      BY <2>2, <2>5 DEF Settled
    <2> QED
      BY <2>3, <2>4, <2>6 DEF RulesInv
  <1>5. ASSUME NEW k \in Networks, NoOctetLeft(k)
        PROVE  RulesInv'
    BY <1>5, RulesEnd DEF NoOctetLeft, Finished
  <1>6. ASSUME NEW k \in Networks, NetworkDestroyed(k)
        PROVE  RulesInv'
    <2>1. UNCHANGED <<rules, mainPc, handling>> /\ eventPc = "select"
      BY <1>6 DEF NetworkDestroyed, Receive, mainVars
    <2>2. CASE UNCHANGED eventVars
      BY <1>1, <2>1, <2>2 DEF Announces, eventVars
    <2>3. CASE /\ networkInfoByID[k] # None
               /\ networkInfoByID' = [networkInfoByID EXCEPT ![k] = None]
               /\ sending' = [action |-> "destroy", id |-> k, subnets |-> networkInfoByID[k]]
               /\ eventPc' = "send"
      <3>1. \A n \in Networks : Told(n)' = IF n = k THEN {} ELSE Told(n)
        BY <2>3 DEF Told, TypeInv, TypeOK, DindTypeOK
      <3>2. \A s \in Subnet : /\ Announces("destroy", s)' <=> s \in Told(k)
                              /\ ~Announces("create", s)'
                              /\ ~Announces("create", s) /\ ~Announces("destroy", s)
                              /\ Applies("append", s)' <=> Applies("append", s)
                              /\ Applies("delete", s)' <=> Applies("delete", s)
        BY <2>1, <2>3 DEF Announces, Applies, Told
      <3>3. \A s \in Subnet : Settled(s)' <=> s \notin Told(k) /\ Settled(s)
        BY <2>1, <3>2 DEF Settled
      <3>4. \A n \in Networks : \A s \in Told(n) : n # k => s \notin Told(k)
        BY DEF NetInv, TableInv, OwnOctet
      <3> QED
        BY <3>1, <3>3, <3>4 DEF RulesInv
    <2> QED
      BY <1>6, <2>2, <2>3 DEF NetworkDestroyed
  <1>7. ASSUME NEW c \in Containers, ContainerStarted(c)
        PROVE  RulesInv'
    BY <1>1, <1>7 DEF ContainerStarted, Receive, Announces, mainVars
  <1>8. ASSUME NEW c \in Containers, ContainerStopped(c)
        PROVE  RulesInv'
    <2>1. UNCHANGED <<rules, mainPc, handling>> /\ eventPc = "select"
      BY <1>8 DEF ContainerStopped, Receive, mainVars
    <2>2. CASE UNCHANGED eventVars
      BY <1>1, <2>1, <2>2 DEF Announces, eventVars
    <2>3. CASE sending' = [action |-> "stop", id |-> c] /\ UNCHANGED networkInfoByID
      BY <1>1, <2>1, <2>3 DEF Announces
    <2> QED
      BY <1>8, <2>2, <2>3 DEF ContainerStopped
  <1> QED
    BY <1>2, <1>3, <1>4, <1>5, <1>6, <1>7, <1>8 DEF EventLoop

\* The steps of main keep the rules invariant.
LEMMA RulesMain ==
  ASSUME TypeInv, RulesInv, Main, faults' = 0 => faults = 0 /\ UNCHANGED faults
  PROVE  RulesInv'
  <1>1. CASE MainPanics \/ LeaveLoop \/ (Kill /\ End("panicked")) \/ \E port \in Ports : NoSocatCommand(port)
    BY <1>1, RulesEnd DEF MainPanics, LeaveLoop, NoSocatCommand, Finished
  <1>2. ASSUME UNCHANGED <<rules, networkInfoByID, eventPc, sending>>,
               mainPc \notin {"append", "delete"}, mainPc' \notin {"append", "delete"}
        PROVE  RulesInv'
    BY <1>2, RulesSame DEF Announces, Applies
  <1>3. CASE (Begin /\ ~MainPanics) \/ WaitForDockerd \/ StartDockerd \/ (Boot /\ ~MainPanics)
    BY <1>2, <1>3 DEF Begin, WaitForDockerd, StartDockerd, Boot, MainGoto, eventVars
  <1>4. CASE StartEventLoop /\ ~MainPanics
    <2>1. /\ eventPc' = "subscribe" /\ mainPc = "iptables" /\ mainPc' = "loop"
          /\ UNCHANGED <<rules, networkInfoByID, sending>>
      BY <1>4 DEF StartEventLoop
    <2>2. eventPc = "off"
      BY <2>1 DEF TypeInv, LoopOff
    <2> QED
      BY <2>1, <2>2, RulesSame DEF Announces, Applies
  <1>5. CASE ReceiveInfo
    <2>1. /\ mainPc = "loop" /\ eventPc = "send" /\ eventPc' = "select"
          /\ mainPc' = Handler[sending.action] /\ handling' = [info |-> sending, pids |-> {}]
          /\ UNCHANGED <<rules, networkInfoByID>> /\ sending \in Infos
      BY <1>5 DEF ReceiveInfo, TypeInv, EventShapes
    <2>2. handling'.info = sending
      BY <2>1
    <2>3. /\ mainPc' = "append" <=> sending.action = "create"
          /\ mainPc' = "delete" <=> sending.action = "destroy"
      <3>1. sending.action \in {"create", "destroy", "start", "stop"}
        BY <2>1, InfoKinds
      <3> QED
        BY <2>1, <3>1 DEF Handler
    <2>4. \A s \in Subnet : /\ Applies("append", s)' <=> Announces("create", s)
                            /\ Applies("delete", s)' <=> Announces("destroy", s)
                            /\ ~Announces("create", s)' /\ ~Announces("destroy", s)'
                            /\ ~Applies("append", s) /\ ~Applies("delete", s)
      BY <2>1, <2>2, <2>3 DEF Announces, Applies
    <2>5. \A s \in Subnet : Settled(s)' <=> Settled(s)
      BY <2>1, <2>4 DEF Settled
    <2>6. \A n \in Networks : Told(n)' = Told(n)
      BY <2>1 DEF Told
    <2> QED
      BY <2>5, <2>6 DEF RulesInv
  <1>6. CASE SetupNetworkPortForward /\ ~MainPanics
    <2>1. /\ mainPc = "append" /\ mainPc' = "loop" /\ rules' = rules \cup handling.info.subnets
          /\ UNCHANGED <<eventPc, sending, networkInfoByID>>
      BY <1>6 DEF SetupNetworkPortForward, BackToLoop, eventVars
    <2>2. \A s \in Subnet : Settled(s)' <=> Settled(s)
      BY <2>1 DEF Settled, Announces, Applies
    <2>3. \A n \in Networks : Told(n)' = Told(n)
      BY <2>1 DEF Told
    <2> QED
      BY <2>2, <2>3 DEF RulesInv
  <1>7. CASE SetdownNetworkPortForward
    <2> SUFFICES ASSUME faults' = 0
                 PROVE  RulesInv'
      BY DEF RulesInv
    <2>1. ~Fault
      BY DEF Fault, TypeInv, TypeOK, DockerTypeOK
    <2>2. /\ mainPc = "delete" /\ mainPc' = "loop" /\ rules' = rules \ handling.info.subnets
          /\ UNCHANGED <<eventPc, sending, networkInfoByID>>
      BY <1>7, <2>1 DEF SetdownNetworkPortForward, BackToLoop, eventVars
    <2>3. \A s \in Subnet : Settled(s)' <=> Settled(s)
      BY <2>2 DEF Settled, Announces, Applies
    <2>4. \A n \in Networks : Told(n)' = Told(n)
      BY <2>2 DEF Told
    <2> QED
      BY <2>3, <2>4 DEF RulesInv
  <1>8. ASSUME NEW port \in Ports, NEW pid \in Pids, AddPortProxy(port, pid), ~MainPanics
        PROVE  RulesInv'
    BY <1>2, <1>8 DEF AddPortProxy, eventVars
  <1>9. CASE AddProxyPortPID \/ AllPortsProxied \/ GetProxyPortPIDs \/ DeleteProxyPortPIDs \/ (Kill /\ ~End("panicked"))
    BY <1>2, <1>9 DEF AddProxyPortPID, AllPortsProxied, GetProxyPortPIDs, DeleteProxyPortPIDs, Kill, BackToLoop, eventVars
  <1> QED
    BY <1>1, <1>3, <1>4, <1>5, <1>6, <1>7, <1>8, <1>9 DEF Main

\* Every step keeps the rules invariant.
LEMMA RulesNext == TypeInv /\ NetInv /\ RulesInv /\ [Next]_vars => RulesInv'
  <1> SUFFICES ASSUME TypeInv, NetInv, RulesInv, [Next]_vars
               PROVE  RulesInv'
    OBVIOUS
  <1>1. faults' = 0 => faults = 0 /\ UNCHANGED faults
    BY FaultStep
  <1>2. ASSUME UNCHANGED <<rules, networkInfoByID, eventPc, sending, mainPc, handling>>
        PROVE  RulesInv'
    BY <1>1, <1>2, RulesSame DEF Announces, Applies
  <1>3. CASE DindStep
    <2>1. CASE EventLoop \/ Main
      BY <1>1, <2>1, RulesEventLoop, RulesMain
    <2>2. CASE ConcurrentMapAccess \/ Interrupted
      BY <2>2, RulesEnd DEF ConcurrentMapAccess, Interrupted, Finished
    <2>3. CASE SocatExits \/ Docker
      BY <1>2, <2>3 DEF SocatExits, Docker, dindVars, eventVars, mainVars
    <2> QED
      BY <1>3, <2>1, <2>2, <2>3 DEF DindStep, Dind
  <1>4. CASE RunnerStep \/ JobUsesDocker \/ Terminate \/ UNCHANGED vars
    BY <1>2, <1>4 DEF RunnerStep, JobUsesDocker, Terminate, vars, dindVars, eventVars, mainVars
  <1>5. CASE GracePeriodEnds \/ ProbeFails
    <2>1. End("killed") \/ UNCHANGED dindVars
      BY <1>5 DEF GracePeriodEnds, ProbeFails
    <2>2. CASE UNCHANGED dindVars
      BY <1>2, <2>2 DEF dindVars, eventVars, mainVars
    <2> QED
      BY <2>1, <2>2, RulesEnd DEF Finished
  <1> QED
    BY <1>3, <1>4, <1>5 DEF Next

\* There are no rules initially, and no networks.
LEMMA RulesInit == Init => RulesInv
  <1> SUFFICES ASSUME Init
               PROVE  RulesInv
    OBVIOUS
  <1>1. eventPc = "off" /\ mainPc \in {"new", "absent"} /\ rules = {} /\ networkInfoByID = Each(Networks, None)
    BY DEF Init, DindInit
  <1>2. \A n \in Networks : Told(n) = {}
    BY <1>1 DEF Told, Each
  <1>3. \A s \in Subnet : ~Settled(s)
    BY <1>1 DEF Settled, Announces, Applies
  <1> QED
    BY <1>2, <1>3 DEF RulesInv

\* As many octets as networks, if each network has exactly one and no two have the same
LEMMA OneOctetEach ==
  ASSUME TypeInv, NetInv, NEW up \in SUBSET Networks, \A n \in up : Told(n) # {}
  PROVE  LET used == {o \in Octets : \E n \in up : \E s \in Told(n) : s.octet = o} IN
         Cardinality(used) = Cardinality(up)
  <1> DEFINE used == {o \in Octets : \E n \in up : \E s \in Told(n) : s.octet = o}
             f == [n \in up |-> CHOOSE o \in Octets : \E s \in Told(n) : s.octet = o]
  <1>1. ASSUME NEW n \in up
        PROVE  f[n] \in Octets /\ \E s \in Told(n) : s.octet = f[n]
    <2>1. \E o \in Octets : \E s \in Told(n) : s.octet = o
      BY <1>1, ToldTypes DEF Subnet
    <2> QED
      BY <1>1, <2>1
  <1>2. f \in [up -> used]
    BY <1>1
  <1>3. \A n, m \in up : f[n] = f[m] => n = m
    BY <1>1 DEF NetInv, TableInv, OwnOctet
  <1>4. ASSUME NEW o \in used
        PROVE  \E n \in up : f[n] = o
    <2>1. PICK n \in up : \E s \in Told(n) : s.octet = o
      OBVIOUS
    <2>2. PICK t \in Told(n) : t.octet = f[n]
      BY <1>1
    <2>3. f[n] = o
      BY <2>1, <2>2 DEF NetInv, TableInv, OneSubnet
    <2> QED
      BY <2>3
  <1>5. IsFiniteSet(used)
    <2>1. IsFiniteSet(Octets)
      BY DindBounds, FS_Interval DEF Octets
    <2>2. used \in SUBSET Octets
      OBVIOUS
    <2> HIDE DEF used
    <2> QED
      BY <2>1, <2>2, FS_Subset
  <1> HIDE DEF f, used
  <1>6. f \in Injection(up, used)
    BY <1>2, <1>3 DEF Injection, IsInjective
  <1>7. f \in Surjection(up, used)
    BY <1>2, <1>4 DEF Surjection
  <1>8. Cardinality(up) = Cardinality(used)
    BY <1>5, <1>6, <1>7, FS_Injection
  <1> QED
    BY <1>8 DEF used

\* When both goroutines wait, the rules are those of the networks that are up.
LEMMA RulesSettled ==
  ASSUME TypeInv, NetInv, RulesInv
  PROVE  RulesAtRest
  <1> SUFFICES ASSUME AtRest, faults = 0, ~lost
               PROVE  LET up == {n \in Networks : network[n].phase = "up"} IN
                      /\ {r.subnet : r \in rules} = {network[n].subnet : n \in up}
                      /\ Cardinality({r.octet : r \in rules}) = Cardinality(up)
    BY DEF RulesAtRest
  <1> DEFINE up == {n \in Networks : network[n].phase = "up"}
             used == {o \in Octets : \E n \in up : \E s \in Told(n) : s.octet = o}
  <1>1. dockerd = "up" /\ mainPc = "loop" /\ eventPc = "select" /\ events = <<>>
    BY DEF AtRest, NetInv, TableInv, Life
  <1>2. \A e : ~Queued(e)
    BY <1>1, EmptyQueue
  <1>3. \A n \in Networks : n \in up <=> Told(n) # {}
    BY <1>1, <1>2 DEF NetInv, CalmInv, GoneTold, UpTold, Up
  <1>4. rules \in SUBSET Subnet /\ \A n \in Networks : Told(n) \in SUBSET Subnet
    BY ToldTypes DEF TypeInv, TypeOK, DindTypeOK
  <1>5. \A s \in Subnet : s \in rules <=> \E n \in up : s \in Told(n)
    <2>1. \A s \in Subnet : Settled(s) <=> s \in rules
      BY <1>1 DEF Settled, Announces, Applies
    <2> QED
      BY <1>3, <2>1 DEF RulesInv
  <1>6. \A n \in up : \A s \in Told(n) : s.subnet = network[n].subnet
    BY DEF NetInv, TableInv, OneSubnet, Up
  <1>7. {r.subnet : r \in rules} = {network[n].subnet : n \in up}
    BY <1>3, <1>4, <1>5, <1>6
  <1>8. {r.octet : r \in rules} = used
    BY <1>4, <1>5 DEF Subnet
  <1>9. Cardinality(used) = Cardinality(up)
    BY <1>3, OneOctetEach
  <1> QED
    BY <1>7, <1>8, <1>9

\* When both goroutines wait, the NETMAP rules are those of the networks there are, one octet
\* for each: however the job creates and removes networks meanwhile, and in whatever order the
\* event loop gives octets back and main appends and deletes rules; unless a call failed or an
\* event was missed.
THEOREM RulesFollowNetworks == Spec => []RulesAtRest
  BY TypeInvariant, TableCorrect, RulesInit, RulesNext, RulesSettled, PTL DEF Spec

-----------------------------------------------------------------------------
(* The event loop runs out of octets only with too many networks at once.  *)

\* A set of numbers has a least one.
LEMMA Least ==
  ASSUME NEW S \in SUBSET Nat, S # {}
  PROVE  \E x \in S : \A y \in S : x <= y
  <1>1. PICK x \in S : \A y \in S : ~(<<y, x>> \in OpToRel(<, Nat))
    BY NatLessThanWellFounded, WFMin
  <1>2. \A y \in S : <<y, x>> \in OpToRel(<, Nat) <=> y < x
    BY DEF OpToRel
  <1>3. \A y \in S : ~(y < x)
    BY <1>1, <1>2, Zenon
  <1> QED
    BY <1>3

\* The networks the event loop has registered when it comes to the i-th event, and those that
\* are told before or with that event, without those whose end it has heard of by then
Alive(m, i) ==
    /\ Told(m) # {} \/ \E j \in Nat : j <= i /\ At(j, <<"create", m>>)
    /\ \A j \in Nat : j < i => ~At(j, <<"destroy", m>>)

Crowd(i) == {m \in Networks : Alive(m, i)}

\* Without failures: a network is created before it is removed,
CreateFirst ==
    faults = 0 => \A m \in Networks : \A i, j \in Nat : At(i, <<"create", m>>) /\ At(j, <<"destroy", m>>) => i < j

\* one whose creation is on its way is up, or its end is on its way too,
CreatedUp ==
    faults = 0 /\ dockerd = "up" => \A m \in Networks : Queued(<<"create", m>>) => Up(m) \/ Queued(<<"destroy", m>>)

\* and the networks that the event loop knows at the same time were there at the same time.
KnownTogether ==
    faults = 0 => \A k \in Networks : \A i \in Nat : At(i, <<"create", k>>) => Cardinality(Crowd(i)) <= peak

CrowdInv == CreateFirst /\ CreatedUp /\ KnownTogether

\* A part of a crowd, and a peak that has not become lower
LEMMA CrowdPart ==
  ASSUME TypeInv, peak' \in Nat, peak <= peak', NEW S \in SUBSET Networks, NEW T \in SUBSET S, Cardinality(S) <= peak
  PROVE  Cardinality(T) <= peak'
  <1>1. IsFiniteSet(S)
    BY DockerBounds, FS_Subset
  <1>2. Cardinality(T) <= Cardinality(S) /\ Cardinality(S) \in Nat /\ Cardinality(T) \in Nat
    BY <1>1, FS_Subset, FS_CardinalityType
  <1>3. peak \in Nat
    BY DEF TypeInv, TypeOK, DockerTypeOK
  <1> QED
    BY <1>2, <1>3

\* Other events than those that are told stay where they are.
LEMMA AtEmit ==
  ASSUME TypeInv, NEW event \in Events, NEW es \in {<<event>>, <<event, event>>}, Emit(es),
         NEW e \in Events, e # event
  PROVE  \A i \in Nat : At(i, e)' <=> At(i, e)
  <1>1. CASE subscribed
    <2>1. \A i \in Nat : At(i, e) => At(i, e)'
      BY <1>1, QueueEmit, TypeParts
    <2>2. \A i \in Nat : At(i, e)' => At(i, e)
      BY <1>1, QueueEmit, TypeParts
    <2> QED
      BY <2>1, <2>2
  <1>2. CASE ~subscribed
    <2>1. UNCHANGED events
      BY <1>2, QueueEmit, TypeParts
    <2> QED
      BY <2>1 DEF At
  <1> QED
    BY <1>1, <1>2

\* The first event is received: nobody joins a crowd.
LEMMA CrowdReceive ==
  ASSUME TypeInv, CrowdInv, NEW event, Receive(event), faults' = 0 => faults = 0,
         \A m \in Networks : Told(m)' # {} => Told(m) # {} \/ event = <<"create", m>>,
         \A m \in Networks : event = <<"destroy", m>> => Told(m)' = {}
  PROVE  CrowdInv'
  <1>1. UNCHANGED <<dockerd, network, peak>>
    BY DEF Receive
  <1>2. At(1, event) /\ event \in Events
    BY QueueReceive, TypeParts
  <1>3. ASSUME NEW m \in Networks, NEW i \in Nat, At(i, <<"create", m>>)'
        PROVE  i + 1 \in Nat /\ At(i + 1, <<"create", m>>)
    <2>1. <<"create", m>> \in Events
      BY EventNames
    <2>2. At(i + 1, <<"create", m>>)
      BY <1>3, <2>1, QueueReceive, TypeParts
    <2> QED
      BY <2>2
  <1>3d. \A m \in Networks : \A i \in Nat : At(i, <<"destroy", m>>)' <=> i >= 1 /\ At(i + 1, <<"destroy", m>>)
    BY QueueReceive, TypeParts, EventNames
  <1>4. \A i \in Nat : \A e \in Events : At(i, e) => i >= 1
    <2>1. Len(events) \in Nat
      BY LenProperties DEF TypeInv, TypeOK, DockerTypeOK
    <2> QED
      BY <2>1 DEF At
  <1>5. \A m \in Networks : Up(m)' <=> Up(m)
    BY <1>1 DEF Up
  <1>6. CreateFirst'
    <2> SUFFICES ASSUME faults' = 0, NEW m \in Networks, NEW i \in Nat, NEW j \in Nat,
                        At(i, <<"create", m>>)', At(j, <<"destroy", m>>)'
                 PROVE  i < j
      BY DEF CreateFirst
    <2>1. At(i + 1, <<"create", m>>) /\ At(j + 1, <<"destroy", m>>) /\ i + 1 \in Nat /\ j + 1 \in Nat
      BY <1>3, <1>3d
    <2>2. i + 1 < j + 1
      BY <2>1 DEF CrowdInv, CreateFirst
    <2> QED
      BY <2>2
  <1>7. ASSUME faults = 0, NEW m \in Networks, event = <<"destroy", m>>, Queued(<<"create", m>>)
        PROVE  FALSE
    <2>1. PICK i \in Nat : At(i, <<"create", m>>)
      BY <1>7 DEF Queued
    <2>2. i >= 1
      BY <1>4, <2>1, EventNames
    <2>3. At(1, <<"destroy", m>>)
      BY <1>2, <1>7
    <2>4. i < 1
      BY <1>7, <2>1, <2>3 DEF CrowdInv, CreateFirst
    <2> QED
      BY <2>2, <2>4
  <1>8. CreatedUp'
    <2> SUFFICES ASSUME faults' = 0, dockerd' = "up", NEW m \in Networks, Queued(<<"create", m>>)', ~Up(m)'
                 PROVE  Queued(<<"destroy", m>>)'
      BY DEF CreatedUp
    <2>1. Queued(<<"create", m>>)
      BY QueueReceive, TypeParts, EventNames
    <2>2. Queued(<<"destroy", m>>)
      BY <1>1, <1>5, <2>1 DEF CrowdInv, CreatedUp
    <2>3. event # <<"destroy", m>>
      BY <1>7, <2>1
    <2> QED
      BY <2>2, <2>3, QueueReceive, TypeParts, EventNames
  <1>9. KnownTogether'
    <2> SUFFICES ASSUME faults' = 0, NEW k \in Networks, NEW i \in Nat, At(i, <<"create", k>>)'
                 PROVE  Cardinality(Crowd(i)') <= peak'
      BY DEF KnownTogether
    <2>1. i + 1 \in Nat /\ At(i + 1, <<"create", k>>)
      BY <1>3
    <2>2. Cardinality(Crowd(i + 1)) <= peak
      BY <2>1 DEF CrowdInv, KnownTogether
    <2>3. ASSUME NEW m \in Networks, Alive(m, i)'
          PROVE  Alive(m, i + 1)
      <3>1. Told(m) # {} \/ \E j \in Nat : j <= i + 1 /\ At(j, <<"create", m>>)
        <4>1. CASE Told(m)' # {}
          <5>1. 1 \in Nat /\ 1 <= i + 1
            OBVIOUS
          <5> QED
            BY <1>2, <4>1, <5>1
        <4>2. CASE \E j \in Nat : j <= i /\ At(j, <<"create", m>>)'
          <5>1. PICK j \in Nat : j <= i /\ At(j, <<"create", m>>)'
            BY <4>2
          <5>2. j + 1 \in Nat /\ j + 1 <= i + 1 /\ At(j + 1, <<"create", m>>)
            BY <1>3, <5>1
          <5> QED
            BY <5>2
        <4> QED
          BY <2>3, <4>1, <4>2 DEF Alive
      <3>2. event # <<"destroy", m>>
        <4> SUFFICES ASSUME event = <<"destroy", m>>
                     PROVE  FALSE
          OBVIOUS
        <4>1. Told(m)' = {}
          OBVIOUS
        <4>2. PICK j \in Nat : At(j, <<"create", m>>)'
          BY <2>3, <4>1 DEF Alive
        <4>3. Queued(<<"create", m>>)
          BY <1>3, <4>2 DEF Queued
        <4> QED
          BY <1>7, <4>3
      <3>3. ASSUME NEW j \in Nat, j < i + 1, At(j, <<"destroy", m>>)
            PROVE  FALSE
        <4>1. j >= 1
          BY <1>4, <3>3, EventNames
        <4>2. j # 1
          BY <1>2, <3>2, <3>3 DEF At
        <4>3. j - 1 \in Nat /\ j - 1 >= 1 /\ (j - 1) + 1 = j /\ j - 1 < i
          BY <3>3, <4>1, <4>2
        <4>4. At(j - 1, <<"destroy", m>>)'
          BY <1>3d, <3>3, <4>3
        <4> QED
          BY <2>3, <4>3, <4>4 DEF Alive
      <3> QED
        BY <3>1, <3>3 DEF Alive
    <2>4. Crowd(i)' \in SUBSET Crowd(i + 1) /\ Crowd(i + 1) \in SUBSET Networks
      BY <2>3 DEF Crowd
    <2>5. peak' \in Nat /\ peak <= peak'
      BY <1>1 DEF TypeInv, TypeOK, DockerTypeOK
    <2> QED
      BY <2>2, <2>4, <2>5, CrowdPart
  <1> QED
    BY <1>6, <1>8, <1>9 DEF CrowdInv

\* Other events than creations are told: they come last, and nobody joins a crowd.
LEMMA CrowdEmit ==
  ASSUME TypeInv, NetInv, CrowdInv, NEW event \in Events, NEW es \in {<<event>>, <<event, event>>}, Emit(es),
         \A m \in Networks : event # <<"create", m>>,
         \A m \in Networks : Up(m) => Up(m)' \/ event = <<"destroy", m>>,
         UNCHANGED <<networkInfoByID, peak>>
  PROVE  CrowdInv'
  <1>1. UNCHANGED <<dockerd, subscribed, faults>>
    BY QueueEmit, TypeParts
  <1>2. \A m \in Networks : Told(m)' = Told(m)
    BY DEF Told
  <1>3. CASE ~subscribed
    <2>1. events' = <<>>
      BY <1>3, QueueEmit, TypeParts DEF NetInv, TableInv, Life
    <2>2. Len(events') = 0
      BY <2>1, EmptySeq
    <2>3. \A e : ~Queued(e)' /\ \A i \in Nat : ~At(i, e)'
      BY <2>2 DEF Queued, At
    <2> QED
      BY <2>3 DEF CrowdInv, CreateFirst, CreatedUp, KnownTogether
  <1>4. CASE subscribed
    <2>1. ASSUME NEW m \in Networks, NEW i \in Nat, At(i, <<"create", m>>)'
          PROVE  At(i, <<"create", m>>) /\ i <= Len(events)
      <3>1. <<"create", m>> \in Events
        BY EventNames
      <3>2. At(i, <<"create", m>>)
        BY <2>1, <3>1, AtEmit
      <3> QED
        BY <3>2 DEF At
    <2>2. \A m \in Networks : \A i \in Nat : At(i, <<"destroy", m>>) => At(i, <<"destroy", m>>)'
      BY <1>4, QueueEmit, TypeParts, EventNames
    <2>3. \A m \in Networks : \A i \in Nat : At(i, <<"destroy", m>>)' => At(i, <<"destroy", m>>) \/ i > Len(events)
      BY <1>4, QueueEmit, TypeParts, EventNames
    <2>4. Len(events) \in Nat
      BY LenProperties DEF TypeInv, TypeOK, DockerTypeOK
    <2>5. CreateFirst'
      <3> SUFFICES ASSUME faults' = 0, NEW m \in Networks, NEW i \in Nat, NEW j \in Nat,
                          At(i, <<"create", m>>)', At(j, <<"destroy", m>>)'
                   PROVE  i < j
        BY DEF CreateFirst
      <3>1. At(i, <<"create", m>>) /\ i <= Len(events)
        BY <2>1
      <3>2. At(j, <<"destroy", m>>) \/ j > Len(events)
        BY <2>3
      <3>3. CASE At(j, <<"destroy", m>>)
        BY <1>1, <3>1, <3>3 DEF CrowdInv, CreateFirst
      <3> QED
        BY <2>4, <3>1, <3>2, <3>3
    <2>6. CreatedUp'
      <3> SUFFICES ASSUME faults' = 0, dockerd' = "up", NEW m \in Networks, Queued(<<"create", m>>)', ~Up(m)'
                   PROVE  Queued(<<"destroy", m>>)'
        BY DEF CreatedUp
      <3>1. Queued(<<"create", m>>)
        BY <2>1 DEF Queued
      <3>2. Up(m) \/ Queued(<<"destroy", m>>)
        BY <1>1, <3>1 DEF CrowdInv, CreatedUp
      <3>3. CASE Queued(<<"destroy", m>>)
        BY <2>2, <3>3 DEF Queued
      <3>4. CASE event = <<"destroy", m>>
        BY <1>4, <3>4, QueueEmit, TypeParts
      <3> QED
        BY <3>2, <3>3, <3>4
    <2>7. KnownTogether'
      <3> SUFFICES ASSUME faults' = 0, NEW k \in Networks, NEW i \in Nat, At(i, <<"create", k>>)'
                   PROVE  Cardinality(Crowd(i)') <= peak'
        BY DEF KnownTogether
      <3>1. Cardinality(Crowd(i)) <= peak
        BY <1>1, <2>1 DEF CrowdInv, KnownTogether
      <3>2. ASSUME NEW m \in Networks, Alive(m, i)'
            PROVE  Alive(m, i)
        <4>1. Told(m) # {} \/ \E j \in Nat : j <= i /\ At(j, <<"create", m>>)
          BY <1>2, <2>1, <3>2 DEF Alive
        <4>2. \A j \in Nat : j < i => ~At(j, <<"destroy", m>>)
          BY <2>2, <3>2 DEF Alive
        <4> QED
          BY <4>1, <4>2 DEF Alive
      <3>3. Crowd(i)' \in SUBSET Crowd(i) /\ Crowd(i) \in SUBSET Networks
        BY <3>2 DEF Crowd
      <3>4. peak' \in Nat /\ peak <= peak'
        BY DEF TypeInv, TypeOK, DockerTypeOK
      <3> QED
        BY <3>1, <3>3, <3>4, CrowdPart
    <2> QED
      BY <2>5, <2>6, <2>7 DEF CrowdInv
  <1> QED
    BY <1>3, <1>4

\* A network is created and told: those the event loop will know when it comes to it are up now.
LEMMA CrowdCreate ==
  ASSUME TypeInv, NetInv, CrowdInv, NEW k \in Networks, CreateNetwork(k), dockerd = "up", peak' \in Nat,
         UNCHANGED <<networkInfoByID, usedHostSecondOctet>>
  PROVE  CrowdInv'
  <1> DEFINE up == {k} \cup {m \in Networks : network[m].phase = "up"}
  <1>1. Emit(<<<<"create", k>>>>) /\ network[k].phase = "new" /\ peak' = IF Cardinality(up) > peak THEN Cardinality(up) ELSE peak
    <2>1. k >= k
      BY DockerBounds
    <2> QED
      BY <2>1 DEF CreateNetwork
  <1>2. \A m \in Networks : Up(m) => Up(m)'
    <2>1. PICK s0 : network' = [network EXCEPT ![k] = [phase |-> "up", subnet |-> s0]]
      BY DEF CreateNetwork
    <2> QED
      BY <2>1 DEF Up, TypeInv, TypeOK, DockerTypeOK
  <1>3. Up(k)'
    <2>1. PICK s0 : network' = [network EXCEPT ![k] = [phase |-> "up", subnet |-> s0]]
      BY DEF CreateNetwork
    <2>2. network'[k] = [phase |-> "up", subnet |-> s0]
      BY <2>1 DEF TypeInv, TypeOK, DockerTypeOK
    <2> QED
      BY <2>2 DEF Up
  <1>4. UNCHANGED <<dockerd, subscribed, faults>>
    BY <1>1, QueueEmit, TypeParts, EventNames
  <1>5. \A m \in Networks : Told(m)' = Told(m)
    BY DEF Told
  <1>6. ASSUME NEW m \in Networks
        PROVE  /\ \A i \in Nat : At(i, <<"destroy", m>>)' <=> At(i, <<"destroy", m>>)
               /\ m # k => \A i \in Nat : At(i, <<"create", m>>)' <=> At(i, <<"create", m>>)
    <2>1. /\ <<"destroy", m>> \in Events /\ <<"create", m>> \in Events /\ <<"create", k>> \in Events
          /\ <<"destroy", m>> # <<"create", k>> /\ (m # k => <<"create", m>> # <<"create", k>>)
      BY <1>6, EventNames
    <2> QED
      BY <1>1, <2>1, AtEmit
  <1>7. ~Queued(<<"create", k>>) /\ ~Queued(<<"destroy", k>>) /\ Told(k) = {}
    BY <1>1 DEF NetInv, HistInv, NewUnknown, DestroyedGone
  <1>8. Len(events) \in Nat /\ \A i \in Nat : \A e : At(i, e) => i <= Len(events)
    <2>1. Len(events) \in Nat
      BY LenProperties DEF TypeInv, TypeOK, DockerTypeOK
    <2> QED
      BY <2>1 DEF At
  <1>9. \A i \in Nat : At(i, <<"create", k>>)' => i > Len(events)
    <2>1. ASSUME NEW i \in Nat, At(i, <<"create", k>>)'
          PROVE  i > Len(events)
      <3>1. ~At(i, <<"create", k>>) /\ <<"create", k>> \in Events
        BY <1>7, EventNames DEF Queued
      <3>2. subscribed
        BY <1>1, <2>1, <3>1, QueueEmit, TypeParts DEF At
      <3> QED
        BY <1>1, <2>1, <3>1, <3>2, QueueEmit, TypeParts
    <2> QED
      BY <2>1
  <1>10. CreateFirst'
    <2> SUFFICES ASSUME faults' = 0, NEW m \in Networks, NEW i \in Nat, NEW j \in Nat,
                        At(i, <<"create", m>>)', At(j, <<"destroy", m>>)'
                 PROVE  i < j
      BY DEF CreateFirst
    <2>1. At(j, <<"destroy", m>>)
      BY <1>6
    <2>2. m # k
      BY <1>7, <2>1 DEF Queued
    <2> QED
      BY <1>4, <1>6, <2>1, <2>2 DEF CrowdInv, CreateFirst
  <1>11. CreatedUp'
    <2> SUFFICES ASSUME faults' = 0, dockerd' = "up", NEW m \in Networks, Queued(<<"create", m>>)', ~Up(m)'
                 PROVE  Queued(<<"destroy", m>>)'
      BY DEF CreatedUp
    <2>1. m # k
      BY <1>3
    <2>2. Queued(<<"create", m>>)
      BY <1>6, <2>1 DEF Queued
    <2>3. Queued(<<"destroy", m>>)
      BY <1>2, <1>4, <2>2 DEF CrowdInv, CreatedUp
    <2> QED
      BY <1>6, <2>3 DEF Queued
  <1>12. KnownTogether'
    <2> SUFFICES ASSUME faults' = 0, NEW n \in Networks, NEW i \in Nat, At(i, <<"create", n>>)'
                 PROVE  Cardinality(Crowd(i)') <= peak'
      BY DEF KnownTogether
    <2>1. up \in SUBSET Networks /\ Cardinality(up) \in Nat
      <3>1. up \in SUBSET Networks
        OBVIOUS
      <3> HIDE DEF up
      <3> QED
        BY <3>1, DockerBounds, FS_Subset, FS_CardinalityType
    <2>2. peak \in Nat /\ peak <= peak' /\ Cardinality(up) <= peak'
      <3>1. peak \in Nat
        BY DEF TypeInv, TypeOK, DockerTypeOK
      <3> HIDE DEF up
      <3> QED
        BY <1>1, <2>1, <3>1
    <2>3. CASE n = k
      <3>1. i > Len(events)
        BY <1>9, <2>3
      <3>2. ASSUME NEW m \in Networks, Alive(m, i)'
            PROVE  m \in up
        <4>1. ~Queued(<<"destroy", m>>)
          <5> SUFFICES ASSUME NEW j \in Nat, At(j, <<"destroy", m>>)
                       PROVE  FALSE
            BY DEF Queued
          <5>1. j < i
            BY <1>8, <3>1
          <5>2. At(j, <<"destroy", m>>)'
            BY <1>6
          <5> QED
            BY <3>2, <5>1, <5>2 DEF Alive
        <4>2. m = k \/ Told(m) # {} \/ Queued(<<"create", m>>)
          BY <1>5, <1>6, <3>2 DEF Alive, Queued
        <4>3. m = k \/ Up(m)
          BY <1>4, <4>1, <4>2 DEF CrowdInv, CreatedUp, NetInv, CalmInv, GoneTold
        <4> QED
          BY <4>3 DEF Up
      <3>3. Crowd(i)' \in SUBSET up
        BY <3>2 DEF Crowd
      <3> HIDE DEF up
      <3>4. IsFiniteSet(up)
        BY <2>1, DockerBounds, FS_Subset
      <3>5. Cardinality(Crowd(i)') <= Cardinality(up) /\ Cardinality(Crowd(i)') \in Nat
        BY <3>3, <3>4, FS_Subset, FS_CardinalityType
      <3> QED
        BY <2>1, <2>2, <3>5
    <2>4. CASE n # k
      <3>1. At(i, <<"create", n>>) /\ i <= Len(events)
        BY <1>6, <1>8, <2>4
      <3>2. Cardinality(Crowd(i)) <= peak
        BY <1>4, <3>1 DEF CrowdInv, KnownTogether
      <3>3. ASSUME NEW m \in Networks, Alive(m, i)'
            PROVE  Alive(m, i)
        <4>1. \A j \in Nat : j < i => ~At(j, <<"destroy", m>>)
          BY <1>6, <3>3 DEF Alive
        <4>2. Told(m) # {} \/ \E j \in Nat : j <= i /\ At(j, <<"create", m>>)
          <5>1. CASE Told(m)' # {}
            BY <1>5, <5>1
          <5>2. CASE \E j \in Nat : j <= i /\ At(j, <<"create", m>>)'
            <6>1. PICK j \in Nat : j <= i /\ At(j, <<"create", m>>)'
              BY <5>2
            <6>2. m # k
              BY <1>8, <1>9, <3>1, <6>1
            <6>3. At(j, <<"create", m>>)
              BY <1>6, <6>1, <6>2
            <6> QED
              BY <6>1, <6>3
          <5> QED
            BY <3>3, <5>1, <5>2 DEF Alive
        <4> QED
          BY <4>1, <4>2 DEF Alive
      <3>4. Crowd(i)' \in SUBSET Crowd(i) /\ Crowd(i) \in SUBSET Networks
        BY <3>3 DEF Crowd
      <3> QED
        BY <2>2, <3>2, <3>4, CrowdPart
    <2> QED
      BY <2>3, <2>4
  <1> QED
    BY <1>10, <1>11, <1>12 DEF CrowdInv

\* Nothing is on its way initially.
LEMMA CrowdInit == Init => CrowdInv
  <1> SUFFICES ASSUME Init
               PROVE  CrowdInv
    OBVIOUS
  <1>1. events = <<>>
    BY DEF Init, DockerInit
  <1>2. \A e : ~Queued(e) /\ \A i \in Nat : ~At(i, e)
    BY <1>1, EmptyQueue
  <1> QED
    BY <1>2 DEF CrowdInv, CreateFirst, CreatedUp, KnownTogether

\* A step that leaves nothing on its way
LEMMA CrowdEmpty ==
  ASSUME events' = <<>>
  PROVE  CrowdInv'
  <1>1. Len(events') = 0
    BY EmptySeq
  <1>2. \A e : ~Queued(e)' /\ \A i \in Nat : ~At(i, e)'
    BY <1>1 DEF Queued, At
  <1> QED
    BY <1>2 DEF CrowdInv, CreateFirst, CreatedUp, KnownTogether

\* Every step keeps the invariant.
LEMMA CrowdNext == TypeInv /\ JobInv /\ NetInv /\ CrowdInv /\ [Next]_vars => CrowdInv'
  <1> SUFFICES ASSUME TypeInv, JobInv, NetInv, CrowdInv, [Next]_vars
               PROVE  CrowdInv'
    OBVIOUS
  <1>1. faults' = 0 => faults = 0
    BY FaultStep
  <1>2. CASE Still
    <2>1. UNCHANGED <<network, events, networkInfoByID, peak>>
      BY <1>2 DEF Still
    <2>2. CASE events = <<>>
      BY <2>1, <2>2, CrowdEmpty
    <2>3. CASE events # <<>>
      <3>1. UNCHANGED dockerd
        BY <1>2, <2>3 DEF Still, DaemonStarts, NetInv, TableInv, Life
      <3>2. \A m \in Networks : (Up(m)' <=> Up(m)) /\ Told(m)' = Told(m)
        BY <2>1 DEF Up, Told
      <3>3. \A i \in Nat : \A e : At(i, e)' <=> At(i, e)
        BY <2>1 DEF At
      <3>4. \A e : Queued(e)' <=> Queued(e)
        BY <3>3 DEF Queued
      <3>5. \A i \in Nat : Crowd(i)' = Crowd(i)
        BY <3>2, <3>3 DEF Crowd, Alive
      <3> QED
        BY <1>1, <2>1, <3>1, <3>2, <3>3, <3>4, <3>5 DEF CrowdInv, CreateFirst, CreatedUp, KnownTogether
    <2> QED
      BY <2>2, <2>3
  <1>3. CASE Gone \/ Breaks
    BY <1>3, CrowdEmpty DEF Gone, DockerdGone, Breaks, StreamBreaks
  <1>4. ASSUME NEW k \in Networks, NetworkCreated(k)
        PROVE  CrowdInv'
    <2>1. Receive(<<"create", k>>)
      BY <1>4 DEF NetworkCreated
    <2>2. \A m \in Networks : m # k => networkInfoByID'[m] = networkInfoByID[m]
      BY <1>4 DEF NetworkCreated, TypeInv, TypeOK, DindTypeOK
    <2>3. \A m \in Networks : Told(m)' # {} => Told(m) # {} \/ <<"create", k>> = <<"create", m>>
      BY <2>2 DEF Told
    <2>4. \A m \in Networks : <<"create", k>> # <<"destroy", m>>
      BY EventNames
    <2> QED
      BY <1>1, <2>1, <2>3, <2>4, CrowdReceive
  <1>5. ASSUME NEW k \in Networks, NetworkDestroyed(k)
        PROVE  CrowdInv'
    <2>1. Receive(<<"destroy", k>>)
      BY <1>5 DEF NetworkDestroyed
    <2>2. \A m \in Networks : Told(m)' = IF m = k THEN {} ELSE Told(m)
      <3>1. CASE networkInfoByID[k] = None /\ UNCHANGED eventVars
        BY <3>1 DEF Told, eventVars
      <3>2. CASE networkInfoByID' = [networkInfoByID EXCEPT ![k] = None]
        BY <3>2 DEF Told, TypeInv, TypeOK, DindTypeOK
      <3> QED
        BY <1>5, <3>1, <3>2 DEF NetworkDestroyed
    <2>3. \A m \in Networks : Told(m)' # {} => Told(m) # {}
      BY <2>2
    <2>4. \A m \in Networks : <<"destroy", k>> = <<"destroy", m>> => Told(m)' = {}
      BY <2>2, EventNames
    <2> QED
      BY <1>1, <2>1, <2>3, <2>4, CrowdReceive
  <1>6. ASSUME NEW c \in Containers, HearsContainer(c)
        PROVE  CrowdInv'
    <2>1. \A m \in Networks : Told(m)' = Told(m)
      BY <1>6 DEF HearsContainer, Told
    <2>2. PICK e \in {<<"start", c>>, <<"stop", c>>} : Receive(e)
      BY <1>6 DEF HearsContainer, ContainerStarted, ContainerStopped
    <2>3. \A m \in Networks : e # <<"destroy", m>>
      BY EventNames
    <2> QED
      BY <1>1, <2>1, <2>2, <2>3, CrowdReceive
  <1>7. CASE JobAction
    <2>1. dockerd = "up" /\ UNCHANGED <<networkInfoByID, usedHostSecondOctet>>
      BY <1>7 DEF JobAction
    <2>2. ASSUME NEW k \in Networks, CreateNetwork(k)
          PROVE  CrowdInv'
      <3>1. peak' \in Nat
        BY TypeNext DEF TypeInv, TypeOK, DockerTypeOK
      <3> QED
        BY <2>1, <2>2, <3>1, CrowdCreate
    <2>3. ASSUME NEW k \in Networks, RemoveNetwork(k)
          PROVE  CrowdInv'
      <3>1. Emit(<<<<"destroy", k>>>>) /\ UNCHANGED peak
        BY <2>3 DEF RemoveNetwork
      <3>2. \A m \in Networks : Up(m) => Up(m)' \/ <<"destroy", k>> = <<"destroy", m>>
        BY <2>3 DEF RemoveNetwork, Up, TypeInv, TypeOK, DockerTypeOK
      <3>3. <<"destroy", k>> \in Events /\ \A m \in Networks : <<"destroy", k>> # <<"create", m>>
        BY EventNames
      <3> QED
        BY <2>1, <3>1, <3>2, <3>3, CrowdEmit
    <2>4. ASSUME NEW c \in Containers, NEW e \in {<<"start", c>>, <<"stop", c>>},
                 NEW es \in {<<e>>, <<e, e>>}, Emit(es), UNCHANGED <<network, peak>>
          PROVE  CrowdInv'
      <3>1. e \in Events /\ \A m \in Networks : e # <<"create", m>>
        BY EventNames
      <3>2. \A m \in Networks : Up(m) => Up(m)'
        BY <2>4 DEF Up
      <3> QED
        BY <2>1, <2>4, <3>1, <3>2, CrowdEmit
    <2>5. ASSUME NEW c \in Containers, StopContainer(c)
          PROVE  CrowdInv'
      <3>1. UNCHANGED <<network, peak>> /\ (Emit(<<<<"stop", c>>>>) \/ Emit(<<<<"stop", c>>, <<"stop", c>>>>))
        BY <2>5 DEF StopContainer
      <3> QED
        BY <2>4, <3>1
    <2>6. ASSUME NEW c \in Containers, NEW n \in Networks, StartContainer(c, n)
          PROVE  CrowdInv'
      <3>1. UNCHANGED <<network, peak>> /\ Emit(<<<<"start", c>>>>)
        BY <2>6 DEF StartContainer
      <3> QED
        BY <2>4, <3>1
    <2> QED
      BY <1>7, <2>2, <2>3, <2>5, <2>6 DEF JobAction, UseDocker
  <1> QED
    BY <1>2, <1>3, <1>4, <1>5, <1>6, <1>7, StepKinds

\* An octet is left for the network that is told next, unless there have been more networks at
\* once than octets: each octet in use is that of a network the event loop knows together
\* with this one.
LEMMA OctetLeft ==
  ASSUME TypeInv, NetInv, CrowdInv, faults = 0, NEW k \in Networks, At(1, <<"create", k>>), peak <= MaxOctet
  PROVE  FirstAvailable # {}
  <1>1. Told(k) = {}
    BY DEF NetInv, HistInv, CreatedOnce, Queued
  <1>2. \A j \in Nat : j < 1 => \A e : ~At(j, e)
    <2>1. Len(events) \in Nat
      BY LenProperties DEF TypeInv, TypeOK, DockerTypeOK
    <2> QED
      BY <2>1 DEF At
  <1>3. k \in Crowd(1) /\ \A m \in Networks : Told(m) # {} => m \in Crowd(1)
    <2>1. 1 \in Nat /\ 1 <= 1
      OBVIOUS
    <2> QED
      BY <1>2, <2>1 DEF Crowd, Alive
  <1>4. Cardinality(Crowd(1)) <= peak
    <2>1. 1 \in Nat
      OBVIOUS
    <2> QED
      BY <2>1 DEF CrowdInv, KnownTogether
  <1> DEFINE rest == Crowd(1) \ {k}
             f == [o \in usedHostSecondOctet |-> CHOOSE n \in Networks : \E s \in Told(n) : s.octet = o]
  <1>5. ASSUME NEW o \in usedHostSecondOctet
        PROVE  f[o] \in Networks /\ \E s \in Told(f[o]) : s.octet = o
    <2>1. o \in Octets
      BY DEF TypeInv, TypeOK, DindTypeOK
    <2>2. \E n \in Networks : \E s \in Told(n) : s.octet = o
      BY <2>1 DEF NetInv, TableInv, OctetsUsed
    <2> QED
      BY <2>2
  <1> HIDE DEF f
  <1>6. ASSUME NEW o \in usedHostSecondOctet
        PROVE  f[o] \in rest
    BY <1>1, <1>3, <1>5
  <1>7. f \in [usedHostSecondOctet -> rest]
    BY <1>6 DEF f
  <1>8. ASSUME NEW o \in usedHostSecondOctet, NEW p \in usedHostSecondOctet, f[o] = f[p]
        PROVE  o = p
    <2>1. PICK s \in Told(f[o]) : s.octet = o
      BY <1>5
    <2>2. PICK t \in Told(f[p]) : t.octet = p
      BY <1>5
    <2>3. s = t
      BY <1>5, <1>8, <2>1, <2>2 DEF NetInv, TableInv, OneSubnet
    <2> QED
      BY <2>1, <2>2, <2>3
  <1>9. IsFiniteSet(Crowd(1))
    <2>1. Crowd(1) \in SUBSET Networks
      BY DEF Crowd
    <2> QED
      BY <2>1, DockerBounds, FS_Subset
  <1>10. IsFiniteSet(rest) /\ Cardinality(rest) = Cardinality(Crowd(1)) - 1 /\ Cardinality(Crowd(1)) \in Nat
    BY <1>3, <1>9, FS_RemoveElement, FS_CardinalityType
  <1>11. f \in Injection(usedHostSecondOctet, rest)
    BY <1>7, <1>8 DEF Injection, IsInjective
  <1> HIDE DEF rest
  <1>12. Cardinality(usedHostSecondOctet) <= Cardinality(rest) /\ IsFiniteSet(usedHostSecondOctet)
    BY <1>10, <1>11, FS_Injection
  <1>13. Cardinality(Octets) = MaxOctet
    BY DindBounds, FS_Interval DEF Octets
  <1>14. usedHostSecondOctet # Octets
    <2>1. Cardinality(usedHostSecondOctet) \in Nat /\ peak \in Nat
      BY <1>12, FS_CardinalityType DEF TypeInv, TypeOK, DockerTypeOK
    <2> QED
      BY <1>4, <1>10, <1>12, <1>13, <2>1, DindBounds
  <1>15. Octets \ usedHostSecondOctet # {} /\ Octets \ usedHostSecondOctet \in SUBSET Nat
    <2>1. usedHostSecondOctet \in SUBSET Octets
      BY DEF TypeInv, TypeOK, DindTypeOK
    <2>2. Octets \in SUBSET Nat
      BY DindBounds DEF Octets
    <2> QED
      BY <1>14, <2>1, <2>2
  <1>16. \E o \in Octets \ usedHostSecondOctet : \A p \in Octets \ usedHostSecondOctet : o <= p
    BY <1>15, Least
  <1> QED
    BY <1>16 DEF FirstAvailable

=============================================================================
