--------------------------- MODULE PodProxyProofs ---------------------------
(***************************************************************************)
(* Proofs about Pod, the containers: the proxies dind runs are those of    *)
(* the containers there are, and it panics only for one of the causes      *)
(* Pod names.                                                              *)
(***************************************************************************)
EXTENDS PodNetworkProofs

-----------------------------------------------------------------------------
(* The containers, and what is told of them.                               *)

StartQueued(c) == Queued(<<"start", c>>)
StopQueued(c)  == Queued(<<"stop", c>>)

\* A container that was never started has nothing, and nothing is told of it.
NeverStarted(c) ==
    container[c].starts = 0 =>
        /\ ~container[c].running /\ container[c].network = None
        /\ ~StartQueued(c) /\ ~StopQueued(c)

\* A container that runs has a network that is up.
OnNetwork(c) ==
    dockerd = "up" =>
        /\ container[c].network # None => network[container[c].network].phase # "new"
        /\ container[c].running => container[c].network # None /\ Up(container[c].network)

\* What is told of a container that was started once: its start once, after its network and
\* before its stops; and no stop while it runs.
ToldInOrder(c) ==
    container[c].starts <= 1 =>
        /\ \A i, j \in Nat : At(i, <<"start", c>>) /\ At(j, <<"start", c>>) => i = j
        /\ \A i, j \in Nat : At(i, <<"start", c>>) /\ At(j, <<"stop", c>>) => i < j
        /\ \A n \in Networks : \A i, j \in Nat :
              n = container[c].network /\ At(i, <<"start", c>>) /\ At(j, <<"create", n>>) => j < i
        /\ container[c].running => ~StopQueued(c)

HistoryOf(c) == NeverStarted(c) /\ OnNetwork(c) /\ ToldInOrder(c)
HistoryInv   == \A c \in Containers : HistoryOf(c)

\* A step that does not touch the container, and tells nothing of it or of its network.
LEMMA HistorySame ==
  ASSUME NEW c \in Containers, HistoryOf(c), NEW k \in Nat, OnNetwork(c)',
         container'[c].starts = container[c].starts,
         container'[c].running = container[c].running \/ container'[c].running = FALSE,
         container'[c].network = container[c].network \/ container'[c].network = None,
         \A i \in Nat : At(i, <<"start", c>>)' => At(i + k, <<"start", c>>),
         \A i \in Nat : At(i, <<"stop", c>>)' => At(i + k, <<"stop", c>>),
         \A n \in Networks : n = container[c].network =>
            \A i \in Nat : At(i, <<"create", n>>)' => At(i + k, <<"create", n>>)
  PROVE  HistoryOf(c)'
  <1>1. \A i \in Nat : i + k \in Nat
    OBVIOUS
  <1>2. (StartQueued(c)' => StartQueued(c)) /\ (StopQueued(c)' => StopQueued(c))
    BY <1>1 DEF StartQueued, StopQueued, Queued
  <1>3. NeverStarted(c)'
    BY <1>2 DEF HistoryOf, NeverStarted
  <1>4. ToldInOrder(c)'
    <2> SUFFICES ASSUME container[c].starts <= 1
                 PROVE  ToldInOrder(c)'
      BY DEF ToldInOrder
    <2>1. \A i, j \in Nat : At(i, <<"start", c>>)' /\ At(j, <<"start", c>>)' => i = j
      BY <1>1 DEF HistoryOf, ToldInOrder
    <2>2. \A i, j \in Nat : At(i, <<"start", c>>)' /\ At(j, <<"stop", c>>)' => i < j
      BY <1>1 DEF HistoryOf, ToldInOrder
    <2>3. \A n \in Networks : \A i, j \in Nat :
             n = container'[c].network /\ At(i, <<"start", c>>)' /\ At(j, <<"create", n>>)' => j < i
      BY <1>1, DockerBounds DEF HistoryOf, ToldInOrder
    <2>4. container'[c].running => ~StopQueued(c)'
      BY <1>2 DEF HistoryOf, ToldInOrder
    <2> QED
      BY <2>1, <2>2, <2>3, <2>4 DEF ToldInOrder
  <1> QED
    BY <1>3, <1>4 DEF HistoryOf

\* Nothing has happened yet.
LEMMA HistoryInit == Init => HistoryInv
  <1> SUFFICES ASSUME Init, NEW c \in Containers
               PROVE  HistoryOf(c)
    BY DEF HistoryInv
  <1>1. dockerd = "off" /\ events = <<>>
    BY DEF Init, DockerInit
  <1>2. container[c].starts = 0 /\ container[c].running = FALSE /\ container[c].network = None
    BY DEF Init, DockerInit, NoContainers
  <1>3. \A e : ~Queued(e) /\ \A i \in Nat : ~At(i, e)
    BY <1>1, EmptyQueue
  <1> QED
    BY <1>1, <1>2, <1>3 DEF HistoryOf, NeverStarted, OnNetwork, ToldInOrder, StartQueued, StopQueued

\* The fields of a container that is stopped
LEMMA StopFields ==
  ASSUME DockerTypes, NEW d \in Containers, StopContainer(d)
  PROVE  \A c \in Containers :
            /\ container'[c].starts = container[c].starts /\ container'[c].network = container[c].network
            /\ container'[c].running = IF c = d THEN FALSE ELSE container[c].running
  <1>1. ASSUME NEW k \in ContainerStates
        PROVE  LET l == [k EXCEPT !.running = FALSE] IN
               l.starts = k.starts /\ l.running = FALSE /\ l.network = k.network
    BY DEF ContainerStates
  <1>2. container[d] \in ContainerStates /\ container \in [Containers -> ContainerStates]
    BY DEF DockerTypes, DockerTypeOK
  <1>3. container' = [container EXCEPT ![d] = [container[d] EXCEPT !.running = FALSE]]
    BY DEF StopContainer
  <1>4. ASSUME NEW l, container' = [container EXCEPT ![d] = l]
        PROVE  \A c \in Containers : container'[c] = IF c = d THEN l ELSE container[c]
    BY <1>2, <1>4
  <1>5. \A c \in Containers : container'[c] = IF c = d THEN [container[d] EXCEPT !.running = FALSE] ELSE container[c]
    BY <1>3, <1>4
  <1>6. container'[d].starts = container[d].starts /\ container'[d].running = FALSE /\ container'[d].network = container[d].network
    BY <1>1, <1>2, <1>5
  <1>7. \A c \in Containers : c # d => container'[c] = container[c]
    BY <1>5
  <1> QED
    BY <1>6, <1>7

\* Only what is told now is new on its way, and it comes last.
LEMMA EmitOnly ==
  ASSUME DockerTypes, NEW event \in Events, NEW es \in {<<event>>, <<event, event>>}, Emit(es)
  PROVE  /\ \A i \in Nat : \A e \in Events : At(i, e)' => At(i, e) \/ e = event
         /\ \A i \in Nat : At(i, event)' => At(i, event) \/ i > Len(events)
         /\ \A i \in Nat : \A e : At(i, e) => i <= Len(events)
         /\ es = <<event>> => \A i \in Nat : At(i, event)' => At(i, event) \/ i = Len(events) + 1
         /\ Len(events) \in Nat
  <1>1. Len(events) \in Nat
    BY LenProperties DEF DockerTypes, DockerTypeOK
  <1>2. \A i \in Nat : \A e : At(i, e) => i <= Len(events)
    BY <1>1 DEF At
  <1>3. CASE subscribed
    <2>1. /\ \A i \in Nat : \A e \in Events : At(i, e)' => At(i, e) \/ (i > Len(events) /\ e = event)
          /\ es = <<event>> => \A i \in Nat : \A e \in Events : At(i, e)' => i <= Len(events) + 1
      BY <1>3, QueueEmit
    <2> QED
      BY <1>1, <1>2, <2>1
  <1>4. CASE ~subscribed
    <2>1. UNCHANGED events
      BY <1>4, QueueEmit
    <2>2. \A i \in Nat : \A e \in Events : At(i, e)' => At(i, e)
      BY <2>1 DEF At
    <2> QED
      BY <1>1, <1>2, <2>2
  <1> QED
    BY <1>3, <1>4

\* The job's steps keep what is known of a container.
LEMMA HistoryJob ==
  ASSUME TypeInv, HistoryInv, dockerd = "up", UseDocker, NEW c \in Containers
  PROVE  HistoryOf(c)'
  <1>0. DockerTypes /\ Len(events) \in Nat /\ container[c] \in ContainerStates /\ container[c].starts \in Nat
    <2>1. DockerTypes /\ container[c] \in ContainerStates /\ events \in Seq(Events)
      BY TypeParts DEF DockerTypes, DockerTypeOK
    <2> QED
      BY <2>1, LenProperties DEF ContainerStates
  <1>1. HistoryOf(c)
    BY DEF HistoryInv
  <1>2. \A i \in Nat : i + 0 = i
    OBVIOUS
  <1>3. ASSUME NEW n \in Networks, CreateNetwork(n)
        PROVE  HistoryOf(c)'
    <2>1. Emit(<<<<"create", n>>>>) /\ UNCHANGED container /\ network[n].phase = "new"
      BY <1>3, DockerBounds DEF CreateNetwork
    <2>2. \A m \in Networks : m # n => network'[m] = network[m]
      BY <1>3 DEF CreateNetwork
    <2>3. network'[n].phase # "new" /\ UNCHANGED dockerd
      BY <1>0, <1>3, <2>1 DEF CreateNetwork, DockerTypes, DockerTypeOK, Emit
    <2>4. /\ \A i \in Nat : At(i, <<"start", c>>)' => At(i, <<"start", c>>)
          /\ \A i \in Nat : At(i, <<"stop", c>>)' => At(i, <<"stop", c>>)
          /\ \A m \in Networks : m # n => \A i \in Nat : At(i, <<"create", m>>)' => At(i, <<"create", m>>)
      <3>1. <<"create", n>> \in Events
        BY EventNames
      <3>2. \A i \in Nat : \A e \in Events : At(i, e)' => At(i, e) \/ e = <<"create", n>>
        BY <1>0, <2>1, <3>1, EmitOnly
      <3> QED
        BY <3>2, EventNames
    <2>5. container[c].network # n
      BY <1>1, <2>1, DockerBounds DEF HistoryOf, OnNetwork
    <2>6. container[c].network \in Networks \cup {None}
      BY <1>0 DEF ContainerStates
    <2>7. OnNetwork(c)'
      BY <1>1, <2>1, <2>2, <2>3, <2>5, <2>6 DEF HistoryOf, OnNetwork, Up
    <2> QED
      BY <1>1, <1>2, <2>1, <2>4, <2>5, <2>7, HistorySame
  <1>4. ASSUME NEW n \in Networks, RemoveNetwork(n)
        PROVE  HistoryOf(c)'
    <2>1. Emit(<<<<"destroy", n>>>>) /\ UNCHANGED container /\ (container[c].running => container[c].network # n)
      BY <1>4 DEF RemoveNetwork
    <2>2. \A m \in Networks : m # n => network'[m] = network[m]
      BY <1>4 DEF RemoveNetwork
    <2>3. network'[n].phase # "new" /\ UNCHANGED dockerd
      BY <1>0, <1>4, <2>1 DEF RemoveNetwork, DockerTypes, DockerTypeOK, Emit
    <2>4. /\ \A i \in Nat : At(i, <<"start", c>>)' => At(i, <<"start", c>>)
          /\ \A i \in Nat : At(i, <<"stop", c>>)' => At(i, <<"stop", c>>)
          /\ \A m \in Networks : \A i \in Nat : At(i, <<"create", m>>)' => At(i, <<"create", m>>)
      <3>1. <<"destroy", n>> \in Events
        BY EventNames
      <3>2. \A i \in Nat : \A e \in Events : At(i, e)' => At(i, e) \/ e = <<"destroy", n>>
        BY <1>0, <2>1, <3>1, EmitOnly
      <3> QED
        BY <3>2, EventNames
    <2>6. container[c].network \in Networks \cup {None}
      BY <1>0 DEF ContainerStates
    <2>7. OnNetwork(c)'
      BY <1>1, <2>1, <2>2, <2>3, <2>6 DEF HistoryOf, OnNetwork, Up
    <2> QED
      BY <1>1, <1>2, <2>1, <2>4, <2>7, HistorySame
  <1>5. ASSUME NEW d \in Containers, StopContainer(d)
        PROVE  HistoryOf(c)'
    <2>1. PICK es \in {<<<<"stop", d>>>>, <<<<"stop", d>>, <<"stop", d>>>>} : Emit(es)
      BY <1>5 DEF StopContainer
    <2>2. UNCHANGED <<dockerd, network>> /\ container[d].running
      BY <1>5, <2>1 DEF StopContainer, Emit
    <2>3. /\ container'[c].starts = container[c].starts /\ container'[c].network = container[c].network
          /\ container'[c].running = IF c = d THEN FALSE ELSE container[c].running
      BY <1>0, <1>5, StopFields
    <2>4. <<"stop", d>> \in Events
      BY EventNames
    <2>5. /\ \A i \in Nat : \A e \in Events : At(i, e)' => At(i, e) \/ e = <<"stop", d>>
          /\ \A i \in Nat : At(i, <<"stop", d>>)' => At(i, <<"stop", d>>) \/ i > Len(events)
          /\ \A i \in Nat : \A e : At(i, e) => i <= Len(events)
      BY <1>0, <2>1, <2>4, EmitOnly
    <2>6. /\ \A i \in Nat : At(i, <<"start", c>>)' => At(i, <<"start", c>>)
          /\ c # d => \A i \in Nat : At(i, <<"stop", c>>)' => At(i, <<"stop", c>>)
          /\ \A m \in Networks : \A i \in Nat : At(i, <<"create", m>>)' => At(i, <<"create", m>>)
      BY <2>5, EventNames
    <2>7. OnNetwork(c)'
      BY <1>1, <2>2, <2>3 DEF HistoryOf, OnNetwork, Up
    <2>8. CASE c # d
      BY <1>1, <1>2, <2>3, <2>6, <2>7, <2>8, HistorySame
    <2>9. CASE c = d
      <3>1. container[c].starts # 0 /\ container'[c].running = FALSE
        BY <1>1, <2>2, <2>3, <2>9 DEF HistoryOf, NeverStarted
      <3>2. NeverStarted(c)'
        BY <2>3, <3>1 DEF NeverStarted
      <3>3. ToldInOrder(c)'
        <4> SUFFICES ASSUME container[c].starts <= 1
                     PROVE  ToldInOrder(c)'
          BY <2>3 DEF ToldInOrder
        <4>1. \A i, j \in Nat : At(i, <<"start", c>>)' /\ At(j, <<"start", c>>)' => i = j
          BY <1>1, <2>6 DEF HistoryOf, ToldInOrder
        <4>2. \A i, j \in Nat : At(i, <<"start", c>>)' /\ At(j, <<"stop", c>>)' => i < j
          <5> SUFFICES ASSUME NEW i \in Nat, NEW j \in Nat, At(i, <<"start", c>>)', At(j, <<"stop", c>>)'
                       PROVE  i < j
            OBVIOUS
          <5>1. At(i, <<"start", c>>) /\ i <= Len(events)
            BY <2>5, <2>6
          <5>2. CASE At(j, <<"stop", c>>)
            BY <1>1, <5>1, <5>2 DEF HistoryOf, ToldInOrder
          <5>3. CASE j > Len(events)
            BY <1>0, <5>1, <5>3
          <5> QED
            BY <2>5, <2>9, <5>2, <5>3
        <4>3. \A n \in Networks : \A i, j \in Nat :
                 n = container'[c].network /\ At(i, <<"start", c>>)' /\ At(j, <<"create", n>>)' => j < i
          BY <1>1, <2>3, <2>6 DEF HistoryOf, ToldInOrder
        <4> QED
          BY <3>1, <4>1, <4>2, <4>3 DEF ToldInOrder
      <3> QED
        BY <2>7, <3>2, <3>3 DEF HistoryOf
    <2> QED
      BY <2>8, <2>9
  <1>6. ASSUME NEW d \in Containers, NEW n \in Networks, StartContainer(d, n)
        PROVE  HistoryOf(c)'
    <2>1. Emit(<<<<"start", d>>>>) /\ UNCHANGED network /\ Up(n) /\ UNCHANGED dockerd
      BY <1>6 DEF StartContainer, Emit, Up
    <2>2. <<"start", d>> \in Events
      BY EventNames
    <2>3. /\ \A i \in Nat : \A e \in Events : At(i, e)' => At(i, e) \/ e = <<"start", d>>
          /\ \A i \in Nat : At(i, <<"start", d>>)' => At(i, <<"start", d>>) \/ i = Len(events) + 1
          /\ \A i \in Nat : \A e : At(i, e) => i <= Len(events)
      BY <1>0, <2>1, <2>2, EmitOnly
    <2>4. /\ c # d => \A i \in Nat : At(i, <<"start", c>>)' => At(i, <<"start", c>>)
          /\ \A i \in Nat : At(i, <<"stop", c>>)' => At(i, <<"stop", c>>)
          /\ \A m \in Networks : \A i \in Nat : At(i, <<"create", m>>)' => At(i, <<"create", m>>)
      BY <2>3, EventNames
    <2>5. CASE c # d
      <3>1. container'[c] = container[c]
        BY <1>6, <2>5 DEF StartContainer
      <3>2. OnNetwork(c)'
        BY <1>1, <2>1, <3>1 DEF HistoryOf, OnNetwork, Up
      <3> QED
        BY <1>1, <1>2, <2>4, <2>5, <3>1, <3>2, HistorySame
    <2>6. CASE c = d
      <3>1. container'[c] = [running |-> TRUE, starts |-> container[c].starts + 1, network |-> n]
        BY <1>0, <1>6, <2>6 DEF StartContainer, DockerTypes, DockerTypeOK
      <3>2. container'[c].running = TRUE /\ container'[c].starts = container[c].starts + 1 /\ container'[c].network = n
        BY <3>1
      <3>3. OnNetwork(c)'
        BY <2>1, <3>2, DockerBounds DEF OnNetwork, Up
      <3>4. NeverStarted(c)'
        BY <1>0, <3>2 DEF NeverStarted
      <3>5. ToldInOrder(c)'
        <4> SUFFICES ASSUME container'[c].starts <= 1
                     PROVE  ToldInOrder(c)'
          BY DEF ToldInOrder
        <4>1. container[c].starts = 0
          BY <1>0, <3>2
        <4>2. \A i \in Nat : ~At(i, <<"start", c>>) /\ ~At(i, <<"stop", c>>)
          BY <1>1, <4>1 DEF HistoryOf, NeverStarted, StartQueued, StopQueued, Queued
        <4>3. \A i \in Nat : ~At(i, <<"stop", c>>)' /\ (At(i, <<"start", c>>)' => i = Len(events) + 1)
          BY <2>3, <2>4, <2>6, <4>2
        <4>4. \A m \in Networks : \A j \in Nat : At(j, <<"create", m>>)' => j < Len(events) + 1
          BY <1>0, <2>3, <2>4
        <4> QED
          BY <4>3, <4>4 DEF ToldInOrder, StopQueued, Queued
      <3> QED
        BY <3>3, <3>4, <3>5 DEF HistoryOf
    <2> QED
      BY <2>5, <2>6
  <1> QED
    BY <1>3, <1>4, <1>5, <1>6 DEF UseDocker

\* Every step keeps what is known of the containers.
LEMMA HistoryNext == TypeInv /\ JobInv /\ NetInv /\ HistoryInv /\ [Next]_vars => HistoryInv'
  <1> SUFFICES ASSUME TypeInv, JobInv, NetInv, HistoryInv, [Next]_vars, NEW c \in Containers
               PROVE  HistoryOf(c)'
    BY DEF HistoryInv
  <1>1. HistoryOf(c) /\ DockerTypes
    BY TypeParts DEF HistoryInv
  <1>2. \A i \in Nat : i + 0 = i
    OBVIOUS
  <1>3. CASE Still
    <2>1. UNCHANGED <<network, container, events>> /\ (dockerd' = dockerd \/ DaemonStarts)
      BY <1>3 DEF Still
    <2>2. CASE dockerd' = dockerd
      BY <1>1, <2>1, <2>2 DEF HistoryOf, NeverStarted, OnNetwork, ToldInOrder, StartQueued, StopQueued, Queued, At, Up
    <2>3. CASE DaemonStarts
      <3>1. container[c].starts = 0
        BY <2>3 DEF DaemonStarts, NetInv, TableInv, Life
      <3>2. ~container[c].running /\ container[c].network = None
        BY <1>1, <3>1 DEF HistoryOf, NeverStarted
      <3>3. OnNetwork(c)'
        BY <2>1, <3>2 DEF OnNetwork
      <3> QED
        BY <1>1, <2>1, <3>3 DEF HistoryOf, NeverStarted, ToldInOrder, StartQueued, StopQueued, Queued, At
    <2> QED
      BY <2>1, <2>2, <2>3
  <1>4. CASE Gone
    <2>1. /\ dockerd' = "down" /\ events' = <<>>
          /\ container'[c].starts = container[c].starts
          /\ container'[c].running = FALSE /\ container'[c].network = None
      BY <1>1, <1>4, GoneFacts DEF Gone
    <2>2. \A e : ~Queued(e)' /\ \A i \in Nat : ~At(i, e)'
      <3>1. Len(events') = 0
        BY <2>1, EmptySeq
      <3> QED
        BY <3>1 DEF Queued, At
    <2> QED
      BY <2>1, <2>2 DEF HistoryOf, NeverStarted, OnNetwork, ToldInOrder, StartQueued, StopQueued
  <1>5. CASE Breaks
    <2>1. events' = <<>> /\ UNCHANGED <<dockerd, network, container>>
      BY <1>5 DEF Breaks, StreamBreaks
    <2>2. \A e : ~Queued(e)' /\ \A i \in Nat : ~At(i, e)'
      <3>1. Len(events') = 0
        BY <2>1, EmptySeq
      <3> QED
        BY <3>1 DEF Queued, At
    <2>3. OnNetwork(c)'
      BY <1>1, <2>1 DEF HistoryOf, OnNetwork, Up
    <2> QED
      BY <1>1, <2>1, <2>2, <2>3 DEF HistoryOf, NeverStarted, ToldInOrder, StartQueued, StopQueued
  <1>6. CASE \E e : Receive(e)
    <2>1. PICK e : Receive(e)
      BY <1>6
    <2>2. UNCHANGED <<dockerd, network, container>>
      BY <2>1 DEF Receive
    <2>3. \A i \in Nat : \A f \in Events : At(i, f)' => At(i + 1, f)
      BY <1>1, <2>1, QueueReceive
    <2>4. /\ \A i \in Nat : At(i, <<"start", c>>)' => At(i + 1, <<"start", c>>)
          /\ \A i \in Nat : At(i, <<"stop", c>>)' => At(i + 1, <<"stop", c>>)
          /\ \A n \in Networks : \A i \in Nat : At(i, <<"create", n>>)' => At(i + 1, <<"create", n>>)
      BY <2>3, EventNames
    <2>5. OnNetwork(c)'
      BY <1>1, <2>2 DEF HistoryOf, OnNetwork, Up
    <2> QED
      BY <1>1, <2>2, <2>4, <2>5, HistorySame
  <1>7. CASE JobAction
    BY <1>7, HistoryJob DEF JobAction
  <1>8. ASSUME NEW n \in Networks, NetworkCreated(n) \/ NetworkDestroyed(n)
        PROVE  \E e : Receive(e)
    BY <1>8 DEF NetworkCreated, NetworkDestroyed
  <1>9. ASSUME NEW d \in Containers, HearsContainer(d)
        PROVE  \E e : Receive(e)
    BY <1>9 DEF HearsContainer, ContainerStarted, ContainerStopped
  <1> QED
    BY <1>3, <1>4, <1>5, <1>6, <1>7, <1>8, <1>9, StepKinds

-----------------------------------------------------------------------------
(* Whose process a PID is.                                                 *)

Owns(c, p) == socat[p] # None /\ socat[p].id = c

\* A PID that is remembered for a container, or about to be remembered or killed for it, is
\* that of one of its processes or of none.
PidInv ==
    /\ \A c \in Containers : \A p \in proxyPortPIDs[c] : socat[p] # None => Owns(c, p)
    /\ mainPc \in {"remember", "kill"} => \A p \in handling.pids : socat[p] # None => Owns(handling.info.id, p)
    /\ mainPc = "proxy" => handling.pids = {}

\* What main handles, while it works on a container's proxies
LEMMA HandlingTypes ==
  ASSUME TypeInv
  PROVE  /\ handling \in [info : Infos \cup {None}, pids : SUBSET Pids]
         /\ proxyPortPIDs \in [Containers -> SUBSET Pids]
         /\ socat \in [Pids -> Proxies \cup {None}]
         /\ mainPc \in {"proxy", "remember"} =>
              /\ handling.info \in StartInfos /\ handling.info.id \in Containers
              /\ handling.info.ports \in SUBSET Exposed[handling.info.id]
         /\ mainPc \in {"pids", "kill", "forget"} => handling.info \in StopInfos /\ handling.info.id \in Containers
  BY DEF TypeInv, TypeOK, DindTypeOK, MainShapes, StartInfos, StopInfos

\* Starting a socat: whose it is, and what main remembers
LEMMA AddPortProxyEffect ==
  ASSUME TypeInv, PidInv, NEW port \in Ports, NEW pid \in Pids, AddPortProxy(port, pid), ~MainPanics
  PROVE  LET c == handling.info.id
             taken == port \in Reserved \/ \E p \in Pids : Owns(c, p) /\ socat[p].port = port
         IN
         /\ mainPc = "proxy" /\ mainPc' = "remember" /\ c \in Containers
         /\ port \in handling.info.ports /\ port \in Exposed[c]
         /\ handling'.info.id = c /\ handling'.pids = {pid} /\ handling.pids = {}
         /\ handling'.info.ports = handling.info.ports \ {port}
         /\ socat[pid] = None /\ \A d \in Containers : pid \notin proxyPortPIDs[d]
         /\ \A p \in Pids : p # pid => socat'[p] = socat[p]
         /\ taken => socat'[pid] = None
         /\ ~taken => socat'[pid] # None /\ socat'[pid].id = c /\ socat'[pid].port = port
         /\ UNCHANGED <<eventVars, rules, proxyPortPIDs, interrupt, dockerVars, faults>>
  <1> DEFINE c == handling.info.id
             proxy == [id |-> handling.info.id, port |-> port, run |-> handling.info.run]
             taken == port \in Reserved \/ \E p \in Pids : Owns(c, p) /\ socat[p].port = port
  <1>1. /\ mainPc = "proxy" /\ mainPc' = "remember" /\ port \in handling.info.ports
        /\ pid \notin Running /\ pid \notin Known
        /\ socat' = [socat EXCEPT ![pid] = IF \/ port \in Reserved
                                              \/ \E p \in Running : socat[p].id = handling.info.id /\ socat[p].port = port
                                           THEN None ELSE proxy]
        /\ handling' = [handling EXCEPT !.info.ports = @ \ {port}, !.pids = {pid}]
        /\ UNCHANGED <<eventVars, rules, proxyPortPIDs, interrupt, dockerVars, faults>>
    BY DEF AddPortProxy
  <1>2. /\ handling.info \in StartInfos /\ c \in Containers /\ handling.pids = {}
        /\ handling \in [info : Infos \cup {None}, pids : SUBSET Pids]
        /\ port \in Exposed[c]
    BY <1>1, HandlingTypes DEF PidInv
  <1>3. handling' = [info |-> [handling.info EXCEPT !.ports = @ \ {port}], pids |-> {pid}]
    BY <1>1, <1>2
  <1>4. [handling.info EXCEPT !.ports = @ \ {port}].id = c
        /\ [handling.info EXCEPT !.ports = @ \ {port}].ports = handling.info.ports \ {port}
    BY <1>2 DEF StartInfos
  <1>5. handling'.info.id = c /\ handling'.pids = {pid} /\ handling'.info.ports = handling.info.ports \ {port}
    BY <1>3, <1>4
  <1>6. socat[pid] = None /\ \A d \in Containers : pid \notin proxyPortPIDs[d]
    BY <1>1 DEF Running, Known
  <1>7. taken <=> port \in Reserved \/ \E p \in Running : socat[p].id = handling.info.id /\ socat[p].port = port
    BY DEF Owns, Running
  <1>8. proxy \in Proxies
    BY <1>2 DEF Proxies, StartInfos
  <1>9. proxy # None /\ proxy.id = c /\ proxy.port = port
    BY <1>8, NoneIsNil
  <1>10. socat'[pid] = IF taken THEN None ELSE proxy
    BY <1>1, <1>7, HandlingTypes
  <1>11. \A p \in Pids : p # pid => socat'[p] = socat[p]
    BY <1>1, HandlingTypes
  <1> HIDE DEF taken, proxy
  <1>12. /\ taken => socat'[pid] = None
         /\ ~taken => socat'[pid] # None /\ socat'[pid].id = c /\ socat'[pid].port = port
    BY <1>9, <1>10
  <1> QED
    BY <1>1, <1>2, <1>5, <1>6, <1>11, <1>12 DEF taken

\* Remembering the PID of a socat
LEMMA AddProxyPortPIDEffect ==
  ASSUME TypeInv, AddProxyPortPID
  PROVE  LET c == handling.info.id IN
         /\ mainPc = "remember" /\ mainPc' = "proxy" /\ c \in Containers
         /\ handling'.info = handling.info /\ handling'.pids = {}
         /\ proxyPortPIDs'[c] = proxyPortPIDs[c] \cup handling.pids
         /\ \A d \in Containers : d # c => proxyPortPIDs'[d] = proxyPortPIDs[d]
         /\ UNCHANGED <<eventVars, rules, socat, interrupt, dockerVars, faults>>
  <1>1. /\ mainPc = "remember" /\ mainPc' = "proxy"
        /\ proxyPortPIDs' = [proxyPortPIDs EXCEPT ![handling.info.id] = @ \cup handling.pids]
        /\ handling' = [handling EXCEPT !.pids = {}]
        /\ UNCHANGED <<eventVars, rules, socat, interrupt, dockerVars, faults>>
    BY DEF AddProxyPortPID
  <1>2. handling'.info = handling.info /\ handling'.pids = {} /\ handling.info.id \in Containers
    BY <1>1, HandlingTypes
  <1>3. /\ proxyPortPIDs'[handling.info.id] = proxyPortPIDs[handling.info.id] \cup handling.pids
        /\ \A d \in Containers : d # handling.info.id => proxyPortPIDs'[d] = proxyPortPIDs[d]
    BY <1>1, <1>2, HandlingTypes
  <1> QED
    BY <1>1, <1>2, <1>3

\* Reading the PIDs to kill
LEMMA GetProxyPortPIDsEffect ==
  ASSUME TypeInv, GetProxyPortPIDs
  PROVE  /\ mainPc = "pids" /\ mainPc' = "kill" /\ handling.info.id \in Containers
         /\ handling'.info = handling.info /\ handling'.pids = proxyPortPIDs[handling.info.id]
         /\ UNCHANGED <<eventVars, rules, socat, proxyPortPIDs, interrupt, dockerVars, faults>>
  <1>1. /\ mainPc = "pids" /\ mainPc' = "kill"
        /\ handling' = [handling EXCEPT !.pids = proxyPortPIDs[handling.info.id]]
        /\ UNCHANGED <<eventVars, rules, socat, proxyPortPIDs, interrupt, dockerVars, faults>>
    BY DEF GetProxyPortPIDs
  <1>2. handling'.info = handling.info /\ handling'.pids = proxyPortPIDs[handling.info.id] /\ handling.info.id \in Containers
    BY <1>1, HandlingTypes
  <1> QED
    BY <1>1, <1>2

\* Forgetting the PIDs
LEMMA DeleteProxyPortPIDsEffect ==
  ASSUME TypeInv, DeleteProxyPortPIDs
  PROVE  LET c == handling.info.id IN
         /\ mainPc = "forget" /\ mainPc' = "loop" /\ c \in Containers /\ handling' = Nothing
         /\ proxyPortPIDs'[c] = {}
         /\ \A d \in Containers : d # c => proxyPortPIDs'[d] = proxyPortPIDs[d]
         /\ UNCHANGED <<eventVars, rules, socat, interrupt, dockerVars, faults>>
  <1>1. /\ mainPc = "forget" /\ mainPc' = "loop" /\ handling' = Nothing
        /\ proxyPortPIDs' = [proxyPortPIDs EXCEPT ![handling.info.id] = {}]
        /\ UNCHANGED <<eventVars, rules, socat, interrupt, dockerVars, faults>>
    BY DEF DeleteProxyPortPIDs, BackToLoop
  <1>2. handling.info.id \in Containers
    BY <1>1, HandlingTypes
  <1> QED
    BY <1>1, <1>2, HandlingTypes

\* The event loop registers a container, and forgets the PIDs it had.
LEMMA AddContainerInfoEffect ==
  ASSUME TypeInv, AddContainerInfo
  PROVE  LET c == sending.id IN
         /\ eventPc = "add" /\ eventPc' = "send" /\ sending \in StartInfos /\ c \in Containers
         /\ containerInfoByID' = containerInfoByID \cup {c}
         /\ proxyPortPIDs'[c] = {}
         /\ \A d \in Containers : d # c => proxyPortPIDs'[d] = proxyPortPIDs[d]
         /\ UNCHANGED <<sending, mainVars, interrupt, dockerVars, faults>>
  <1>1. /\ eventPc = "add" /\ eventPc' = "send" /\ containerInfoByID' = containerInfoByID \cup {sending.id}
        /\ proxyPortPIDs' = [proxyPortPIDs EXCEPT ![sending.id] = {}]
        /\ UNCHANGED <<sending, mainVars, interrupt, dockerVars, faults>>
    BY DEF AddContainerInfo
  <1>2. sending \in StartInfos /\ sending.id \in Containers
    BY <1>1 DEF TypeInv, EventShapes, StartInfos
  <1> QED
    BY <1>1, <1>2, HandlingTypes

\* Killing: all the processes are gone, or the process ends.
LEMMA KillEffect ==
  ASSUME TypeInv, Kill
  PROVE  \/ /\ mainPc = "kill" /\ mainPc' = "forget" /\ handling.info.id \in Containers
            /\ \A p \in Pids : socat'[p] = IF p \in handling.pids THEN None ELSE socat[p]
            /\ handling.pids \subseteq Running
            /\ UNCHANGED <<eventVars, handling, rules, proxyPortPIDs, interrupt, dockerVars, faults>>
         \/ mainPc = "kill" /\ End("panicked") /\ ~(handling.pids \subseteq Running) /\ UNCHANGED faults
  <1>1. mainPc = "kill" => handling.info.id \in Containers
    BY HandlingTypes
  <1> QED
    BY <1>1 DEF Kill

\* A step that leaves the processes and what is remembered of them alone
LEMMA PidSame ==
  ASSUME PidInv, UNCHANGED <<proxyPortPIDs, socat>>,
         mainPc' \in {"proxy", "remember", "kill"} => UNCHANGED <<mainPc, handling>>
  PROVE  PidInv'
  BY DEF PidInv, Owns

\* Nothing is remembered by a process that has ended.
LEMMA PidEnd ==
  ASSUME NEW pc \in Finished, End(pc)
  PROVE  PidInv'
  BY DEF PidInv, End, Each, Nothing, Finished

-----------------------------------------------------------------------------
(* What a step can do to the proxies.                                      *)

\* Main works on a container's proxies, and the event loop has a container to send.
OnProxies  == mainPc \in {"proxy", "remember", "pids", "kill", "forget"}
Announcing == eventPc = "add" \/ (eventPc = "send" /\ sending.action \in {"start", "stop"})

Aside ==
    /\ UNCHANGED <<containerInfoByID, proxyPortPIDs, socat>>
    /\ UNCHANGED <<eventPc, sending>> \/ (~Announcing /\ ~Announcing')
    /\ UNCHANGED <<mainPc, handling>> \/ (~OnProxies /\ ~OnProxies')

Hears(c) ==
    \/ ContainerStarted(c) /\ sending' = InspectInfo(c) /\ eventPc' = "add"
    \/ ContainerStopped(c) /\ c \in containerInfoByID

ProxyStep ==
    \/ AddContainerInfo
    \/ ReceiveInfo /\ Announcing
    \/ \E port \in Ports, pid \in Pids : AddPortProxy(port, pid) /\ ~MainPanics
    \/ AddProxyPortPID \/ AllPortsProxied
    \/ GetProxyPortPIDs \/ Kill \/ DeleteProxyPortPIDs

\* Every step is one of these.
LEMMA ProxyKinds ==
  ASSUME TypeInv, [Next]_vars
  PROVE  \/ \E pc \in Finished : End(pc)
         \/ Aside \/ ProxyStep \/ SocatExits
         \/ \E c \in Containers : Hears(c)
  <1>1. CASE DindStep
    <2>1. CASE EventLoop
      <3>1. CASE Subscribe \/ StreamEnded
        BY <3>1 DEF Subscribe, StreamEnded, Aside, Announcing, mainVars
      <3>2. CASE AddContainerInfo
        BY <3>2 DEF ProxyStep
      <3>3. ASSUME NEW n \in Networks, NetworkCreated(n)
            PROVE  Aside
        <4>1. eventPc = "select" /\ eventPc' = "send" /\ UNCHANGED <<containerInfoByID, proxyPortPIDs, socat, mainPc, handling>>
          BY <3>3 DEF NetworkCreated, Receive, mainVars
        <4>2. \E subnets : sending' = [action |-> "create", id |-> n, subnets |-> subnets]
          BY <3>3, Zenon DEF NetworkCreated
        <4>3. sending'.action = "create"
          BY <4>2
        <4> QED
          BY <4>1, <4>3 DEF Aside, Announcing
      <3>4. ASSUME NEW n \in Networks, NoOctetLeft(n)
            PROVE  End("panicked")
        BY <3>4 DEF NoOctetLeft
      <3>5. ASSUME NEW n \in Networks, NetworkDestroyed(n)
            PROVE  Aside
        <4>1. eventPc = "select" /\ UNCHANGED <<containerInfoByID, proxyPortPIDs, socat, mainPc, handling>>
          BY <3>5 DEF NetworkDestroyed, Receive, mainVars, eventVars
        <4>2. UNCHANGED <<eventPc, sending>> \/ (eventPc' = "send" /\ sending'.action = "destroy")
          BY <3>5 DEF NetworkDestroyed, eventVars
        <4> QED
          BY <4>1, <4>2 DEF Aside, Announcing
      <3>6. ASSUME NEW c \in Containers, ContainerStarted(c)
            PROVE  Aside \/ Hears(c)
        BY <3>6 DEF ContainerStarted, Hears, Aside, mainVars
      <3>7. ASSUME NEW c \in Containers, ContainerStopped(c)
            PROVE  Aside \/ Hears(c)
        BY <3>7 DEF ContainerStopped, Hears, Aside, mainVars, eventVars
      <3> QED
        BY <2>1, <3>1, <3>2, <3>3, <3>4, <3>5, <3>6, <3>7 DEF EventLoop, Finished
    <2>2. CASE Main
      <3>1. CASE MainPanics
        BY <3>1 DEF MainPanics, Finished
      <3>2. CASE ((Begin \/ Boot) /\ ~MainPanics) \/ WaitForDockerd \/ StartDockerd
        BY <3>2 DEF Begin, WaitForDockerd, StartDockerd, Boot, MainGoto, Aside, OnProxies, eventVars
      <3>3. CASE StartEventLoop /\ ~MainPanics
        <4>1. eventPc = "off"
          BY <3>3 DEF StartEventLoop, TypeInv, LoopOff
        <4> QED
          BY <3>3, <4>1 DEF StartEventLoop, Aside, OnProxies, Announcing
      <3>4. CASE ReceiveInfo /\ ~Announcing
        <4>1. /\ mainPc = "loop" /\ eventPc = "send" /\ mainPc' = Handler[sending.action] /\ eventPc' = "select"
              /\ UNCHANGED <<containerInfoByID, proxyPortPIDs, socat>>
          BY <3>4 DEF ReceiveInfo
        <4>2. sending \in Infos /\ sending.action \notin {"start", "stop"}
          BY <3>4, <4>1 DEF TypeInv, EventShapes, Announcing
        <4>3. sending.action \in {"create", "destroy"}
          BY <4>2, InfoKinds
        <4>4. mainPc' \in {"append", "delete"}
          BY <4>1, <4>3 DEF Handler
        <4> QED
          BY <3>4, <4>1, <4>4 DEF Aside, OnProxies, Announcing
      <3>5. CASE LeaveLoop /\ ~MainPanics
        BY <3>5 DEF LeaveLoop, Finished
      <3>6. CASE SetupNetworkPortForward /\ ~MainPanics
        BY <3>6 DEF SetupNetworkPortForward, BackToLoop, Aside, OnProxies, eventVars
      <3>7. CASE SetdownNetworkPortForward
        BY <3>7 DEF SetdownNetworkPortForward, BackToLoop, Aside, OnProxies, eventVars
      <3>8. ASSUME NEW port \in Ports, NoSocatCommand(port)
            PROVE  \E pc \in Finished : End(pc)
        BY <3>8 DEF NoSocatCommand, Finished
      <3> QED
        BY <2>2, <3>1, <3>2, <3>3, <3>4, <3>5, <3>6, <3>7, <3>8 DEF Main, ProxyStep
    <2>3. CASE ConcurrentMapAccess \/ Interrupted
      BY <2>3 DEF ConcurrentMapAccess, Interrupted, Finished
    <2>4. CASE Docker
      BY <2>4 DEF Docker, dindVars, eventVars, mainVars, Aside
    <2> QED
      BY <1>1, <2>1, <2>2, <2>3, <2>4 DEF DindStep, Dind
  <1>2. CASE RunnerStep \/ JobUsesDocker \/ Terminate
    BY <1>2 DEF RunnerStep, JobUsesDocker, Terminate, Aside, dindVars, eventVars, mainVars
  <1>3. CASE GracePeriodEnds \/ ProbeFails
    BY <1>3 DEF GracePeriodEnds, ProbeFails, Finished, Aside, dindVars, eventVars, mainVars
  <1>4. CASE UNCHANGED vars
    BY <1>4 DEF vars, Aside, dindVars, eventVars, mainVars
  <1> QED
    BY <1>1, <1>2, <1>3, <1>4 DEF Next

\* Initially there is no process.
LEMMA PidInit == Init => PidInv
  <1> SUFFICES ASSUME Init
               PROVE  PidInv
    OBVIOUS
  <1>1. mainPc \in {"new", "absent"} /\ proxyPortPIDs = Each(Containers, {})
    BY DEF Init, DindInit
  <1> QED
    BY <1>1 DEF PidInv, Each

\* Every step keeps a remembered PID that of the container's own process, or of none.
LEMMA PidNext == TypeInv /\ PidInv /\ [Next]_vars => PidInv'
  <1> SUFFICES ASSUME TypeInv, PidInv, [Next]_vars
               PROVE  PidInv'
    OBVIOUS
  <1>1. CASE Aside
    BY <1>1, PidSame DEF Aside, OnProxies
  <1>2. ASSUME NEW c \in Containers, Hears(c)
        PROVE  PidInv'
    BY <1>2, PidSame DEF Hears, ContainerStarted, ContainerStopped, mainVars
  <1>3. CASE SocatExits
    <2>1. PICK q \in Pids : socat' = [socat EXCEPT ![q] = None]
      BY <1>3 DEF SocatExits, Running
    <2>2. UNCHANGED <<mainPc, handling, proxyPortPIDs>>
      BY <1>3 DEF SocatExits
    <2>3. \A p \in Pids : socat'[p] = None \/ socat'[p] = socat[p]
      BY <2>1, HandlingTypes
    <2>4. /\ \A c \in Containers : proxyPortPIDs[c] \subseteq Pids
          /\ handling.pids \subseteq Pids
      BY HandlingTypes
    <2> QED
      BY <2>2, <2>3, <2>4 DEF PidInv, Owns
  <1>4. CASE ProxyStep
    <2>1. CASE AddContainerInfo
      <3>1. /\ proxyPortPIDs'[sending.id] = {}
            /\ \A d \in Containers : d # sending.id => proxyPortPIDs'[d] = proxyPortPIDs[d]
            /\ UNCHANGED <<mainPc, handling, socat>>
        BY <2>1, AddContainerInfoEffect DEF mainVars
      <3> QED
        BY <3>1 DEF PidInv, Owns
    <2>2. CASE ReceiveInfo
      <3>1. handling'.pids = {} /\ UNCHANGED <<proxyPortPIDs, socat>> /\ mainPc' = Handler[sending.action]
        BY <2>2 DEF ReceiveInfo
      <3> QED
        BY <3>1 DEF PidInv, Owns
    <2>3. ASSUME NEW port \in Ports, NEW pid \in Pids, AddPortProxy(port, pid), ~MainPanics
          PROVE  PidInv'
      <3>1. /\ mainPc' = "remember" /\ handling'.info.id = handling.info.id /\ handling'.pids = {pid}
            /\ \A d \in Containers : pid \notin proxyPortPIDs[d]
            /\ \A p \in Pids : p # pid => socat'[p] = socat[p]
            /\ socat'[pid] = None \/ socat'[pid].id = handling.info.id
            /\ UNCHANGED proxyPortPIDs
        BY <2>3, AddPortProxyEffect
      <3>2. \A d \in Containers : \A p \in proxyPortPIDs[d] : socat'[p] = socat[p]
        BY <3>1, HandlingTypes
      <3> QED
        BY <3>1, <3>2 DEF PidInv, Owns
    <2>4. CASE AddProxyPortPID
      <3> DEFINE c == handling.info.id
      <3>1. /\ mainPc = "remember" /\ mainPc' = "proxy" /\ c \in Containers /\ handling'.pids = {}
            /\ proxyPortPIDs'[c] = proxyPortPIDs[c] \cup handling.pids
            /\ \A d \in Containers : d # c => proxyPortPIDs'[d] = proxyPortPIDs[d]
            /\ UNCHANGED socat
        BY <2>4, AddProxyPortPIDEffect
      <3>2. \A d \in Containers : \A p \in proxyPortPIDs'[d] : socat[p] # None => Owns(d, p)
        BY <3>1 DEF PidInv
      <3> QED
        BY <3>1, <3>2 DEF PidInv, Owns
    <2>5. CASE AllPortsProxied
      BY <2>5, PidSame DEF AllPortsProxied, BackToLoop
    <2>6. CASE GetProxyPortPIDs
      <3>1. /\ mainPc' = "kill" /\ handling.info.id \in Containers
            /\ handling'.info = handling.info /\ handling'.pids = proxyPortPIDs[handling.info.id]
            /\ UNCHANGED <<socat, proxyPortPIDs>>
        BY <2>6, GetProxyPortPIDsEffect
      <3> QED
        BY <3>1 DEF PidInv, Owns
    <2>7. CASE Kill
      <3>1. CASE End("panicked")
        BY <3>1, PidEnd DEF Finished
      <3>2. CASE ~End("panicked")
        <4>1. /\ mainPc' = "forget" /\ UNCHANGED proxyPortPIDs
              /\ \A p \in Pids : socat'[p] = IF p \in handling.pids THEN None ELSE socat[p]
          BY <2>7, <3>2, KillEffect
        <4>2. \A d \in Containers : proxyPortPIDs[d] \subseteq Pids
          BY HandlingTypes
        <4> QED
          BY <4>1, <4>2 DEF PidInv, Owns
      <3> QED
        BY <3>1, <3>2
    <2>8. CASE DeleteProxyPortPIDs
      <3>1. /\ mainPc' = "loop" /\ proxyPortPIDs'[handling.info.id] = {} /\ UNCHANGED socat
            /\ \A d \in Containers : d # handling.info.id => proxyPortPIDs'[d] = proxyPortPIDs[d]
        BY <2>8, DeleteProxyPortPIDsEffect
      <3> QED
        BY <3>1 DEF PidInv, Owns
    <2> QED
      BY <1>4, <2>1, <2>2, <2>3, <2>4, <2>5, <2>6, <2>7, <2>8 DEF ProxyStep
  <1>5. ASSUME NEW pc \in Finished, End(pc)
        PROVE  PidInv'
    BY <1>5, PidEnd
  <1> QED
    BY <1>1, <1>2, <1>3, <1>4, <1>5, ProxyKinds

-----------------------------------------------------------------------------
(* A container on its way from the daemon's events to its proxies.         *)

SendsStart(c)   == eventPc \in {"add", "send"} /\ sending.action = "start" /\ sending.id = c
SendsStop(c)    == eventPc = "send" /\ sending.action = "stop" /\ sending.id = c
HandlesStart(c) == mainPc \in {"proxy", "remember"} /\ handling.info.id = c
HandlesStop(c)  == mainPc \in {"pids", "kill", "forget"} /\ handling.info.id = c
OwnsNone(c)     == \A p \in Pids : ~Owns(c, p)

\* A container whose start is sent is registered, and none is before the event loop hears.
RegisteredInv ==
    /\ \A c \in Containers : eventPc = "send" /\ SendsStart(c) => c \in containerInfoByID
    /\ dockerd \in {"off", "starting"} \/ (faults = 0 /\ dockerd = "up" /\ ~subscribed) => containerInfoByID = {}

\* Main takes what the event loop sends about a container.
LEMMA ReceiveInfoEffect ==
  ASSUME TypeInv, ReceiveInfo, Announcing
  PROVE  /\ mainPc = "loop" /\ eventPc = "send" /\ eventPc' = "select" /\ sending.id \in Containers
         /\ handling'.info = sending /\ handling'.pids = {}
         /\ \/ sending \in StartInfos /\ sending.action = "start" /\ mainPc' = "proxy"
            \/ sending \in StopInfos /\ sending.action = "stop" /\ mainPc' = "pids"
         /\ UNCHANGED <<containerInfoByID, socat, proxyPortPIDs, dockerVars, faults>>
  <1>1. /\ mainPc = "loop" /\ eventPc = "send" /\ mainPc' = Handler[sending.action] /\ eventPc' = "select"
        /\ handling'.info = sending /\ handling'.pids = {}
        /\ UNCHANGED <<containerInfoByID, socat, proxyPortPIDs, dockerVars, faults>>
    BY DEF ReceiveInfo
  <1>2. sending \in Infos /\ sending.action \in {"start", "stop"}
    BY <1>1 DEF TypeInv, EventShapes, Announcing
  <1>3. \/ sending \in StartInfos /\ sending.action = "start"
        \/ sending \in StopInfos /\ sending.action = "stop"
    BY <1>2, InfoKinds
  <1>4. sending.id \in Containers
    BY <1>3 DEF StartInfos, StopInfos
  <1>5. (sending.action = "start" => mainPc' = "proxy") /\ (sending.action = "stop" => mainPc' = "pids")
    BY <1>1 DEF Handler
  <1> QED
    BY <1>1, <1>3, <1>4, <1>5

\* What the event loop sends when it hears of a container
LEMMA HearsEffect ==
  ASSUME TypeInv, NEW c \in Containers, Hears(c)
  PROVE  /\ eventPc = "select" /\ UNCHANGED <<mainPc, handling, socat, proxyPortPIDs, faults>>
         /\ UNCHANGED <<dockerd, network, container, subscribed, lost, networkInfoByID>>
         /\ \/ /\ Receive(<<"start", c>>) /\ eventPc' = "add" /\ sending' = InspectInfo(c)
               /\ sending'.action = "start" /\ sending'.id = c /\ UNCHANGED containerInfoByID
            \/ /\ Receive(<<"stop", c>>) /\ eventPc' = "send" /\ sending'.action = "stop" /\ sending'.id = c
               /\ c \in containerInfoByID /\ containerInfoByID' = containerInfoByID \ {c}
  <1>1. CASE ContainerStarted(c) /\ sending' = InspectInfo(c) /\ eventPc' = "add"
    <2>1. InspectInfo(c).action = "start" /\ InspectInfo(c).id = c
      BY DEF InspectInfo
    <2>2. ~(UNCHANGED <<sending, eventPc>>)
      BY <1>1 DEF ContainerStarted, Receive
    <2> QED
      BY <1>1, <2>1, <2>2 DEF ContainerStarted, Receive, mainVars
  <1>2. CASE ContainerStopped(c) /\ c \in containerInfoByID
    <2>1. /\ Receive(<<"stop", c>>) /\ containerInfoByID' = containerInfoByID \ {c}
          /\ sending' = [action |-> "stop", id |-> c] /\ eventPc' = "send"
          /\ UNCHANGED <<mainPc, handling, socat, proxyPortPIDs, faults, networkInfoByID>>
      BY <1>2 DEF ContainerStopped, mainVars
    <2> QED
      BY <1>2, <2>1 DEF Receive
  <1> QED
    BY <1>1, <1>2 DEF Hears

\* Initially nothing is registered.
LEMMA RegisteredInit == Init => RegisteredInv
  <1> SUFFICES ASSUME Init
               PROVE  RegisteredInv
    OBVIOUS
  <1>1. eventPc = "off" /\ containerInfoByID = {}
    BY DEF Init, DindInit
  <1> QED
    BY <1>1 DEF RegisteredInv

\* Every step keeps the register.
LEMMA RegisteredNext == TypeInv /\ JobInv /\ RegisteredInv /\ [Next]_vars => RegisteredInv'
  <1> SUFFICES ASSUME TypeInv, JobInv, RegisteredInv, [Next]_vars
               PROVE  RegisteredInv'
    OBVIOUS
  <1> DEFINE Deaf == dockerd \in {"off", "starting"} \/ (faults = 0 /\ dockerd = "up" /\ ~subscribed)
  <1>1. Deaf' => Deaf
    <2>1. faults' = 0 => faults = 0 /\ UNCHANGED faults
      BY FaultStep
    <2>2. CASE Still
      BY <2>1, <2>2 DEF Still, DaemonStarts
    <2>3. CASE Gone
      BY <2>3 DEF Gone, DockerdGone
    <2>4. CASE Breaks
      <3>1. faults \in Nat /\ faults' = faults + 1 /\ UNCHANGED dockerd
        BY <2>4, FaultStep DEF Breaks, StreamBreaks, Fault
      <3> QED
        BY <3>1
    <2>5. CASE JobAction
      BY <2>5, UseDockerEmits DEF JobAction, Emit
    <2>6. ASSUME NEW n \in Networks, NetworkCreated(n) \/ NetworkDestroyed(n)
          PROVE  Deaf' => Deaf
      BY <2>1, <2>6 DEF NetworkCreated, NetworkDestroyed, Receive
    <2>7. ASSUME NEW c \in Containers, HearsContainer(c)
          PROVE  Deaf' => Deaf
      BY <2>1, <2>7 DEF HearsContainer, ContainerStarted, ContainerStopped, Receive
    <2> QED
      BY <2>2, <2>3, <2>4, <2>5, <2>6, <2>7, StepKinds
  <1> HIDE DEF Deaf
  <1>2. Deaf => containerInfoByID = {}
    BY DEF RegisteredInv, Deaf
  <1>3. ASSUME containerInfoByID' \subseteq containerInfoByID,
               \A c \in Containers : (eventPc = "send" /\ SendsStart(c))' => c \in containerInfoByID'
        PROVE  RegisteredInv'
    BY <1>1, <1>2, <1>3 DEF RegisteredInv, Deaf
  <1>4. CASE Aside
    <2>1. ASSUME NEW c \in Containers, (eventPc = "send" /\ SendsStart(c))'
          PROVE  eventPc = "send" /\ SendsStart(c)
      BY <1>4, <2>1 DEF Aside, Announcing, SendsStart
    <2> QED
      BY <1>3, <1>4, <2>1 DEF Aside, RegisteredInv
  <1>5. CASE AddContainerInfo
    <2>1. /\ eventPc = "add" /\ containerInfoByID' = containerInfoByID \cup {sending.id}
          /\ UNCHANGED <<sending, dockerd, subscribed, faults>>
      BY <1>5 DEF AddContainerInfo, dockerVars
    <2>2. ~Deaf
      BY <2>1 DEF Deaf, JobInv, DaemonOff, StreamOpen
    <2> QED
      BY <1>1, <2>1, <2>2 DEF RegisteredInv, SendsStart, Deaf
  <1>6. CASE ReceiveInfo /\ Announcing
    BY <1>3, <1>6, ReceiveInfoEffect
  <1>7. ASSUME NEW c \in Containers, Hears(c)
        PROVE  RegisteredInv'
    <2>1. containerInfoByID' \subseteq containerInfoByID /\ (eventPc' = "send" => sending'.action = "stop")
      BY <1>7, HearsEffect
    <2> QED
      BY <1>3, <2>1 DEF SendsStart
  <1>8. CASE UNCHANGED eventVars
    <2>1. UNCHANGED <<eventPc, sending, containerInfoByID>>
      BY <1>8 DEF eventVars
    <2> QED
      BY <1>3, <2>1 DEF RegisteredInv, SendsStart
  <1>9. ASSUME NEW pc \in Finished, End(pc)
        PROVE  RegisteredInv'
    BY <1>9 DEF End, RegisteredInv, SendsStart
  <1>10. ASSUME NEW port \in Ports, NEW pid \in Pids, AddPortProxy(port, pid), ~MainPanics
         PROVE  UNCHANGED eventVars
    BY <1>10 DEF AddPortProxy
  <1>11. ASSUME Kill
         PROVE  UNCHANGED eventVars \/ End("panicked")
    BY <1>11 DEF Kill
  <1>12. ASSUME AddProxyPortPID \/ AllPortsProxied \/ GetProxyPortPIDs \/ DeleteProxyPortPIDs \/ SocatExits
         PROVE  UNCHANGED eventVars
    BY <1>12 DEF AddProxyPortPID, AllPortsProxied, GetProxyPortPIDs, DeleteProxyPortPIDs, SocatExits
  <1>13. "panicked" \in Finished
    BY DEF Finished
  <1> QED
    BY <1>4, <1>5, <1>6, <1>7, <1>8, <1>9, <1>10, <1>11, <1>12, <1>13, ProxyKinds DEF ProxyStep

-----------------------------------------------------------------------------
(* The processes of a container that was started at most once, and has     *)
(* only ports that nobody listens on yet.                                  *)

Untouched(c) ==
    /\ c \notin containerInfoByID /\ ~SendsStart(c) /\ ~SendsStop(c)
    /\ proxyPortPIDs[c] = {} /\ OwnsNone(c) /\ ~HandlesStart(c) /\ ~HandlesStop(c)

\* Before its start is heard nothing is known of a container, and it has no process before
\* main has received it; its stop is sent and handled when it is not registered any more.
Stages(c) ==
    /\ container[c].starts = 0 \/ StartQueued(c) => Untouched(c)
    /\ SendsStart(c) => proxyPortPIDs[c] = {} /\ OwnsNone(c) /\ ~HandlesStart(c) /\ ~HandlesStop(c)
    /\ HandlesStart(c) => c \in containerInfoByID \/ SendsStop(c)
    /\ HandlesStop(c) => c \notin containerInfoByID
    /\ SendsStop(c) => c \notin containerInfoByID /\ ~HandlesStop(c)
    /\ c \notin containerInfoByID /\ ~StartQueued(c) /\ ~SendsStart(c)
         => OwnsNone(c) \/ SendsStop(c) \/ HandlesStop(c)

\* The PIDs that are remembered are those of its processes, but for the one main has just
\* started and the ones it has just killed.
Remembered(c) ==
    /\ mainPc = "forget" /\ HandlesStop(c) => OwnsNone(c)
    /\ ~(mainPc = "forget" /\ HandlesStop(c)) =>
         /\ \A p \in proxyPortPIDs[c] : Owns(c, p)
         /\ \A p \in Pids : Owns(c, p) => p \in proxyPortPIDs[c] \/ (HandlesStart(c) /\ p \in handling.pids)
    /\ HandlesStart(c) => \A p \in handling.pids : Owns(c, p)
    /\ mainPc = "kill" /\ HandlesStop(c) => handling.pids = proxyPortPIDs[c]

\* No two of them have the same port, and none the port of a process still to be started.
OnePerPort(c) ==
    /\ \A p, q \in Pids : Owns(c, p) /\ Owns(c, q) /\ socat[p].port = socat[q].port => p = q
    /\ HandlesStart(c) => \A p \in Pids : Owns(c, p) => socat[p].port \notin handling.info.ports

ProxiesOf(c) == Stages(c) /\ Remembered(c) /\ OnePerPort(c)

Tracked(c) == container[c].starts <= 1 /\ (container[c].starts = 0 \/ Exposed[c] \cap Reserved = {})
ProxiesInv == faults = 0 => \A c \in Containers : Tracked(c) => ProxiesOf(c)

\* A step that is not about the container
Others(c) ==
    /\ SendsStart(c)' <=> SendsStart(c)
    /\ SendsStop(c)' <=> SendsStop(c)
    /\ HandlesStart(c)' <=> HandlesStart(c)
    /\ HandlesStop(c)' <=> HandlesStop(c)
    /\ c \in containerInfoByID' <=> c \in containerInfoByID
    /\ proxyPortPIDs'[c] = proxyPortPIDs[c]
    /\ \A p \in Pids : Owns(c, p)' <=> Owns(c, p)
    /\ \A p \in Pids : Owns(c, p) => socat'[p] = socat[p]
    /\ HandlesStart(c) \/ HandlesStop(c) => UNCHANGED <<mainPc, handling>>
    /\ SendsStart(c) => UNCHANGED sending

\* A step that is about the container
About(c) ==
    \/ Hears(c)
    \/ AddContainerInfo /\ sending.id = c
    \/ ReceiveInfo /\ Announcing /\ sending.id = c
    \/ \E port \in Ports, pid \in Pids : AddPortProxy(port, pid) /\ ~MainPanics /\ handling.info.id = c
    \/ (AddProxyPortPID \/ AllPortsProxied \/ GetProxyPortPIDs \/ Kill \/ DeleteProxyPortPIDs) /\ handling.info.id = c

\* Without failures, a step is about the container, or not, or ends the process.
LEMMA AboutOrOthers ==
  ASSUME TypeInv, PidInv, [Next]_vars, faults' = 0, NEW c \in Containers
  PROVE  (\E pc \in Finished : End(pc)) \/ Others(c) \/ About(c)
  <1>1. CASE Aside
    BY <1>1 DEF Aside, Announcing, OnProxies, Others, SendsStart, SendsStop, HandlesStart, HandlesStop, Owns
  <1>2. CASE SocatExits
    <2>1. faults \in Nat /\ faults' = faults + 1
      BY <1>2, FaultStep DEF SocatExits, Fault
    <2> QED
      BY <2>1
  <1>3. ASSUME NEW d \in Containers, Hears(d), d # c
        PROVE  Others(c)
    BY <1>3, HearsEffect DEF Others, SendsStart, SendsStop, HandlesStart, HandlesStop, Owns
  <1>4. CASE AddContainerInfo /\ sending.id # c
    BY <1>4, AddContainerInfoEffect DEF Others, SendsStart, SendsStop, HandlesStart, HandlesStop, Owns, mainVars
  <1>5. CASE ReceiveInfo /\ Announcing /\ sending.id # c
    BY <1>5, ReceiveInfoEffect DEF Others, SendsStart, SendsStop, HandlesStart, HandlesStop, Owns
  <1>6. ASSUME NEW port \in Ports, NEW pid \in Pids, AddPortProxy(port, pid), ~MainPanics, handling.info.id # c
        PROVE  Others(c)
    <2>1. /\ mainPc = "proxy" /\ mainPc' = "remember" /\ handling'.info.id = handling.info.id
          /\ socat[pid] = None
          /\ \A p \in Pids : p # pid => socat'[p] = socat[p]
          /\ socat'[pid] = None \/ socat'[pid].id = handling.info.id
          /\ UNCHANGED <<eventPc, sending, containerInfoByID, proxyPortPIDs>>
      BY <1>6, AddPortProxyEffect DEF eventVars
    <2> QED
      BY <1>6, <2>1 DEF Others, SendsStart, SendsStop, HandlesStart, HandlesStop, Owns
  <1>7. CASE AddProxyPortPID /\ handling.info.id # c
    <2>1. /\ mainPc = "remember" /\ mainPc' = "proxy" /\ handling'.info = handling.info
          /\ proxyPortPIDs'[c] = proxyPortPIDs[c]
          /\ UNCHANGED <<eventPc, sending, containerInfoByID, socat>>
      BY <1>7, AddProxyPortPIDEffect DEF eventVars
    <2> QED
      BY <1>7, <2>1 DEF Others, SendsStart, SendsStop, HandlesStart, HandlesStop, Owns
  <1>8. CASE AllPortsProxied /\ handling.info.id # c
    <2>1. mainPc = "proxy" /\ mainPc' = "loop" /\ UNCHANGED <<eventPc, sending, containerInfoByID, socat, proxyPortPIDs>>
      BY <1>8 DEF AllPortsProxied, BackToLoop, eventVars
    <2> QED
      BY <1>8, <2>1 DEF Others, SendsStart, SendsStop, HandlesStart, HandlesStop, Owns
  <1>9. CASE GetProxyPortPIDs /\ handling.info.id # c
    <2>1. /\ mainPc = "pids" /\ mainPc' = "kill" /\ handling'.info = handling.info
          /\ UNCHANGED <<eventPc, sending, containerInfoByID, socat, proxyPortPIDs>>
      BY <1>9, GetProxyPortPIDsEffect DEF eventVars
    <2> QED
      BY <1>9, <2>1 DEF Others, SendsStart, SendsStop, HandlesStart, HandlesStop, Owns
  <1>10. CASE Kill /\ handling.info.id # c
    <2>1. CASE End("panicked")
      BY <2>1 DEF Finished
    <2>2. CASE ~End("panicked")
      <3>1. /\ mainPc = "kill" /\ mainPc' = "forget" /\ UNCHANGED handling
            /\ \A p \in Pids : socat'[p] = IF p \in handling.pids THEN None ELSE socat[p]
            /\ UNCHANGED <<eventPc, sending, containerInfoByID, proxyPortPIDs>>
        BY <1>10, <2>2, KillEffect DEF eventVars
      <3>2. \A p \in handling.pids : socat[p] # None => Owns(handling.info.id, p)
        BY <3>1 DEF PidInv
      <3> QED
        BY <1>10, <3>1, <3>2 DEF Others, SendsStart, SendsStop, HandlesStart, HandlesStop, Owns
    <2> QED
      BY <2>1, <2>2
  <1>11. CASE DeleteProxyPortPIDs /\ handling.info.id # c
    <2>1. /\ mainPc = "forget" /\ mainPc' = "loop" /\ proxyPortPIDs'[c] = proxyPortPIDs[c]
          /\ UNCHANGED <<eventPc, sending, containerInfoByID, socat>>
      BY <1>11, DeleteProxyPortPIDsEffect DEF eventVars
    <2> QED
      BY <1>11, <2>1 DEF Others, SendsStart, SendsStop, HandlesStart, HandlesStop, Owns
  <1> QED
    BY <1>1, <1>2, <1>3, <1>4, <1>5, <1>6, <1>7, <1>8, <1>9, <1>10, <1>11, ProxyKinds DEF ProxyStep, About

\* A step that is not about the container keeps what is known of its proxies.
LEMMA ProxiesOthers ==
  ASSUME NEW c \in Containers, ProxiesOf(c), Others(c), proxyPortPIDs[c] \subseteq Pids, handling.pids \subseteq Pids,
         container'[c].starts = 0 \/ StartQueued(c)' => container[c].starts = 0 \/ StartQueued(c)
  PROVE  ProxiesOf(c)'
  <1>1. OwnsNone(c)' <=> OwnsNone(c)
    BY DEF OwnsNone, Others
  <1>2. Stages(c)'
    <2>1. Untouched(c) => Untouched(c)'
      BY <1>1 DEF Untouched, Others
    <2>2. StartQueued(c) => OwnsNone(c)
      BY DEF ProxiesOf, Stages, Untouched
    <2> QED
      BY <1>1, <2>1, <2>2 DEF ProxiesOf, Stages, Others
  <1>3. Remembered(c)'
    <2>1. mainPc' = "forget" /\ HandlesStop(c)' <=> mainPc = "forget" /\ HandlesStop(c)
      BY DEF Others
    <2>2. mainPc' = "kill" /\ HandlesStop(c)' <=> mainPc = "kill" /\ HandlesStop(c)
      BY DEF Others
    <2> QED
      BY <1>1, <2>1, <2>2 DEF ProxiesOf, Remembered, Others
  <1>4. OnePerPort(c)'
    <2>1. \A p \in Pids : Owns(c, p)' => Owns(c, p) /\ socat'[p].port = socat[p].port
      BY DEF Others
    <2> QED
      BY <2>1 DEF ProxiesOf, OnePerPort, Others
  <1> QED
    BY <1>2, <1>3, <1>4 DEF ProxiesOf

\* A process that has ended has no proxies.
LEMMA ProxiesEnd ==
  ASSUME NEW pc \in Finished, End(pc), NEW c \in Containers
  PROVE  ProxiesOf(c)'
  <1>1. mainPc' \in Finished /\ eventPc' = "off" /\ containerInfoByID' = {} /\ proxyPortPIDs'[c] = {}
    BY DEF End, Each
  <1>2. \A p \in Pids : socat'[p] = None
    BY DEF End, Each
  <1>3. OwnsNone(c)' /\ ~SendsStart(c)' /\ ~SendsStop(c)' /\ ~HandlesStart(c)' /\ ~HandlesStop(c)'
    BY <1>1, <1>2 DEF OwnsNone, Owns, SendsStart, SendsStop, HandlesStart, HandlesStop, Finished
  <1> QED
    BY <1>1, <1>3 DEF ProxiesOf, Stages, Untouched, Remembered, OnePerPort, OwnsNone

\* The event loop hears of the container.
LEMMA ProxiesHears ==
  ASSUME TypeInv, HistoryInv, NEW c \in Containers, container[c].starts <= 1, ProxiesOf(c), Hears(c)
  PROVE  ProxiesOf(c)'
  <1>1. DockerTypes /\ HistoryOf(c)
    BY TypeParts DEF HistoryInv
  <1>2. /\ eventPc = "select" /\ UNCHANGED <<mainPc, handling, socat, proxyPortPIDs, container>>
        /\ \/ /\ Receive(<<"start", c>>) /\ eventPc' = "add"
              /\ sending'.action = "start" /\ sending'.id = c /\ UNCHANGED containerInfoByID
           \/ /\ Receive(<<"stop", c>>) /\ eventPc' = "send" /\ sending'.action = "stop" /\ sending'.id = c
              /\ c \in containerInfoByID /\ containerInfoByID' = containerInfoByID \ {c}
    BY HearsEffect
  <1>3. /\ ~SendsStart(c) /\ ~SendsStop(c)
        /\ HandlesStart(c)' <=> HandlesStart(c)
        /\ HandlesStop(c)' <=> HandlesStop(c)
        /\ \A p : Owns(c, p)' <=> Owns(c, p)
        /\ OwnsNone(c)' <=> OwnsNone(c)
    BY <1>2 DEF SendsStart, SendsStop, HandlesStart, HandlesStop, Owns, OwnsNone
  <1>4. Remembered(c)' /\ OnePerPort(c)'
    BY <1>2, <1>3 DEF ProxiesOf, Remembered, OnePerPort
  <1>5. CASE Receive(<<"start", c>>)
    <2>1. At(1, <<"start", c>>) /\ \A i \in Nat : At(i, <<"start", c>>)' => i >= 1 /\ At(i + 1, <<"start", c>>)
      BY <1>1, <1>5, QueueReceive, EventNames
    <2>2. ~StartQueued(c)'
      <3>1. \A i \in Nat : At(i + 1, <<"start", c>>) => i + 1 = 1
        BY <1>1, <2>1 DEF HistoryOf, ToldInOrder
      <3> QED
        BY <2>1, <3>1 DEF StartQueued, Queued
    <2>3. StartQueued(c)
      BY <2>1 DEF StartQueued, Queued
    <2>4. Untouched(c) /\ container[c].starts # 0
      BY <1>1, <2>3 DEF ProxiesOf, Stages, HistoryOf, NeverStarted
    <2>5. eventPc' = "add" /\ sending'.action = "start" /\ UNCHANGED containerInfoByID
      BY <1>2, <1>5, EventNames DEF Receive
    <2>6. SendsStart(c)' /\ ~SendsStop(c)'
      BY <1>2, <2>5 DEF SendsStart, SendsStop
    <2>7. Stages(c)'
      BY <1>2, <1>3, <2>2, <2>4, <2>5, <2>6 DEF Stages, Untouched
    <2> QED
      BY <1>4, <2>7 DEF ProxiesOf
  <1>6. CASE Receive(<<"stop", c>>)
    <2>1. At(1, <<"stop", c>>) /\ (StartQueued(c)' => StartQueued(c))
      BY <1>1, <1>6, QueueReceive, EventNames DEF StartQueued
    <2>2. eventPc' = "send" /\ sending'.action = "stop" /\ c \in containerInfoByID /\ c \notin containerInfoByID'
      BY <1>2, <1>6, EventNames DEF Receive
    <2>3. SendsStop(c)' /\ ~SendsStart(c)'
      BY <1>2, <2>2 DEF SendsStart, SendsStop
    <2>4. ~StartQueued(c) /\ container[c].starts # 0
      BY <2>2 DEF ProxiesOf, Stages, Untouched
    <2>5. Stages(c)'
      BY <1>2, <1>3, <2>1, <2>2, <2>3, <2>4 DEF ProxiesOf, Stages
    <2> QED
      BY <1>4, <2>5 DEF ProxiesOf
  <1> QED
    BY <1>2, <1>5, <1>6

\* The event loop registers the container and main takes what it sends about it.
LEMMA ProxiesSent ==
  ASSUME TypeInv, RegisteredInv, NEW c \in Containers, ProxiesOf(c), sending.id = c,
         AddContainerInfo \/ (ReceiveInfo /\ Announcing)
  PROVE  ProxiesOf(c)'
  <1>1. CASE AddContainerInfo
    <2>1. /\ eventPc = "add" /\ eventPc' = "send" /\ sending.action = "start" /\ c \in containerInfoByID'
          /\ proxyPortPIDs'[c] = {} /\ UNCHANGED <<sending, mainPc, handling, socat, container, events>>
      BY <1>1, AddContainerInfoEffect, InfoKinds DEF mainVars, dockerVars
    <2>2. SendsStart(c) /\ SendsStart(c)' /\ ~SendsStop(c)'
      BY <2>1 DEF SendsStart, SendsStop
    <2>3. ~HandlesStart(c) /\ ~HandlesStop(c) /\ OwnsNone(c) /\ ~StartQueued(c) /\ container[c].starts # 0
      BY <2>2 DEF ProxiesOf, Stages, Untouched
    <2>4. ~HandlesStart(c)' /\ ~HandlesStop(c)' /\ OwnsNone(c)' /\ ~StartQueued(c)'
      BY <2>1, <2>3 DEF HandlesStart, HandlesStop, OwnsNone, Owns, StartQueued, Queued, At
    <2>5. Stages(c)'
      BY <2>1, <2>2, <2>3, <2>4 DEF Stages
    <2>6. Remembered(c)' /\ OnePerPort(c)'
      BY <2>1, <2>4 DEF Remembered, OnePerPort, OwnsNone
    <2> QED
      BY <2>5, <2>6 DEF ProxiesOf
  <1>2. CASE ReceiveInfo /\ Announcing
    <2>1. /\ mainPc = "loop" /\ eventPc = "send" /\ eventPc' = "select"
          /\ handling'.info = sending /\ handling'.pids = {}
          /\ UNCHANGED <<containerInfoByID, socat, proxyPortPIDs, container, events>>
      BY <1>2, ReceiveInfoEffect DEF dockerVars
    <2>2. /\ ~HandlesStart(c) /\ ~HandlesStop(c) /\ ~SendsStart(c)' /\ ~SendsStop(c)'
          /\ \A p : Owns(c, p)' <=> Owns(c, p)
          /\ OwnsNone(c)' <=> OwnsNone(c)
          /\ StartQueued(c)' <=> StartQueued(c)
      BY <2>1 DEF HandlesStart, HandlesStop, SendsStart, SendsStop, OwnsNone, Owns, StartQueued, Queued, At
    <2>3. CASE sending.action = "start"
      <3>1. mainPc' = "proxy"
        BY <1>2, <2>3, ReceiveInfoEffect
      <3>2. HandlesStart(c)' /\ ~HandlesStop(c)' /\ SendsStart(c)
        BY <2>1, <2>3, <3>1 DEF HandlesStart, HandlesStop, SendsStart
      <3>3. c \in containerInfoByID
        BY <2>1, <3>2 DEF RegisteredInv
      <3>4. proxyPortPIDs[c] = {} /\ OwnsNone(c) /\ ~StartQueued(c) /\ container[c].starts # 0
        BY <3>2 DEF ProxiesOf, Stages, Untouched
      <3>5. Stages(c)'
        BY <2>1, <2>2, <3>2, <3>3, <3>4 DEF Stages
      <3>6. Remembered(c)' /\ OnePerPort(c)'
        BY <2>1, <2>2, <3>1, <3>2, <3>4 DEF Remembered, OnePerPort, OwnsNone
      <3> QED
        BY <3>5, <3>6 DEF ProxiesOf
    <2>4. CASE sending.action = "stop"
      <3>1. mainPc' = "pids"
        BY <1>2, <2>4, ReceiveInfoEffect
      <3>2. HandlesStop(c)' /\ ~HandlesStart(c)' /\ SendsStop(c) /\ ~SendsStart(c)
        BY <2>1, <2>4, <3>1 DEF HandlesStart, HandlesStop, SendsStart, SendsStop
      <3>3. c \notin containerInfoByID /\ ~StartQueued(c) /\ container[c].starts # 0
        BY <3>2 DEF ProxiesOf, Stages, Untouched
      <3>4. Stages(c)'
        BY <2>1, <2>2, <3>2, <3>3 DEF Stages
      <3>5. Remembered(c)' /\ OnePerPort(c)'
        BY <2>1, <2>2, <3>1, <3>2 DEF ProxiesOf, Remembered, OnePerPort
      <3> QED
        BY <3>4, <3>5 DEF ProxiesOf
    <2> QED
      BY <1>2, <2>3, <2>4, ReceiveInfoEffect
  <1> QED
    BY <1>1, <1>2

\* A step of main leaves what the event loop and the daemon have of a container alone.
LEMMA MainStepView ==
  ASSUME NEW c \in Containers, UNCHANGED <<eventVars, dockerVars>>
  PROVE  /\ SendsStart(c)' <=> SendsStart(c)
         /\ SendsStop(c)' <=> SendsStop(c)
         /\ StartQueued(c)' <=> StartQueued(c)
         /\ StopQueued(c)' <=> StopQueued(c)
         /\ UNCHANGED <<container, containerInfoByID, sending, dockerd, lost>>
  BY DEF SendsStart, SendsStop, StartQueued, StopQueued, Queued, At, eventVars, dockerVars

\* Main starts the processes of the container, one by one.
LEMMA ProxiesStart ==
  ASSUME TypeInv, PidInv, NEW c \in Containers, Tracked(c), ProxiesOf(c), handling.info.id = c,
         \/ \E port \in Ports, pid \in Pids : AddPortProxy(port, pid) /\ ~MainPanics
         \/ AddProxyPortPID \/ AllPortsProxied
  PROVE  ProxiesOf(c)'
  <1>1. ASSUME NEW port \in Ports, NEW pid \in Pids, AddPortProxy(port, pid), ~MainPanics
        PROVE  ProxiesOf(c)'
    <2> DEFINE taken == port \in Reserved \/ \E p \in Pids : Owns(c, p) /\ socat[p].port = port
    <2>1. /\ mainPc = "proxy" /\ mainPc' = "remember" /\ port \in handling.info.ports /\ port \in Exposed[c]
          /\ handling'.info.id = c /\ handling'.pids = {pid} /\ handling.pids = {}
          /\ handling'.info.ports = handling.info.ports \ {port}
          /\ socat[pid] = None
          /\ \A p \in Pids : p # pid => socat'[p] = socat[p]
          /\ ~taken => socat'[pid] # None /\ socat'[pid].id = c /\ socat'[pid].port = port
          /\ UNCHANGED proxyPortPIDs
      BY <1>1, AddPortProxyEffect
    <2>2. UNCHANGED <<eventVars, dockerVars>>
      BY <1>1, AddPortProxyEffect
    <2>3. HandlesStart(c) /\ HandlesStart(c)' /\ ~HandlesStop(c) /\ ~HandlesStop(c)'
      BY <2>1 DEF HandlesStart, HandlesStop
    <2>4. ~taken
      BY <2>1, <2>3 DEF ProxiesOf, OnePerPort, Stages, Untouched, Tracked
    <2>5. /\ \A p \in Pids : Owns(c, p)' <=> Owns(c, p) \/ p = pid
          /\ \A p \in Pids : Owns(c, p) => p # pid /\ socat'[p] = socat[p]
          /\ socat'[pid].port = port
      BY <2>1, <2>4 DEF Owns
    <2>6. ~StartQueued(c) /\ ~SendsStart(c) /\ container[c].starts # 0 /\ (c \in containerInfoByID \/ SendsStop(c))
      BY <2>3 DEF ProxiesOf, Stages, Untouched
    <2>7. Stages(c)'
      BY <2>2, <2>3, <2>6, MainStepView DEF ProxiesOf, Stages
    <2>8. Remembered(c)'
      <3>1. \A p \in proxyPortPIDs[c] : Owns(c, p) /\ p \in Pids
        BY <2>3, HandlingTypes DEF ProxiesOf, Remembered
      <3>2. \A p \in Pids : Owns(c, p) => p \in proxyPortPIDs[c]
        BY <2>1, <2>3 DEF ProxiesOf, Remembered
      <3> QED
        BY <2>1, <2>3, <2>5, <3>1, <3>2 DEF Remembered
    <2>9. OnePerPort(c)'
      <3>1. \A p \in Pids : Owns(c, p) => socat[p].port \notin handling.info.ports
        BY <2>3 DEF ProxiesOf, OnePerPort
      <3>2. \A p, q \in Pids : Owns(c, p) /\ Owns(c, q) /\ socat[p].port = socat[q].port => p = q
        BY DEF ProxiesOf, OnePerPort
      <3>3. \A p, q \in Pids : Owns(c, p)' /\ Owns(c, q)' /\ socat'[p].port = socat'[q].port => p = q
        BY <2>1, <2>5, <3>1, <3>2
      <3>4. \A p \in Pids : Owns(c, p)' => socat'[p].port \notin handling'.info.ports
        BY <2>1, <2>5, <3>1
      <3> QED
        BY <3>3, <3>4 DEF OnePerPort
    <2> QED
      BY <2>7, <2>8, <2>9 DEF ProxiesOf
  <1>2. CASE AddProxyPortPID
    <2>1. /\ mainPc = "remember" /\ mainPc' = "proxy"
          /\ handling'.info = handling.info /\ handling'.pids = {}
          /\ proxyPortPIDs'[c] = proxyPortPIDs[c] \cup handling.pids
          /\ UNCHANGED socat
      BY <1>2, AddProxyPortPIDEffect
    <2>2. UNCHANGED <<eventVars, dockerVars>>
      BY <1>2, AddProxyPortPIDEffect
    <2>3. HandlesStart(c) /\ HandlesStart(c)' /\ ~HandlesStop(c) /\ ~HandlesStop(c)'
      BY <2>1 DEF HandlesStart, HandlesStop
    <2>4. \A p : Owns(c, p)' <=> Owns(c, p)
      BY <2>1 DEF Owns
    <2>5. ~StartQueued(c) /\ ~SendsStart(c) /\ container[c].starts # 0 /\ (c \in containerInfoByID \/ SendsStop(c))
      BY <2>3 DEF ProxiesOf, Stages, Untouched
    <2>6. Stages(c)'
      BY <2>2, <2>3, <2>5, MainStepView DEF ProxiesOf, Stages
    <2>7. Remembered(c)'
      BY <2>1, <2>3, <2>4 DEF ProxiesOf, Remembered
    <2>8. OnePerPort(c)'
      BY <2>1, <2>3, <2>4 DEF ProxiesOf, OnePerPort
    <2> QED
      BY <2>6, <2>7, <2>8 DEF ProxiesOf
  <1>3. CASE AllPortsProxied
    <2>1. mainPc = "proxy" /\ mainPc' = "loop" /\ UNCHANGED <<socat, proxyPortPIDs>>
      BY <1>3 DEF AllPortsProxied, BackToLoop
    <2>2. UNCHANGED <<eventVars, dockerVars>>
      BY <1>3 DEF AllPortsProxied
    <2>3. HandlesStart(c) /\ ~HandlesStart(c)' /\ ~HandlesStop(c) /\ ~HandlesStop(c)' /\ handling.pids = {}
      BY <2>1 DEF HandlesStart, HandlesStop, PidInv
    <2>4. /\ \A p : Owns(c, p)' <=> Owns(c, p)
          /\ OwnsNone(c)' <=> OwnsNone(c)
      BY <2>1 DEF Owns, OwnsNone
    <2>5. ~StartQueued(c) /\ ~SendsStart(c) /\ container[c].starts # 0 /\ (c \in containerInfoByID \/ SendsStop(c))
      BY <2>3 DEF ProxiesOf, Stages, Untouched
    <2>6. Stages(c)'
      BY <2>2, <2>3, <2>5, MainStepView DEF ProxiesOf, Stages
    <2>7. Remembered(c)' /\ OnePerPort(c)'
      BY <2>1, <2>3, <2>4 DEF ProxiesOf, Remembered, OnePerPort
    <2> QED
      BY <2>6, <2>7 DEF ProxiesOf
  <1> QED
    BY <1>1, <1>2, <1>3

\* Main kills the processes of the container: it has the PIDs of all of them, and all of them
\* run.
LEMMA ProxiesStop ==
  ASSUME TypeInv, NEW c \in Containers, ProxiesOf(c), handling.info.id = c,
         GetProxyPortPIDs \/ Kill \/ DeleteProxyPortPIDs
  PROVE  ProxiesOf(c)' /\ (Kill => handling.pids \subseteq Running)
  <1>1. CASE GetProxyPortPIDs
    <2>1. /\ mainPc = "pids" /\ mainPc' = "kill"
          /\ handling'.info = handling.info /\ handling'.pids = proxyPortPIDs[c]
          /\ UNCHANGED <<socat, proxyPortPIDs>>
      BY <1>1, GetProxyPortPIDsEffect
    <2>2. UNCHANGED <<eventVars, dockerVars>>
      BY <1>1, GetProxyPortPIDsEffect
    <2>3. ~HandlesStart(c) /\ ~HandlesStart(c)' /\ HandlesStop(c) /\ HandlesStop(c)' /\ ~Kill
      BY <2>1 DEF HandlesStart, HandlesStop, Kill
    <2>4. /\ \A p : Owns(c, p)' <=> Owns(c, p)
          /\ OwnsNone(c)' <=> OwnsNone(c)
      BY <2>1 DEF Owns, OwnsNone
    <2>5. ~StartQueued(c) /\ ~SendsStart(c) /\ container[c].starts # 0 /\ c \notin containerInfoByID /\ ~SendsStop(c)
      BY <2>3 DEF ProxiesOf, Stages, Untouched
    <2>6. Stages(c)'
      BY <2>2, <2>3, <2>5, MainStepView DEF ProxiesOf, Stages
    <2>7. Remembered(c)' /\ OnePerPort(c)'
      BY <2>1, <2>3, <2>4 DEF ProxiesOf, Remembered, OnePerPort
    <2> QED
      BY <2>3, <2>6, <2>7 DEF ProxiesOf
  <1>2. CASE Kill
    <2>1. mainPc = "kill"
      BY <1>2 DEF Kill
    <2>2. ~HandlesStart(c) /\ HandlesStop(c)
      BY <2>1 DEF HandlesStart, HandlesStop
    <2>3. /\ handling.pids = proxyPortPIDs[c]
          /\ \A p \in proxyPortPIDs[c] : Owns(c, p)
          /\ \A p \in Pids : Owns(c, p) => p \in proxyPortPIDs[c]
      BY <2>1, <2>2 DEF ProxiesOf, Remembered
    <2>4. handling.pids \subseteq Running
      BY <2>3, HandlingTypes DEF Running, Owns
    <2>5. /\ mainPc' = "forget" /\ UNCHANGED <<handling, proxyPortPIDs, eventVars, dockerVars>>
          /\ \A p \in Pids : socat'[p] = IF p \in handling.pids THEN None ELSE socat[p]
      BY <1>2, <2>4, KillEffect
    <2>6. ~HandlesStart(c)' /\ HandlesStop(c)'
      BY <2>5 DEF HandlesStart, HandlesStop
    <2>7. OwnsNone(c)' /\ \A p \in Pids : ~Owns(c, p)'
      BY <2>3, <2>5 DEF OwnsNone, Owns
    <2>8. ~StartQueued(c) /\ ~SendsStart(c) /\ container[c].starts # 0 /\ c \notin containerInfoByID /\ ~SendsStop(c)
      BY <2>2 DEF ProxiesOf, Stages, Untouched
    <2>9. Stages(c)'
      BY <2>5, <2>6, <2>8, MainStepView DEF ProxiesOf, Stages
    <2>10. Remembered(c)' /\ OnePerPort(c)'
      BY <2>5, <2>6, <2>7 DEF Remembered, OnePerPort
    <2> QED
      BY <2>4, <2>9, <2>10 DEF ProxiesOf
  <1>3. CASE DeleteProxyPortPIDs
    <2>1. mainPc = "forget" /\ mainPc' = "loop" /\ proxyPortPIDs'[c] = {} /\ UNCHANGED socat
      BY <1>3, DeleteProxyPortPIDsEffect
    <2>2. UNCHANGED <<eventVars, dockerVars>>
      BY <1>3, DeleteProxyPortPIDsEffect
    <2>3. ~HandlesStart(c) /\ ~HandlesStart(c)' /\ HandlesStop(c) /\ ~HandlesStop(c)' /\ ~Kill
      BY <2>1 DEF HandlesStart, HandlesStop, Kill
    <2>4. OwnsNone(c)
      BY <2>1, <2>3 DEF ProxiesOf, Remembered
    <2>5. OwnsNone(c)' /\ \A p \in Pids : ~Owns(c, p)'
      BY <2>1, <2>4 DEF Owns, OwnsNone
    <2>6. ~StartQueued(c) /\ ~SendsStart(c) /\ container[c].starts # 0 /\ c \notin containerInfoByID /\ ~SendsStop(c)
      BY <2>3 DEF ProxiesOf, Stages, Untouched
    <2>7. Stages(c)'
      BY <2>2, <2>3, <2>5, <2>6, MainStepView DEF ProxiesOf, Stages
    <2>8. Remembered(c)' /\ OnePerPort(c)'
      BY <2>1, <2>3, <2>5 DEF Remembered, OnePerPort
    <2> QED
      BY <2>3, <2>7, <2>8 DEF ProxiesOf
  <1> QED
    BY <1>1, <1>2, <1>3

\* A container's starts are counted; its first start is told when there was none.
LEMMA StartsGrow ==
  ASSUME TypeInv, JobInv, [Next]_vars, NEW c \in Containers
  PROVE  /\ container[c].starts \in Nat /\ container'[c].starts \in Nat /\ container[c].starts <= container'[c].starts
         /\ container'[c].starts <= 1 =>
               (container'[c].starts = 0 \/ StartQueued(c)' => container[c].starts = 0 \/ StartQueued(c))
  <1>1. DockerTypes /\ container[c].starts \in Nat
    BY TypeParts DEF DockerTypes, DockerTypeOK, ContainerStates
  <1>2. CASE Still \/ Breaks \/ Gone \/ \E e : Receive(e)
    <2>1. container'[c].starts = container[c].starts
      BY <1>1, <1>2, GoneFacts DEF Still, Breaks, StreamBreaks, Gone, Receive
    <2>2. CASE Still
      BY <1>1, <2>1, <2>2 DEF Still, StartQueued, Queued, At
    <2>3. CASE Breaks \/ Gone
      <3>1. events' = <<>>
        BY <1>1, <2>3, GoneFacts DEF Breaks, StreamBreaks, Gone
      <3>2. Len(events') = 0
        BY <3>1, EmptySeq
      <3>3. ~StartQueued(c)'
        BY <3>2 DEF StartQueued, Queued, At
      <3> QED
        BY <1>1, <2>1, <3>3
    <2>4. ASSUME NEW e, Receive(e)
          PROVE  StartQueued(c)' => StartQueued(c)
      BY <1>1, <2>4, QueueReceive, EventNames DEF StartQueued
    <2> QED
      BY <1>1, <1>2, <2>1, <2>2, <2>3, <2>4
  <1>3. ASSUME NEW event \in Events, NEW es \in {<<event>>, <<event, event>>}, Emit(es), event # <<"start", c>>
        PROVE  StartQueued(c)' => StartQueued(c)
    BY <1>1, <1>3, QueueEmit, EventNames DEF StartQueued
  <1>4. ASSUME NEW n \in Networks, CreateNetwork(n) \/ RemoveNetwork(n)
        PROVE  UNCHANGED container /\ (StartQueued(c)' => StartQueued(c))
    <2>1. UNCHANGED container /\ (Emit(<<<<"create", n>>>>) \/ Emit(<<<<"destroy", n>>>>))
      BY <1>4 DEF CreateNetwork, RemoveNetwork
    <2>2. <<"create", n>> # <<"start", c>> /\ <<"destroy", n>> # <<"start", c>>
      BY EventNames
    <2> QED
      BY <1>3, <2>1, <2>2, EventNames
  <1>5. ASSUME NEW d \in Containers, StopContainer(d)
        PROVE  container'[c].starts = container[c].starts /\ (StartQueued(c)' => StartQueued(c))
    <2>1. Emit(<<<<"stop", d>>>>) \/ Emit(<<<<"stop", d>>, <<"stop", d>>>>)
      BY <1>5 DEF StopContainer
    <2>2. <<"stop", d>> # <<"start", c>>
      BY EventNames
    <2> QED
      BY <1>1, <1>3, <1>5, <2>1, <2>2, EventNames, StopFields
  <1>6. ASSUME NEW d \in Containers, NEW n \in Networks, StartContainer(d, n)
        PROVE  \/ container'[c] = container[c] /\ (StartQueued(c)' => StartQueued(c))
               \/ container'[c].starts = container[c].starts + 1
    <2>1. Emit(<<<<"start", d>>>>)
      BY <1>6 DEF StartContainer
    <2>2. CASE c = d
      <3>1. container'[c] = [running |-> TRUE, starts |-> container[c].starts + 1, network |-> n]
        BY <1>1, <1>6, <2>2 DEF StartContainer, DockerTypes, DockerTypeOK
      <3> QED
        BY <3>1
    <2>3. CASE c # d
      <3>1. container'[c] = container[c] /\ <<"start", d>> # <<"start", c>>
        BY <1>6, <2>3, EventNames DEF StartContainer
      <3> QED
        BY <1>3, <2>1, <3>1, EventNames
    <2> QED
      BY <2>2, <2>3
  <1>7. CASE UseDocker
    BY <1>1, <1>4, <1>5, <1>6, <1>7 DEF UseDocker
  <1>8. ASSUME NEW n \in Networks, NetworkCreated(n) \/ NetworkDestroyed(n)
        PROVE  \E e : Receive(e)
    BY <1>8 DEF NetworkCreated, NetworkDestroyed
  <1>9. ASSUME NEW d \in Containers, HearsContainer(d)
        PROVE  \E e : Receive(e)
    BY <1>9 DEF HearsContainer, ContainerStarted, ContainerStopped
  <1> QED
    BY <1>2, <1>7, <1>8, <1>9, StepKinds DEF JobAction

\* Initially there are no proxies.
LEMMA ProxiesInit == Init => ProxiesInv
  <1> SUFFICES ASSUME Init, NEW c \in Containers
               PROVE  ProxiesOf(c)
    BY DEF ProxiesInv
  <1>1. mainPc \in {"new", "absent"} /\ eventPc = "off" /\ containerInfoByID = {} /\ proxyPortPIDs[c] = {}
    BY DEF Init, DindInit, Each
  <1>2. \A p \in Pids : socat[p] = None
    BY DEF Init, DindInit, Each
  <1>3. OwnsNone(c) /\ ~SendsStart(c) /\ ~SendsStop(c) /\ ~HandlesStart(c) /\ ~HandlesStop(c)
    BY <1>1, <1>2 DEF OwnsNone, Owns, SendsStart, SendsStop, HandlesStart, HandlesStop
  <1> QED
    BY <1>1, <1>3 DEF ProxiesOf, Stages, Untouched, Remembered, OnePerPort, OwnsNone

PodInv == TypeInv /\ JobInv /\ NetInv /\ CrowdInv /\ HistoryInv /\ PidInv /\ RegisteredInv

\* Every step keeps what is known of the proxies.
LEMMA ProxiesNext == PodInv /\ ProxiesInv /\ [Next]_vars => ProxiesInv'
  <1> SUFFICES ASSUME PodInv, ProxiesInv, [Next]_vars, faults' = 0, NEW c \in Containers, Tracked(c)'
               PROVE  ProxiesOf(c)'
    BY DEF ProxiesInv
  <1> USE DEF PodInv
  <1>1. /\ container[c].starts <= 1 /\ Tracked(c)
        /\ container'[c].starts = 0 \/ StartQueued(c)' => container[c].starts = 0 \/ StartQueued(c)
    BY StartsGrow DEF Tracked
  <1>2. ProxiesOf(c)
    BY <1>1, FaultStep DEF ProxiesInv
  <1>3. ASSUME NEW pc \in Finished, End(pc)
        PROVE  ProxiesOf(c)'
    BY <1>3, ProxiesEnd
  <1>4. CASE Others(c)
    <2>1. proxyPortPIDs[c] \subseteq Pids /\ handling.pids \subseteq Pids
      BY HandlingTypes
    <2> QED
      BY <1>1, <1>2, <1>4, <2>1, ProxiesOthers
  <1>5. CASE About(c)
    <2>1. CASE Hears(c)
      BY <1>1, <1>2, <2>1, ProxiesHears
    <2>2. CASE (AddContainerInfo \/ (ReceiveInfo /\ Announcing)) /\ sending.id = c
      BY <1>2, <2>2, ProxiesSent
    <2>3. CASE /\ handling.info.id = c
               /\ \/ \E port \in Ports, pid \in Pids : AddPortProxy(port, pid) /\ ~MainPanics
                  \/ AddProxyPortPID \/ AllPortsProxied
      BY <1>1, <1>2, <2>3, ProxiesStart
    <2>4. CASE handling.info.id = c /\ (GetProxyPortPIDs \/ Kill \/ DeleteProxyPortPIDs)
      BY <1>2, <2>4, ProxiesStop
    <2> QED
      BY <1>5, <2>1, <2>2, <2>3, <2>4 DEF About
  <1> QED
    BY <1>3, <1>4, <1>5, AboutOrOthers

-----------------------------------------------------------------------------
(* Panics.                                                                 *)

\* How dind panics
LEMMA PanicKinds ==
  ASSUME TypeInv, [Next]_vars, mainPc # "panicked", mainPc' = "panicked"
  PROVE  \/ MainPanics \/ (Kill /\ End("panicked"))
         \/ (\E n \in Networks : NoOctetLeft(n)) \/ (\E port \in Ports : NoSocatCommand(port))
  <1> SUFFICES ASSUME ~MainPanics, ~(Kill /\ End("panicked")),
                      \A n \in Networks : ~NoOctetLeft(n), \A port \in Ports : ~NoSocatCommand(port)
               PROVE  FALSE
    OBVIOUS
  <1>1. ASSUME NEW pc, End(pc), pc # "panicked"
        PROVE  FALSE
    BY <1>1 DEF End
  <1>2. CASE DindStep
    <2>1. CASE EventLoop
      <3>1. UNCHANGED mainPc
        BY <2>1 DEF EventLoop, Subscribe, StreamEnded, AddContainerInfo, NetworkCreated, NetworkDestroyed,
                    ContainerStarted, ContainerStopped, mainVars
      <3> QED
        BY <3>1
    <2>2. CASE Main
      <3>1. CASE Begin \/ Boot \/ StartDockerd \/ WaitForDockerd \/ StartEventLoop
        BY <3>1 DEF Begin, Boot, StartDockerd, WaitForDockerd, StartEventLoop, MainGoto
      <3>2. CASE ReceiveInfo
        <4>1. eventPc = "send" /\ mainPc' = Handler[sending.action]
          BY <3>2 DEF ReceiveInfo
        <4>2. sending \in Infos
          BY <4>1 DEF TypeInv, EventShapes
        <4>3. sending.action \in {"create", "destroy", "start", "stop"}
          BY <4>2, InfoKinds
        <4> QED
          BY <4>1, <4>3 DEF Handler
      <3>3. CASE LeaveLoop
        BY <1>1, <3>3 DEF LeaveLoop
      <3>4. CASE SetupNetworkPortForward \/ SetdownNetworkPortForward \/ AllPortsProxied
        BY <3>4 DEF SetupNetworkPortForward, SetdownNetworkPortForward, AllPortsProxied, BackToLoop
      <3>5. ASSUME NEW port \in Ports, NEW pid \in Pids, AddPortProxy(port, pid)
            PROVE  FALSE
        <4>1. mainPc' = "remember"
          BY <3>5 DEF AddPortProxy
        <4> QED
          BY <4>1
      <3>6. CASE AddProxyPortPID \/ GetProxyPortPIDs \/ DeleteProxyPortPIDs
        BY <3>6 DEF AddProxyPortPID, GetProxyPortPIDs, DeleteProxyPortPIDs, BackToLoop
      <3>7. CASE Kill
        BY <3>7 DEF Kill
      <3> QED
        BY <2>2, <3>1, <3>2, <3>3, <3>4, <3>5, <3>6, <3>7 DEF Main
    <2>3. CASE ConcurrentMapAccess \/ Interrupted
      BY <1>1, <2>3 DEF ConcurrentMapAccess, Interrupted
    <2>4. CASE SocatExits \/ Docker
      BY <2>4 DEF SocatExits, Docker, dindVars, mainVars
    <2> QED
      BY <1>2, <2>1, <2>2, <2>3, <2>4 DEF DindStep, Dind
  <1>3. CASE RunnerStep \/ JobUsesDocker \/ Terminate \/ UNCHANGED vars
    BY <1>3 DEF RunnerStep, JobUsesDocker, Terminate, vars, dindVars, mainVars
  <1>4. CASE GracePeriodEnds
    BY <1>1, <1>4 DEF GracePeriodEnds, dindVars, mainVars
  <1>5. CASE ProbeFails
    BY <1>1, <1>5 DEF ProbeFails
  <1> QED
    BY <1>2, <1>3, <1>4, <1>5 DEF Next

\* A container with a port that socat cannot listen on has been started.
BadPort == \E c \in Containers : container[c].starts > 0 /\ ~(Exposed[c] \subseteq Proxyable \ Reserved)

\* The causes do not go away.
LEMMA CausesStay ==
  ASSUME PodInv, [Next]_vars
  PROVE  /\ StartedAgain => StartedAgain'
         /\ BadPort => BadPort'
         /\ peak > MaxOctet => peak' > MaxOctet
  <1> USE DEF PodInv
  <1>1. \A c \in Containers : container[c].starts \in Nat /\ container'[c].starts \in Nat /\ container[c].starts <= container'[c].starts
    BY StartsGrow
  <1>2. peak \in Nat /\ peak' \in Nat /\ MaxOctet \in Nat
    BY TypeNext, DindBounds DEF TypeInv, TypeOK, DockerTypeOK
  <1>3. peak <= peak'
    <2>1. CASE UNCHANGED peak
      BY <1>2, <2>1
    <2>2. CASE JobAction
      <3>1. ASSUME NEW n \in Networks, CreateNetwork(n)
            PROVE  \E x : peak' = IF x > peak THEN x ELSE peak
        BY <3>1, Zenon DEF CreateNetwork
      <3>2. ASSUME NEW x, peak' = IF x > peak THEN x ELSE peak
            PROVE  peak <= peak'
        BY <1>2, <3>2
      <3>3. ASSUME NEW c \in Containers, NEW n \in Networks, StartContainer(c, n)
            PROVE  UNCHANGED peak
        BY <3>3 DEF StartContainer
      <3> QED
        BY <2>1, <2>2, <3>1, <3>2, <3>3 DEF JobAction, UseDocker, RemoveNetwork, StopContainer
    <2>3. CASE ~JobAction
      <3>1. Still \/ Gone \/ Breaks \/ \E e : Receive(e)
        BY <2>3, StepKinds DEF NetworkCreated, NetworkDestroyed, HearsContainer, ContainerStarted, ContainerStopped
      <3> QED
        BY <2>1, <3>1 DEF Still, Gone, DockerdGone, Breaks, StreamBreaks, Receive
    <2> QED
      BY <2>2, <2>3
  <1>4. StartedAgain => StartedAgain'
    BY <1>1 DEF StartedAgain
  <1>5. BadPort => BadPort'
    BY <1>1 DEF BadPort
  <1> QED
    BY <1>2, <1>3, <1>4, <1>5

\* A step in which dind panics has a cause.
LEMMA PanicNext == PodInv /\ ProxiesInv /\ PanicHasCause /\ [Next]_vars => PanicHasCause'
  <1> SUFFICES ASSUME PodInv, ProxiesInv, PanicHasCause, [Next]_vars,
                      mainPc' = "panicked", ~StartedAgain', ~(faults' > 0), ~(peak' > MaxOctet), ~BadPort'
               PROVE  FALSE
    BY DEF PanicHasCause, BadPort
  <1> USE DEF PodInv
  <1>1. faults = 0 /\ faults' = 0
    <2>1. faults' \in Nat
      BY TypeNext DEF TypeInv, TypeOK, DockerTypeOK
    <2>2. faults' = 0
      BY <2>1
    <2> QED
      BY <2>2, FaultStep
  <1>2. ~StartedAgain /\ ~BadPort /\ peak <= MaxOctet
    <2>1. peak \in Nat /\ MaxOctet \in Nat
      BY DindBounds DEF TypeInv, TypeOK, DockerTypeOK
    <2> QED
      BY <2>1, CausesStay
  <1>3. \A c \in Containers : Tracked(c)
    <2> SUFFICES ASSUME NEW c \in Containers
                 PROVE  Tracked(c)
      OBVIOUS
    <2>1. container[c].starts \in Nat
      BY StartsGrow
    <2>2. ~(container[c].starts > 1) /\ (~(container[c].starts > 0) \/ Exposed[c] \subseteq Proxyable \ Reserved)
      BY <1>2 DEF StartedAgain, BadPort
    <2> QED
      BY <2>1, <2>2 DEF Tracked
  <1>4. mainPc # "panicked" /\ ~MainPanics
    <2>1. mainPc # "panicked"
      <3>1. peak \in Nat /\ MaxOctet \in Nat
        BY DindBounds DEF TypeInv, TypeOK, DockerTypeOK
      <3>2. ~(peak > MaxOctet) /\ ~(faults > 0)
        BY <1>1, <1>2, <3>1
      <3> QED
        BY <1>2, <3>2 DEF PanicHasCause, BadPort
    <2> QED
      BY <1>1, <2>1, FaultStep DEF MainPanics, Fault
  <1>5. ASSUME NEW n \in Networks, NoOctetLeft(n)
        PROVE  FALSE
    <2>1. events # <<>> /\ Head(events) = <<"create", n>> /\ FirstAvailable = {}
      BY <1>5 DEF NoOctetLeft
    <2>2. events \in Seq(Events)
      BY DEF TypeInv, TypeOK, DockerTypeOK
    <2>3. Len(events) \in Nat /\ Len(events) >= 1 /\ events[1] = Head(events)
      BY <2>1, <2>2, HeadTailProperties, EmptySeq, LenProperties
    <2>4. At(1, <<"create", n>>)
      BY <2>1, <2>3 DEF At
    <2> QED
      BY <1>1, <1>2, <2>1, <2>4, OctetLeft
  <1>6. CASE Kill /\ End("panicked")
    <2>1. mainPc = "kill" /\ handling.info.id \in Containers
      BY <1>6, HandlingTypes DEF Kill
    <2>2. ProxiesOf(handling.info.id)
      BY <1>1, <1>3, <2>1 DEF ProxiesInv
    <2>3. handling.pids \subseteq Running
      BY <1>6, <2>1, <2>2, ProxiesStop
    <2>4. mainPc' = "forget"
      BY <1>6, <2>3 DEF Kill
    <2> QED
      BY <2>4
  <1>7. ASSUME NEW port \in Ports, NoSocatCommand(port)
        PROVE  FALSE
    <2> DEFINE c == handling.info.id
    <2>1. mainPc = "proxy" /\ port \in handling.info.ports /\ port \notin Proxyable
      BY <1>7 DEF NoSocatCommand
    <2>2. c \in Containers /\ port \in Exposed[c]
      BY <2>1, HandlingTypes
    <2>3. HandlesStart(c)
      BY <2>1 DEF HandlesStart
    <2>4. container[c].starts # 0 /\ container[c].starts \in Nat
      BY <1>1, <1>3, <2>2, <2>3, StartsGrow DEF ProxiesInv, ProxiesOf, Stages, Untouched
    <2>5. container[c].starts > 0
      BY <2>4
    <2> QED
      BY <1>2, <2>1, <2>2, <2>5 DEF BadPort
  <1> QED
    BY <1>4, <1>5, <1>6, <1>7, PanicKinds

\* Everything that is known of the pod, without what follows from it
LEMMA PodInvariant == Spec => [](PodInv /\ ProxiesInv)
  <1>1. Init => PodInv /\ ProxiesInv
    BY TypeInit, JobInit, NetInit, CrowdInit, HistoryInit, PidInit, RegisteredInit, ProxiesInit DEF PodInv
  <1>2. PodInv /\ ProxiesInv /\ [Next]_vars => (PodInv /\ ProxiesInv)'
    <2> SUFFICES ASSUME PodInv, ProxiesInv, [Next]_vars
                 PROVE  PodInv' /\ ProxiesInv'
      OBVIOUS
    <2>1. TypeInv' /\ JobInv' /\ NetInv' /\ CrowdInv'
      BY TypeNext, JobNext, NetNext, CrowdNext DEF PodInv
    <2>2. HistoryInv' /\ PidInv' /\ RegisteredInv'
      BY HistoryNext, PidNext, RegisteredNext DEF PodInv
    <2> QED
      BY <2>1, <2>2, ProxiesNext DEF PodInv
  <1> QED
    BY <1>1, <1>2, PTL DEF Spec

\* dind panics only after a call has failed, a container has been started again or has been
\* started with a port that socat cannot listen on, or there have been more networks at once than
\* octets.  Otherwise an octet is left for every network, although the event loop hears of
\* networks when others have taken their place, and the PIDs that main kills are those of running
\* processes, whatever the event loop does with the same map meanwhile.
THEOREM PanicsHaveCauses == Spec => []PanicHasCause
  <1>1. Init => PanicHasCause
    <2> SUFFICES ASSUME Init
                 PROVE  PanicHasCause
      OBVIOUS
    <2>1. mainPc \in {"new", "absent"}
      BY DEF Init, DindInit
    <2> QED
      BY <2>1 DEF PanicHasCause
  <1> QED
    BY <1>1, PodInvariant, PanicNext, PTL DEF Spec

-----------------------------------------------------------------------------
(* The proxies of a container that runs.                                   *)

\* Each of its ports has a process, or is one of those main still starts one for.
Proxied(c) ==
    /\ c \in containerInfoByID
    /\ \A port \in Exposed[c] : \/ \E p \in Pids : Owns(c, p) /\ socat[p].port = port
                                \/ HandlesStart(c) /\ port \in handling.info.ports

\* A container that runs is on its way to its proxies; one that has stopped is not registered,
\* or will be heard of.
Served(c) ==
    /\ container[c].running /\ ~lost => StartQueued(c) \/ (SendsStart(c) /\ sending.ports = Exposed[c]) \/ Proxied(c)
    /\ ~container[c].running => StopQueued(c) \/ (c \notin containerInfoByID /\ ~StartQueued(c) /\ ~SendsStart(c))

ServedInv ==
    faults = 0 /\ dockerd = "up" =>
        \A c \in Containers : container[c].starts = 1 /\ Exposed[c] \cap Reserved = {} => Served(c)

\* A step that is not about the container, and tells nothing of it
LEMMA ServedOthers ==
  ASSUME NEW c \in Containers, Served(c), Others(c),
         container'[c].running = container[c].running, lost => lost',
         StartQueued(c)' <=> StartQueued(c), StopQueued(c)' <=> StopQueued(c)
  PROVE  Served(c)'
  <1>1. Proxied(c) => Proxied(c)'
    BY DEF Proxied, Others
  <1>2. SendsStart(c) /\ sending.ports = Exposed[c] => SendsStart(c)' /\ sending'.ports = Exposed[c]
    BY DEF Others
  <1> QED
    BY <1>1, <1>2 DEF Served, Others

\* The event loop hears of the container: it inspects it when its network is registered, because
\* that was told before; and its stop is heard after its start.
LEMMA ServedHears ==
  ASSUME PodInv, NEW c \in Containers, ProxiesOf(c), faults = 0, dockerd = "up", container[c].starts = 1,
         Served(c), Hears(c)
  PROVE  Served(c)'
  <1> USE DEF PodInv
  <1>1. DockerTypes /\ HistoryOf(c) /\ Len(events) \in Nat
    BY TypeParts, LenProperties DEF HistoryInv, TypeInv, TypeOK, DockerTypeOK
  <1>2. /\ eventPc = "select" /\ UNCHANGED <<mainPc, handling, socat, container, lost, network, networkInfoByID>>
        /\ \/ /\ Receive(<<"start", c>>) /\ eventPc' = "add" /\ sending' = InspectInfo(c)
              /\ sending'.action = "start" /\ sending'.id = c /\ UNCHANGED containerInfoByID
           \/ /\ Receive(<<"stop", c>>) /\ eventPc' = "send" /\ sending'.action = "stop" /\ sending'.id = c
              /\ c \in containerInfoByID /\ containerInfoByID' = containerInfoByID \ {c}
    BY HearsEffect
  <1>3. ~SendsStart(c)
    BY <1>2 DEF SendsStart
  <1>4. CASE Receive(<<"start", c>>)
    <2>1. At(1, <<"start", c>>) /\ (StopQueued(c) => StopQueued(c)')
      BY <1>1, <1>4, QueueReceive, EventNames DEF StopQueued
    <2>2. StartQueued(c)
      BY <2>1 DEF StartQueued, Queued
    <2>3. eventPc' = "add" /\ sending' = InspectInfo(c) /\ sending'.action = "start" /\ sending'.id = c
      BY <1>2, <1>4, EventNames DEF Receive
    <2>4. SendsStart(c)'
      BY <2>3 DEF SendsStart
    <2>5. ASSUME container[c].running, ~lost
          PROVE  sending'.ports = Exposed[c]
      <3>1. PICK n \in Networks : n = container[c].network
        <4>1. container[c].network \in Networks \cup {None} /\ container[c].network # None
          BY <1>1, <2>5 DEF DockerTypes, DockerTypeOK, ContainerStates, HistoryOf, OnNetwork
        <4> QED
          BY <4>1
      <3>2. Up(n) /\ n # None
        BY <1>1, <2>5, <3>1, DockerBounds DEF HistoryOf, OnNetwork
      <3>3. ~Queued(<<"create", n>>)
        <4> SUFFICES ASSUME NEW j \in Nat, At(j, <<"create", n>>)
                     PROVE  FALSE
          BY DEF Queued
        <4>1. j < 1
          BY <1>1, <2>1, <3>1 DEF HistoryOf, ToldInOrder
        <4> QED
          BY <1>1, <4>1 DEF At
      <3>4. Told(n) # {}
        BY <2>5, <3>2, <3>3 DEF NetInv, CalmInv, UpTold
      <3>5. networkInfoByID[n] \notin {None, {}}
        BY <3>4 DEF Told
      <3>6. HasProxyIP(c)
        BY <3>1, <3>2, <3>5 DEF HasProxyIP
      <3>7. InspectInfo(c).ports = Exposed[c]
        BY <2>5, <3>6 DEF InspectInfo
      <3> QED
        BY <2>3, <3>7
    <2>6. ~container[c].running => StopQueued(c)
      BY <2>2 DEF Served
    <2> QED
      BY <1>2, <2>1, <2>4, <2>5, <2>6 DEF Served
  <1>5. CASE Receive(<<"stop", c>>)
    <2>1. At(1, <<"stop", c>>) /\ (StartQueued(c)' => StartQueued(c))
      BY <1>1, <1>5, QueueReceive, EventNames DEF StartQueued
    <2>2. StopQueued(c)
      BY <2>1 DEF StopQueued, Queued
    <2>3. ~container[c].running
      BY <1>1, <2>2 DEF HistoryOf, ToldInOrder
    <2>4. ~StartQueued(c)
      <3> SUFFICES ASSUME NEW i \in Nat, At(i, <<"start", c>>)
                   PROVE  FALSE
        BY DEF StartQueued, Queued
      <3>1. i < 1
        BY <1>1, <2>1 DEF HistoryOf, ToldInOrder
      <3> QED
        BY <1>1, <3>1 DEF At
    <2>5. eventPc' = "send" /\ sending'.action = "stop" /\ c \notin containerInfoByID'
      BY <1>2, <1>5, EventNames DEF Receive
    <2>6. ~SendsStart(c)'
      BY <2>5 DEF SendsStart
    <2> QED
      BY <1>2, <2>1, <2>3, <2>4, <2>5, <2>6 DEF Served
  <1> QED
    BY <1>2, <1>4, <1>5

\* Main and the event loop work on the container: what main starts for it stays, and what it
\* kills is that of a container that has stopped.
LEMMA ServedAbout ==
  ASSUME PodInv, NEW c \in Containers, Exposed[c] \cap Reserved = {}, ProxiesOf(c), Served(c), About(c), ~Hears(c), ~(\E pc \in Finished : End(pc))
  PROVE  Served(c)'
  <1> USE DEF PodInv
  <1>1. CASE AddContainerInfo /\ sending.id = c
    <2>1. /\ eventPc = "add" /\ eventPc' = "send" /\ sending.action = "start"
          /\ UNCHANGED <<sending, container, events, lost>>
      BY <1>1, AddContainerInfoEffect, InfoKinds DEF dockerVars
    <2>2. SendsStart(c) /\ SendsStart(c)'
      BY <1>1, <2>1 DEF SendsStart
    <2>3. ~StartQueued(c) /\ (StopQueued(c)' <=> StopQueued(c))
      BY <2>1, <2>2 DEF ProxiesOf, Stages, Untouched, StopQueued, Queued, At
    <2>4. ASSUME container[c].running, ~lost
          PROVE  sending.ports = Exposed[c]
      <3>1. ~Proxied(c) \/ Exposed[c] = {}
        BY <2>2 DEF ProxiesOf, Stages, OwnsNone, Proxied
      <3>2. CASE Exposed[c] = {}
        <4>1. sending \in StartInfos
          BY <1>1, AddContainerInfoEffect
        <4>2. sending.ports \in SUBSET Exposed[c]
          BY <1>1, <4>1 DEF StartInfos
        <4> QED
          BY <3>2, <4>2
      <3> QED
        BY <2>3, <2>4, <3>1, <3>2 DEF Served
    <2> QED
      BY <2>1, <2>2, <2>3, <2>4 DEF Served
  <1>2. CASE ReceiveInfo /\ Announcing /\ sending.id = c
    <2>1. /\ mainPc = "loop" /\ eventPc = "send" /\ eventPc' = "select" /\ handling'.info = sending
          /\ UNCHANGED <<containerInfoByID, socat, container, events, lost>>
      BY <1>2, ReceiveInfoEffect DEF dockerVars
    <2>2. /\ StartQueued(c)' <=> StartQueued(c)
          /\ StopQueued(c)' <=> StopQueued(c)
          /\ ~SendsStart(c)' /\ ~HandlesStart(c)
      BY <2>1 DEF StartQueued, StopQueued, Queued, At, SendsStart, HandlesStart
    <2>3. CASE sending.action = "start"
      <3>1. mainPc' = "proxy"
        BY <1>2, <2>3, ReceiveInfoEffect
      <3>2. HandlesStart(c)' /\ SendsStart(c)
        BY <1>2, <2>1, <2>3, <3>1 DEF HandlesStart, SendsStart
      <3>3. c \in containerInfoByID
        BY <2>1, <3>2 DEF RegisteredInv
      <3>4. ~StartQueued(c) /\ OwnsNone(c)
        BY <3>2 DEF ProxiesOf, Stages, Untouched
      <3>5. Proxied(c) \/ sending.ports = Exposed[c] => Proxied(c)'
        BY <2>1, <2>2, <3>2, <3>3, <3>4 DEF Proxied, OwnsNone
      <3> QED
        BY <2>1, <2>2, <3>2, <3>4, <3>5 DEF Served
    <2>4. CASE sending.action = "stop"
      <3>1. SendsStop(c) /\ ~SendsStart(c)
        BY <1>2, <2>1, <2>4 DEF SendsStop, SendsStart
      <3>2. c \notin containerInfoByID /\ ~StartQueued(c)
        BY <3>1 DEF ProxiesOf, Stages, Untouched
      <3>3. ~(container[c].running /\ ~lost)
        BY <3>1, <3>2 DEF Served, Proxied
      <3> QED
        BY <2>1, <2>2, <3>2, <3>3 DEF Served
    <2> QED
      BY <1>2, <2>3, <2>4, ReceiveInfoEffect
  <1>3. ASSUME NEW port \in Ports, NEW pid \in Pids, AddPortProxy(port, pid), ~MainPanics, handling.info.id = c
        PROVE  Served(c)'
    <2> DEFINE taken == port \in Reserved \/ \E p \in Pids : Owns(c, p) /\ socat[p].port = port
    <2>1. /\ mainPc = "proxy" /\ mainPc' = "remember" /\ port \in Exposed[c]
          /\ handling'.info.id = c /\ handling'.info.ports = handling.info.ports \ {port}
          /\ port \in handling.info.ports /\ socat[pid] = None
          /\ \A p \in Pids : p # pid => socat'[p] = socat[p]
          /\ ~taken => socat'[pid] # None /\ socat'[pid].id = c /\ socat'[pid].port = port
      BY <1>3, AddPortProxyEffect
    <2>2. UNCHANGED <<eventVars, dockerVars>>
      BY <1>3, AddPortProxyEffect
    <2>3. HandlesStart(c) /\ HandlesStart(c)'
      BY <1>3, <2>1 DEF HandlesStart
    <2>4. ~taken
      BY <2>1, <2>3 DEF ProxiesOf, OnePerPort
    <2>5. /\ Owns(c, pid)' /\ socat'[pid].port = port
          /\ \A p \in Pids : Owns(c, p) => Owns(c, p)' /\ socat'[p] = socat[p]
      BY <2>1, <2>4 DEF Owns
    <2>6. UNCHANGED containerInfoByID
      BY <2>2 DEF eventVars
    <2>7. ASSUME Proxied(c), NEW q \in Exposed[c]
          PROVE  \/ \E p \in Pids : Owns(c, p)' /\ socat'[p].port = q
                 \/ q \in handling'.info.ports
      <3>1. CASE q = port
        BY <2>5, <3>1
      <3>2. CASE q # port /\ q \in handling.info.ports
        BY <2>1, <3>2
      <3>3. CASE \E p \in Pids : Owns(c, p) /\ socat[p].port = q
        BY <2>5, <3>3
      <3> QED
        BY <2>7, <3>1, <3>2, <3>3 DEF Proxied
    <2>8. Proxied(c) => Proxied(c)'
      BY <2>3, <2>6, <2>7 DEF Proxied
    <2> QED
      BY <2>2, <2>8, MainStepView DEF Served
  <1>4. CASE AddProxyPortPID /\ handling.info.id = c
    <2>1. mainPc = "remember" /\ mainPc' = "proxy" /\ handling'.info = handling.info /\ UNCHANGED socat
      BY <1>4, AddProxyPortPIDEffect
    <2>2. UNCHANGED <<eventVars, dockerVars>>
      BY <1>4, AddProxyPortPIDEffect
    <2>3. Proxied(c) => Proxied(c)'
      BY <2>1, <2>2 DEF Proxied, HandlesStart, Owns, eventVars
    <2> QED
      BY <2>2, <2>3, MainStepView DEF Served
  <1>5. CASE AllPortsProxied /\ handling.info.id = c
    <2>1. mainPc = "proxy" /\ handling.info.ports = {} /\ UNCHANGED socat
      BY <1>5 DEF AllPortsProxied
    <2>2. UNCHANGED <<eventVars, dockerVars>>
      BY <1>5 DEF AllPortsProxied
    <2>3. Proxied(c) => Proxied(c)'
      BY <2>1, <2>2 DEF Proxied, HandlesStart, Owns, eventVars
    <2> QED
      BY <2>2, <2>3, MainStepView DEF Served
  <1>6. CASE (GetProxyPortPIDs \/ Kill \/ DeleteProxyPortPIDs) /\ handling.info.id = c
    <2>1. mainPc \in {"pids", "kill", "forget"}
      BY <1>6 DEF GetProxyPortPIDs, Kill, DeleteProxyPortPIDs
    <2>2. UNCHANGED <<eventVars, dockerVars>>
      <3>1. "panicked" \in Finished
        BY DEF Finished
      <3> QED
        BY <1>6, <3>1 DEF GetProxyPortPIDs, Kill, DeleteProxyPortPIDs
    <2>3. HandlesStop(c)
      BY <1>6, <2>1 DEF HandlesStop
    <2>4. c \notin containerInfoByID /\ ~StartQueued(c) /\ ~SendsStart(c)
      BY <2>3 DEF ProxiesOf, Stages, Untouched
    <2>5. ~(container[c].running /\ ~lost)
      BY <2>4 DEF Served, Proxied
    <2> QED
      BY <2>2, <2>4, <2>5, MainStepView DEF Served
  <1> QED
    BY <1>1, <1>2, <1>3, <1>4, <1>5, <1>6 DEF About

\* The job starts or stops the container, or does something else with docker.
LEMMA ServedJob ==
  ASSUME PodInv, ProxiesInv, ServedInv, faults = 0, dockerd = "up", UseDocker,
         NEW c \in Containers, container'[c].starts = 1, Exposed[c] \cap Reserved = {}, Others(c)
  PROVE  Served(c)'
  <1> USE DEF PodInv
  <1>0. DockerTypes /\ container[c].starts \in Nat /\ HistoryOf(c)
    BY TypeParts DEF DockerTypes, DockerTypeOK, ContainerStates, HistoryInv
  <1>1. ASSUME NEW event \in Events, NEW es \in {<<event>>, <<event, event>>}, Emit(es),
               container'[c].starts = container[c].starts, container'[c].running = container[c].running,
               event # <<"start", c>>, event # <<"stop", c>>
        PROVE  Served(c)'
    <2>1. /\ \A e \in Events : Queued(e) => Queued(e)'
          /\ \A e \in Events : Queued(e)' => Queued(e) \/ e = event
          /\ lost => lost'
      BY <1>0, <1>1, QueueEmit
    <2>2. StartQueued(c)' <=> StartQueued(c)
      BY <1>1, <2>1, EventNames DEF StartQueued
    <2>3. StopQueued(c)' <=> StopQueued(c)
      BY <1>1, <2>1, EventNames DEF StopQueued
    <2>4. Served(c)
      BY <1>1 DEF ServedInv
    <2> QED
      BY <1>1, <2>1, <2>2, <2>3, <2>4, ServedOthers
  <1>2. ASSUME NEW n \in Networks, CreateNetwork(n) \/ RemoveNetwork(n)
        PROVE  Served(c)'
    <2>1. UNCHANGED container /\ (Emit(<<<<"create", n>>>>) \/ Emit(<<<<"destroy", n>>>>))
      BY <1>2 DEF CreateNetwork, RemoveNetwork
    <2>2. /\ <<"create", n>> # <<"start", c>> /\ <<"create", n>> # <<"stop", c>>
          /\ <<"destroy", n>> # <<"start", c>> /\ <<"destroy", n>> # <<"stop", c>>
      BY EventNames
    <2> QED
      BY <1>1, <2>1, <2>2, EventNames
  <1>3. ASSUME NEW d \in Containers, StopContainer(d)
        PROVE  Served(c)'
    <2>1. PICK es \in {<<<<"stop", d>>>>, <<<<"stop", d>>, <<"stop", d>>>>} : Emit(es)
      BY <1>3 DEF StopContainer
    <2>2. /\ container'[c].starts = container[c].starts
          /\ container'[c].running = IF c = d THEN FALSE ELSE container[c].running
      BY <1>0, <1>3, StopFields
    <2>3. CASE c # d
      <3>1. <<"stop", d>> # <<"start", c>> /\ <<"stop", d>> # <<"stop", c>>
        BY <2>3, EventNames
      <3> QED
        BY <1>1, <2>1, <2>2, <2>3, <3>1, EventNames
    <2>4. CASE c = d
      <3>1. CASE subscribed
        <4>1. StopQueued(c)'
          BY <1>0, <2>1, <2>4, <3>1, QueueEmit, EventNames DEF StopQueued
        <4> QED
          BY <2>2, <2>4, <4>1 DEF Served
      <3>2. CASE ~subscribed
        <4>1. UNCHANGED events /\ events = <<>>
          BY <1>0, <2>1, <3>2, QueueEmit, EventNames DEF NetInv, TableInv, Life
        <4>2. ~StartQueued(c)'
          <5>1. Len(events') = 0
            BY <4>1, EmptySeq
          <5> QED
            BY <5>1 DEF StartQueued, Queued, At
        <4>3. c \notin containerInfoByID'
          BY <3>2 DEF RegisteredInv, Others
        <4>4. ~SendsStart(c)
          BY <3>2 DEF JobInv, StreamOpen, SendsStart
        <4> QED
          BY <2>2, <2>4, <4>2, <4>3, <4>4 DEF Served, Others
      <3> QED
        BY <3>1, <3>2
    <2> QED
      BY <2>3, <2>4
  <1>4. ASSUME NEW d \in Containers, NEW n \in Networks, StartContainer(d, n)
        PROVE  Served(c)'
    <2>1. Emit(<<<<"start", d>>>>)
      BY <1>4 DEF StartContainer
    <2>2. CASE c # d
      <3>1. container'[c] = container[c] /\ <<"start", d>> # <<"start", c>> /\ <<"start", d>> # <<"stop", c>>
        BY <1>4, <2>2, EventNames DEF StartContainer
      <3> QED
        BY <1>1, <2>1, <3>1, EventNames
    <2>3. CASE c = d
      <3>1. container'[c] = [running |-> TRUE, starts |-> container[c].starts + 1, network |-> n]
        BY <1>0, <1>4, <2>3 DEF StartContainer, DockerTypes, DockerTypeOK
      <3>2. container'[c].running = TRUE
        BY <3>1
      <3>3. StartQueued(c)' \/ lost'
        BY <1>0, <2>1, <2>3, QueueEmit, EventNames DEF StartQueued
      <3> QED
        BY <3>2, <3>3 DEF Served
    <2> QED
      BY <2>2, <2>3
  <1> QED
    BY <1>2, <1>3, <1>4 DEF UseDocker

\* Every step keeps a container served.
LEMMA ServedNext == PodInv /\ ProxiesInv /\ ServedInv /\ [Next]_vars => ServedInv'
  <1> SUFFICES ASSUME PodInv, ProxiesInv, ServedInv, [Next]_vars, faults' = 0, dockerd' = "up",
                      NEW c \in Containers, container'[c].starts = 1, Exposed[c] \cap Reserved = {}
               PROVE  Served(c)'
    BY DEF ServedInv
  <1> USE DEF PodInv
  <1>1. faults = 0 /\ DockerTypes /\ container[c].starts \in Nat /\ container[c].starts <= 1
    BY StartsGrow, FaultStep, TypeParts
  <1>2. ProxiesOf(c)
    BY <1>1 DEF ProxiesInv, Tracked
  <1>3. ASSUME NEW pc \in Finished, End(pc)
        PROVE  FALSE
    BY <1>3 DEF End, DockerdGone
  <1>4. ASSUME UNCHANGED <<dockerd, container>>
        PROVE  Served(c)
    BY <1>1, <1>4 DEF ServedInv
  <1>5. CASE Others(c)
    <2>1. CASE Still
      <3>1. UNCHANGED <<container, events, lost>> /\ (dockerd' = dockerd \/ DaemonStarts)
        BY <2>1 DEF Still
      <3>2. ~DaemonStarts
        <4>1. DaemonStarts => container[c].starts = 0
          BY DEF DaemonStarts, NetInv, TableInv, Life
        <4> QED
          BY <3>1, <4>1
      <3>3. Served(c)
        BY <1>4, <3>1, <3>2
      <3>4. (StartQueued(c)' <=> StartQueued(c)) /\ (StopQueued(c)' <=> StopQueued(c))
        BY <3>1 DEF StartQueued, StopQueued, Queued, At
      <3> QED
        BY <1>5, <3>1, <3>3, <3>4, ServedOthers
    <2>2. CASE Gone
      BY <2>2 DEF Gone, DockerdGone
    <2>3. CASE Breaks
      BY <1>1, <2>3 DEF Breaks, StreamBreaks, Fault
    <2>4. CASE JobAction
      BY <1>1, <1>5, <2>4, ServedJob DEF JobAction
    <2>5. ASSUME NEW e, Receive(e), e # <<"start", c>>, e # <<"stop", c>>
          PROVE  Served(c)'
      <3>1. UNCHANGED <<dockerd, container, lost>>
        BY <2>5 DEF Receive
      <3>2. /\ \A f \in Events : Queued(f)' => Queued(f)
            /\ \A f \in Events : Queued(f) /\ f # e => Queued(f)'
        BY <1>1, <2>5, QueueReceive
      <3>3. StartQueued(c)' <=> StartQueued(c)
        BY <2>5, <3>2, EventNames DEF StartQueued
      <3>4. StopQueued(c)' <=> StopQueued(c)
        BY <2>5, <3>2, EventNames DEF StopQueued
      <3>5. Served(c)
        BY <1>4, <3>1
      <3> QED
        BY <1>5, <3>1, <3>3, <3>4, <3>5, ServedOthers
    <2>6. ASSUME NEW n \in Networks, NetworkCreated(n) \/ NetworkDestroyed(n)
          PROVE  Served(c)'
      <3>1. Receive(<<"create", n>>) \/ Receive(<<"destroy", n>>)
        BY <2>6 DEF NetworkCreated, NetworkDestroyed
      <3>2. /\ <<"create", n>> # <<"start", c>> /\ <<"create", n>> # <<"stop", c>>
            /\ <<"destroy", n>> # <<"start", c>> /\ <<"destroy", n>> # <<"stop", c>>
        BY EventNames
      <3> QED
        BY <2>5, <3>1, <3>2
    <2>7. ASSUME NEW d \in Containers, HearsContainer(d), d # c
          PROVE  Served(c)'
      <3>1. Receive(<<"start", d>>) \/ Receive(<<"stop", d>>)
        BY <2>7 DEF HearsContainer, ContainerStarted, ContainerStopped
      <3>2. /\ <<"start", d>> # <<"start", c>> /\ <<"start", d>> # <<"stop", c>>
            /\ <<"stop", d>> # <<"start", c>> /\ <<"stop", d>> # <<"stop", c>>
        BY <2>7, EventNames
      <3> QED
        BY <2>5, <3>1, <3>2
    <2>8. CASE ContainerStarted(c)
      <3>1. eventPc = "select" /\ sending' = InspectInfo(c) /\ eventPc' = "add"
        BY <1>1, <2>8 DEF ContainerStarted, Receive, Fault
      <3>2. InspectInfo(c).action = "start" /\ InspectInfo(c).id = c
        BY DEF InspectInfo
      <3>3. SendsStart(c)' /\ ~SendsStart(c)
        BY <3>1, <3>2 DEF SendsStart
      <3> QED
        BY <1>5, <3>3 DEF Others
    <2>9. CASE ContainerStopped(c)
      <3>1. Receive(<<"stop", c>>) /\ c \notin containerInfoByID
        BY <1>5, <2>9 DEF ContainerStopped, Others
      <3>2. UNCHANGED <<dockerd, container, lost>> /\ eventPc = "select"
        BY <3>1 DEF Receive
      <3>3. At(1, <<"stop", c>>) /\ (StartQueued(c)' => StartQueued(c))
        BY <1>1, <3>1, QueueReceive, EventNames DEF StartQueued
      <3>4. HistoryOf(c) /\ Len(events) \in Nat
        BY LenProperties DEF HistoryInv, TypeInv, TypeOK, DockerTypeOK
      <3>5. ~container[c].running
        BY <1>1, <3>3, <3>4 DEF HistoryOf, ToldInOrder, StopQueued, Queued
      <3>6. ~StartQueued(c)
        <4> SUFFICES ASSUME NEW i \in Nat, At(i, <<"start", c>>)
                     PROVE  FALSE
          BY DEF StartQueued, Queued
        <4>1. i < 1
          BY <1>1, <3>3, <3>4 DEF HistoryOf, ToldInOrder
        <4> QED
          BY <3>4, <4>1 DEF At
      <3>7. ~SendsStart(c)
        BY <3>2 DEF SendsStart
      <3> QED
        BY <1>5, <3>1, <3>2, <3>3, <3>5, <3>6, <3>7 DEF Served, Others
    <2> QED
      BY <2>1, <2>2, <2>3, <2>4, <2>6, <2>7, <2>8, <2>9, StepKinds DEF HearsContainer
  <1>6. CASE About(c)
    <2>1. CASE Hears(c)
      <3>1. UNCHANGED <<dockerd, container>>
        BY <2>1, HearsEffect
      <3>2. Served(c) /\ dockerd = "up" /\ container[c].starts = 1
        BY <1>4, <3>1
      <3> QED
        BY <1>1, <1>2, <2>1, <3>2, ServedHears
    <2>2. CASE ~Hears(c)
      <3>1. UNCHANGED dockerVars
        <4>1. "panicked" \in Finished
          BY DEF Finished
        <4>2. ASSUME NEW port \in Ports, NEW pid \in Pids, AddPortProxy(port, pid), ~MainPanics
              PROVE  UNCHANGED dockerVars
          BY <4>2 DEF AddPortProxy
        <4>3. ASSUME Kill
              PROVE  UNCHANGED dockerVars
          BY <1>3, <4>1, <4>3 DEF Kill
        <4>4. ASSUME AddContainerInfo \/ ReceiveInfo \/ AddProxyPortPID \/ AllPortsProxied \/ GetProxyPortPIDs
                       \/ DeleteProxyPortPIDs
              PROVE  UNCHANGED dockerVars
          BY <4>4 DEF AddContainerInfo, ReceiveInfo, AddProxyPortPID, AllPortsProxied, GetProxyPortPIDs,
                      DeleteProxyPortPIDs
        <4> QED
          BY <1>6, <2>2, <4>2, <4>3, <4>4 DEF About
      <3>2. Served(c)
        BY <1>4, <3>1 DEF dockerVars
      <3> QED
        BY <1>2, <1>3, <1>6, <2>2, <3>2, ServedAbout
    <2> QED
      BY <2>1, <2>2
  <1> QED
    BY <1>3, <1>5, <1>6, AboutOrOthers

\* A container at rest has the proxies it should have.
LEMMA RestProxied == PodInv /\ ProxiesInv /\ ServedInv => ProxiedAtRest
  <1> SUFFICES ASSUME PodInv, ProxiesInv, ServedInv, AtRest, faults = 0, ~lost,
                      NEW c \in Containers, container[c].starts = 1, Exposed[c] \cap Reserved = {}
               PROVE  LET own == {p \in Running : socat[p].id = c} IN
                      /\ {socat[p].port : p \in own} =
                           IF container[c].running /\ HasProxyIP(c) THEN Exposed[c] ELSE {}
                      /\ Cardinality(own) <= Cardinality(Exposed[c])
                      /\ proxyPortPIDs[c] = own
    BY DEF ProxiedAtRest
  <1> USE DEF PodInv
  <1> DEFINE own == {p \in Running : socat[p].id = c}
  <1>1. \A p : p \in own <=> p \in Pids /\ Owns(c, p)
    BY DEF Running, Owns
  <1>2. mainPc = "loop" /\ eventPc = "select" /\ subscribed /\ events = <<>> /\ dockerd = "up"
    BY DEF AtRest, NetInv, TableInv, Life
  <1>3. \A e : ~Queued(e)
    BY <1>2, EmptyQueue
  <1>4. /\ ~StartQueued(c) /\ ~StopQueued(c) /\ ~SendsStart(c) /\ ~SendsStop(c)
        /\ ~HandlesStart(c) /\ ~HandlesStop(c)
    BY <1>2, <1>3 DEF StartQueued, StopQueued, SendsStart, SendsStop, HandlesStart, HandlesStop
  <1>5. ProxiesOf(c) /\ Served(c) /\ HistoryOf(c)
    BY <1>2 DEF ProxiesInv, Tracked, ServedInv, HistoryInv
  <1>6. \A p \in own : socat[p].port \in Exposed[c]
    <2>1. \A p \in own : socat[p] \in Proxies
      BY HandlingTypes DEF Running
    <2> QED
      BY <2>1 DEF Proxies
  <1>7. {socat[p].port : p \in own} = IF container[c].running /\ HasProxyIP(c) THEN Exposed[c] ELSE {}
    <2>1. CASE container[c].running
      <3>1. PICK n \in Networks : n = container[c].network
        <4>1. container[c].network \in Networks \cup {None} /\ container[c].network # None
          BY <1>2, <1>5, <2>1 DEF TypeInv, TypeOK, DockerTypeOK, ContainerStates, HistoryOf, OnNetwork
        <4> QED
          BY <4>1
      <3>2. Up(n) /\ n # None
        BY <1>2, <1>5, <2>1, <3>1, DockerBounds DEF HistoryOf, OnNetwork
      <3>3. Told(n) # {}
        BY <1>2, <1>3, <3>2 DEF NetInv, CalmInv, UpTold
      <3>4. networkInfoByID[n] \notin {None, {}}
        BY <3>3 DEF Told
      <3>5. HasProxyIP(c)
        BY <3>1, <3>2, <3>4 DEF HasProxyIP
      <3>6. \A port \in Exposed[c] : \E p \in Pids : Owns(c, p) /\ socat[p].port = port
        BY <1>4, <1>5, <2>1 DEF Served, Proxied
      <3> QED
        BY <1>1, <1>6, <2>1, <3>5, <3>6
    <2>2. CASE ~container[c].running
      <3>1. c \notin containerInfoByID
        BY <1>4, <1>5, <2>2 DEF Served
      <3>2. OwnsNone(c)
        BY <1>4, <1>5, <3>1 DEF ProxiesOf, Stages
      <3> QED
        BY <1>1, <2>2, <3>2 DEF OwnsNone
    <2> QED
      BY <2>1, <2>2
  <1>8. Cardinality(own) <= Cardinality(Exposed[c])
    <2> DEFINE f == [p \in own |-> socat[p].port]
    <2>1. \A p, q \in own : socat[p].port = socat[q].port => p = q
      BY <1>1, <1>5 DEF ProxiesOf, OnePerPort
    <2>2. f \in Injection(own, Exposed[c])
      BY <1>6, <2>1 DEF Injection, IsInjective
    <2>3. IsFiniteSet(Exposed[c])
      <3>1. Exposed[c] \in SUBSET Ports
        BY DindBounds
      <3> QED
        BY <3>1, DindBounds, FS_Subset
    <2> QED
      BY <2>2, <2>3, FS_Injection
  <1>9. proxyPortPIDs[c] = own
    <2>1. proxyPortPIDs[c] \subseteq Pids
      BY HandlingTypes
    <2>2. \A p \in proxyPortPIDs[c] : Owns(c, p)
      BY <1>4, <1>5 DEF ProxiesOf, Remembered
    <2>3. \A p \in Pids : Owns(c, p) => p \in proxyPortPIDs[c]
      BY <1>4, <1>5 DEF ProxiesOf, Remembered
    <2> QED
      BY <1>1, <2>1, <2>2, <2>3
  <1> QED
    BY <1>7, <1>8, <1>9

\* When both goroutines of dind wait, a container that was started once has exactly the proxies
\* of its ports, all remembered, if it runs, and none otherwise, unless a call failed, an event
\* was missed or one of its ports is listened on already: the invariant follows the container from
\* the daemon's event through the event loop's table and the channel to the processes, and back.
THEOREM ContainersAreProxied == Spec => []ProxiedAtRest
  <1>1. Init => ServedInv
    <2> SUFFICES ASSUME Init
                 PROVE  ServedInv
      OBVIOUS
    <2>1. dockerd = "off"
      BY DEF Init, DockerInit
    <2> QED
      BY <2>1 DEF ServedInv
  <1> QED
    BY <1>1, PodInvariant, ServedNext, RestProxied, PTL DEF Spec

=============================================================================
