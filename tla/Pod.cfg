SPECIFICATION Spec
CONSTANTS
  Networks = {1, 2}
  Containers = {c1}
  Subnets = {1}
  Ports = {p1, p2}
  Proxyable = {p1, p2}
  Reserved = {}
  Exposed <- MCExposed
  Pids <- MCPids
  MaxOctet = 1
  MaxStarts = 2
  MaxEvents = 3
  MaxFaults = 1
  None = None
CHECK_DEADLOCK FALSE
INVARIANTS
  TypeOK
  RulesAtRest
  ProxiedAtRest
  PanicHasCause
  DockerForTheJob
PROPERTIES
  DindReleased
  DindFollowsDockerd
  SetupEnds
