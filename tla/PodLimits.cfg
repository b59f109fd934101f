SPECIFICATION Spec
CONSTANTS
  Networks = {1, 2, 3}
  Containers = {c1}
  Subnets = {1, 2, 3}
  Ports = {web, sctp, dind}
  Proxyable = {web, dind}
  Reserved = {dind}
  Exposed <- MCExposed
  Pids <- MCPids
  MaxOctet = 2
  MaxStarts = 1
  MaxEvents = 3
  MaxFaults = 0
  None = None
CHECK_DEADLOCK FALSE
INVARIANTS
  RulesAtRest
  PanicHasCause
