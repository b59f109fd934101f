SPECIFICATION FairSpec
CONSTANTS
  Wires = {w1, w2}
  Listeners = {g1}
  Reconciler = Reconciler
  Stopper = Stopper
  Runner = Runner
  Jobs = {}
  BadJobs = {b1}
  Refreshes = {r1}
  None = None
  MaxFaults = 0
  MaxRestarts = 0
  MaxDeletes = 2
VIEW View
CHECK_DEADLOCK FALSE
PROPERTIES
  AgentRemoved
