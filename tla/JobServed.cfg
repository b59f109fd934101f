SPECIFICATION FairSpec
CONSTANTS
  Wires = {w1, w2}
  Listeners = {g1}
  Reconciler = Reconciler
  Stopper = Stopper
  Runner = Runner
  Jobs = {j1}
  BadJobs = {}
  Refreshes = {}
  None = None
  MaxFaults = 1
  MaxRestarts = 0
  MaxDeletes = 0
VIEW View
CHECK_DEADLOCK FALSE
INVARIANTS
  TypeOK
  ValidJobNeverAcked
PROPERTIES
  JobServed
