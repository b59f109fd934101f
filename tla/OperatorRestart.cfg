SPECIFICATION Spec
CONSTANTS
  Wires = {w1, w2, w3}
  Listeners = {g1}
  Reconciler = Reconciler
  Stopper = Stopper
  Runner = Runner
  Jobs = {j1}
  BadJobs = {}
  Refreshes = {}
  None = None
  MaxFaults = 1
  MaxRestarts = 1
  MaxDeletes = 0
SYMMETRY Symmetry
VIEW View
CHECK_DEADLOCK FALSE
INVARIANTS
  NoLostJobRequest
  RunnerCredentials
