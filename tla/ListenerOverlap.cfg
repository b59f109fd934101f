SPECIFICATION Spec
CONSTANTS
  Wires = {w1, w2}
  Listeners = {g1, g2}
  Reconciler = Reconciler
  Stopper = Stopper
  Runner = Runner
  Jobs = {j1}
  BadJobs = {}
  Refreshes = {}
  None = None
  MaxFaults = 0
  MaxRestarts = 0
  MaxDeletes = 0
SYMMETRY Symmetry
VIEW View
CHECK_DEADLOCK FALSE
INVARIANTS
  AtMostOneListener
  SessionNotReplaced
  NoLostJobRequest
