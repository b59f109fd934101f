SPECIFICATION Spec
CONSTANTS
    MaxJobs = 2
    MaxEdits = 0
    MaxFaults = 0
INVARIANTS
    ReportsOwnPod
CHECK_DEADLOCK FALSE
