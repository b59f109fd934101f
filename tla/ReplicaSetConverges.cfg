SPECIFICATION FairSpec
CONSTANTS
    Runners = {a1, a2, a3}
    MaxReplicas = 2
    MaxTemplate = 1
    MaxEdits = 1
    MaxFaults = 1
VIEW View
INVARIANTS
    TypeOK
    RestsOnlyConverged
PROPERTIES
    EventuallyConverged
CHECK_DEADLOCK FALSE
