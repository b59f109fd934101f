SPECIFICATION FairSpec
CONSTANTS
    MaxJobs = 1
    MaxEdits = 1
    MaxFaults = 1
VIEW View
INVARIANTS
    TypeOK
    RestsOnlyReported
PROPERTIES
    ImplementsLifecycle
    JobEnds
CHECK_DEADLOCK FALSE
