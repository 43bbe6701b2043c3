SPECIFICATION LiveSpec
CONSTANTS
    None = None
    Processes = {s1, s2}
    RecoveryRuns = 1
    RecoveryBatches = 2
    MaxRuns = 2
    MaxFaults = 1
    a1 = a1
    a2 = a2
    q1 = q1
    q2 = q2
    Appends = {a1, a2}
    Queries = {q1, q2}
    Workloads <- MCWorkloads
    IngestionPermits = 1
    QueryPermits = 1
    SpoolBatches = 2
    ExecutionRetention = 1
INVARIANTS
    SettledOnExit
    SingleUnfinishedRun
PROPERTIES
    ShutdownCompletes
    
    UnfinishedResolved
CHECK_DEADLOCK FALSE
