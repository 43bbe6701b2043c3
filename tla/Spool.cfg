\* Three requests at a time, a spool that fills up, I/O failures, a crash and its recovery.
CONSTANTS
    b1 = b1
    b2 = b2
    b3 = b3
    Batch = {b1, b2, b3}
    Size <- MCSize
    Total <- MCTotal
    MaxFrame = 2
    Capacity = 4
    Permits = 3
    MaxCrashes = 1
    MaxGeneration = 3
SPECIFICATION LiveSpec
INVARIANTS
    AcknowledgedDurable
    CrashRecoverable
    
PROPERTIES
    
    AnnouncedProcessed
    ExhaustionEnds
CHECK_DEADLOCK FALSE
