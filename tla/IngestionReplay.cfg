\* A row expires and its metadata is removed while the process is down.
CONSTANTS
    x1 = x1
    x2 = x2
    b1 = b1
    b2 = b2
    Segment = {s1, s2}
    DeadLetter = {}
    Batch = {b1}
    Row = {x1}
    Run = {}
    Query = {}
    None = None
    Accepted <- OneAccepted
    Rejected = {}
    Retention = 1
    LetterRetention = 1
    MinRetention = 0
    QueryTimeout = 0
    SafetyMargin = 0
    OrphanGrace = 1
    CommitLag = 0
    SelectLag = 0
    MaxTime = 1
    MaxLatePuts = 1
    ReconciliationLimit = 3
    MaxCrashes = 1
SPECIFICATION IngestionSpec
SYMMETRY OutputSymmetry
PROPERTY NoSecondOccurrence
CHECK_DEADLOCK FALSE
