\* Crashes at every step of publication, with lost staged files and late PUTs.
CONSTANTS
    x1 = x1
    x2 = x2
    b1 = b1
    b2 = b2
    Segment = {s1, s2, s3}
    DeadLetter = {d1, d2}
    Batch = {b1, b2}
    Row = {x1, x2}
    Run = {}
    Query = {}
    None = None
    Accepted <- MixedAccepted
    Rejected = {b1}
    Retention = 1
    LetterRetention = 4
    MinRetention = 0
    QueryTimeout = 4
    SafetyMargin = 0
    OrphanGrace = 1
    CommitLag = 0
    SelectLag = 0
    MaxTime = 1
    MaxLatePuts = 1
    ReconciliationLimit = 3
    MaxCrashes = 1
SPECIFICATION IngestionSpec
SYMMETRY OutputSymmetry
INVARIANTS
    NothingLost
    RecoveryProceeds
    LetterConflictPasses
PROPERTY
    ImplementsControlPlane
CHECK_DEADLOCK FALSE
