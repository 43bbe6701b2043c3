\* A query over segments that are replaced, expired and deleted meanwhile, by
\* runs that fail, are recovered and tried again over the same inputs.
CONSTANTS
    Segment = {s1, s2, s3}
    Seed = {s1, s2}
    DeadLetter = {}
    Batch = {}
    Row = {x1, x2}
    Run = {r1, r2}
    Query = {q1}
    None = None
    Retention = 1
    LetterRetention = 1
    MinRetention = 0
    QueryTimeout = 1
    SafetyMargin = 2
    OrphanGrace = 1
    CommitLag = 1
    SelectLag = 1
    MaxTime = 4
    MaxLatePuts = 0
SPECIFICATION SeededSpec
SYMMETRY SeededSymmetry
INVARIANTS
    SnapshotReadable
    UnfinishedRunsFailureSafe
CHECK_DEADLOCK FALSE
