\* A reader beside ingestion, compaction and expiration, from an empty control plane.
CONSTANTS
    Segment = {s1, s2, s3}
    Seed = {}
    DeadLetter = {}
    Batch = {}
    Row = {x1, x2}
    Run = {r1}
    Query = {q1}
    None = None
    Retention = 1
    LetterRetention = 1
    MinRetention = 0
    QueryTimeout = 0
    SafetyMargin = 1
    OrphanGrace = 1
    CommitLag = 0
    SelectLag = 0
    MaxTime = 2
    MaxLatePuts = 0
SPECIFICATION Spec
SYMMETRY Symmetry
INVARIANTS
    ExactlyOnceVisible
PROPERTIES
    
    ImplementsVisibleRows
CHECK_DEADLOCK FALSE
