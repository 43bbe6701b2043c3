\* Outputs of crashed workers: abandoned segments, dead letters, late PUTs.
CONSTANTS
    Segment = {s1, s2}
    Seed = {}
    DeadLetter = {d1, d2}
    Batch = {b1}
    Row = {x1}
    Run = {}
    Query = {}
    None = None
    Retention = 1
    LetterRetention = 1
    MinRetention = 0
    QueryTimeout = 0
    SafetyMargin = 1
    OrphanGrace = 1
    CommitLag = 0
    SelectLag = 0
    MaxTime = 2
    MaxLatePuts = 1
SPECIFICATION Spec
SYMMETRY Symmetry
INVARIANTS
    ActiveReadable
CHECK_DEADLOCK FALSE
