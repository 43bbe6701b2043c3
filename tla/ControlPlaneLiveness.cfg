\* Everything retired is reclaimed; everything past retention expires.
CONSTANTS
    Segment = {s1, s2, s3}
    Seed = {s1, s2}
    DeadLetter = {}
    Batch = {}
    Row = {x1, x2}
    Run = {r1}
    Query = {}
    None = None
    Retention = 1
    LetterRetention = 1
    MinRetention = 0
    QueryTimeout = 0
    SafetyMargin = 1
    OrphanGrace = 1
    CommitLag = 0
    SelectLag = 0
    MaxTime = 3
    MaxLatePuts = 0
SPECIFICATION SeededLiveSpec
PROPERTIES
    ExpiryHappens
    RetiredRemoved
CHECK_DEADLOCK FALSE
