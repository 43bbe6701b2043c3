SPECIFICATION LiveSpec
CONSTANTS
    None = None
    MaximumRecordBytes = 20
    MaximumEventDays = 2
    PayloadPrefixBytes = 4
    DayLength = 10
    NarrowBits = 4
    WideBits = 8
    Instants <- MCInstants
    Batches <- MCBatches
    Source <- MCSource
    RecoveredCoverage <- MCRecovered
    TargetRows = 3
    TargetBytes = 110
    OpenDuration = 2
    MaximumOpenBuilders = 2
    MaximumResident = 1000
    MaximumStaging = 280
    RowSize = 40
    FieldSize = 8
    EntrySize = 16
    ValueSize = 8
INVARIANTS
    RowsConserved
    LimitsKept
    
PROPERTIES
    BatchesCheckpointed
CHECK_DEADLOCK FALSE
