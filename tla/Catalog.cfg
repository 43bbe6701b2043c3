SPECIFICATION Spec
CONSTANTS
    None = None
    p1 = p1
    p2 = p2
    r1 = r1
    r2 = r2
    Processes = {p1, p2}
    Requests = {r1, r2}
    Workloads <- MCWorkloads
    Records <- MCRecords
    NameOrder <- MCNameOrder
    Instants <- MCInstants
    MaximumVersion = 3
    MaxApplications = 3
    MaxPins = 1
    MaxCrashes = 1
    MaximumRecordBytes = 100
    MaximumEventDays = 2
    PayloadPrefixBytes = 4
    DayLength = 10
    NarrowBits = 4
    WideBits = 12
SYMMETRY MCSymmetry
INVARIANTS
    CatalogLoads
    AnsweredVisible
    PinnedResolves
    ReapplyUnchanged
    
CHECK_DEADLOCK FALSE
