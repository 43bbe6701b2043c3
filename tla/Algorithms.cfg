SPECIFICATION Spec
CONSTANTS
    Width32 = 4
    Width64 = 6
    Mantissa32 = 2
    Mantissa64 = 4
    FloatLimit32 = 192
    FloatLimit64 = 480
    UnitMilliseconds <- MCUnitMilliseconds
    InstantLimit = 32
INVARIANTS
    ParserRoundTrip
    
    NumbersExact
    
    ResultPrefix
    TimeRangeResolved
    ClaimIsBestPrefix
    
CHECK_DEADLOCK FALSE
