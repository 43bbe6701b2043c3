\* Two requests at a time: their extents may be announced out of order.
CONSTANTS
    b1 = b1
    b2 = b2
    b3 = b3
    Batch = {b1, b3}
    Size <- MCSize
    Total <- MCTotal
    MaxFrame = 2
    Capacity = 4
    Permits = 2
    MaxCrashes = 0
    MaxGeneration = 3
SPECIFICATION Spec
INVARIANT DeliveredExactlyOnce
CHECK_DEADLOCK FALSE
