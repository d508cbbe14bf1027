SPECIFICATION ReconcilerSpec
CONSTANTS
    Sorts <- SaleOfHalf
    HotTimers = {h1}
    MaxMishaps = 0
INVARIANT SaleBookedOnce
CHECK_DEADLOCK FALSE
