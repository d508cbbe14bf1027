SPECIFICATION Spec
CONSTANTS
    Nobody = Nobody
    Operators = {o1}
    Worker = worker
    Opened = 2
    Settings <- RaceSettings
    MaxRetries = 1
    MaxSells = 3
    MaxDisturbances = 1
INVARIANT TypeOK
INVARIANT NoOversell
 
PROPERTY SwapOnlyUnprotected
PROPERTY SwapAfterSwapDecided
CHECK_DEADLOCK FALSE
