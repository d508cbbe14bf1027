SPECIFICATION FairSpec
CONSTANTS
    Nobody = Nobody
    Operators = {o1}
    Worker = worker
    Opened = 2
    Settings <- EndSettings
    MaxRetries = 1
    MaxSells = 2
    MaxDisturbances = 1
PROPERTY ConfirmedSaleBooked
PROPERTY DeficitNoticed
CHECK_DEADLOCK FALSE
