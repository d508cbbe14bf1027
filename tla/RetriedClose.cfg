SPECIFICATION Spec
CONSTANTS
    Nobody = Nobody
    Operators = {o1}
    Worker = worker
    Opened = 1
    Settings <- RetrySettings
    MaxRetries = 1
    MaxSells = 2
    MaxDisturbances = 0
INVARIANT ClosingIsWorkedOn
CHECK_DEADLOCK FALSE
