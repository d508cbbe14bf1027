SPECIFICATION Spec
CONSTANTS
    Nobody = Nobody
    s1 = s1
    s2 = s2
    t1 = t1
    t2 = t2
    Signals = {s1}
    Tokens = {t1}
    Token <- OneToken
    MaxRetries = 2
    Threshold = 3
    MaxBuys = 1
    TotalBudget = 1
    MaxCrashes = 0
    MaxInterventions = 0
    WorkersMayStall = FALSE
    CooldownHolds = TRUE
PROPERTY ResendOnlyAfterProof
CHECK_DEADLOCK FALSE
