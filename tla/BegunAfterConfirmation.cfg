SPECIFICATION Spec
CONSTANTS
    Nobody = Nobody
    s1 = s1
    s2 = s2
    t1 = t1
    t2 = t2
    Signals = {s1}
    Tokens = {t1}
    Token <- OneToken
    MaxRetries = 1
    Threshold = 3
    MaxBuys = 1
    TotalBudget = 1
    MaxCrashes = 0
    MaxInterventions = 0
    WorkersMayStall = FALSE
    CooldownHolds = TRUE
PROPERTY NothingBegunAfterConfirmation
CHECK_DEADLOCK FALSE
