SPECIFICATION Spec
CONSTANTS
    Nobody = Nobody
    s1 = s1
    s2 = s2
    t1 = t1
    t2 = t2
    Signals = {s1, s2}
    Tokens = {t1}
    Token <- OneToken
    MaxRetries = 0
    Threshold = 2
    MaxBuys = 1
    TotalBudget = 1
    MaxCrashes = 1
    MaxInterventions = 1
    WorkersMayStall = TRUE
    CooldownHolds = FALSE
INVARIANT RowLimitsKept
INVARIANT SentSwapNotWrittenOff
PROPERTY ThawOnlyOnVerdict
CHECK_DEADLOCK FALSE
