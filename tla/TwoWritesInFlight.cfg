SPECIFICATION Spec
CONSTANTS
    Nobody = Nobody
    s1 = s1
    s2 = s2
    t1 = t1
    t2 = t2
    Signals = {s1, s2}
    Tokens = {t1, t2}
    Token <- TwoTokens
    MaxRetries = 1
    Threshold = 3
    MaxBuys = 1
    TotalBudget = 1
    MaxCrashes = 0
    MaxInterventions = 0
    WorkersMayStall = FALSE
    CooldownHolds = TRUE
INVARIANT LaneSerializesWrites
CHECK_DEADLOCK FALSE
