SPECIFICATION FairSpec
CONSTANTS
    Nobody = Nobody
    s1 = s1
    s2 = s2
    t1 = t1
    t2 = t2
    Signals = {s1}
    Tokens = {t1}
    Token <- OneToken
    MaxRetries = 1
    Threshold = 3
    MaxBuys = 1
    TotalBudget = 1
    MaxCrashes = 1
    MaxInterventions = 0
    WorkersMayStall = FALSE
    CooldownHolds = TRUE
INVARIANT TypeOK
 
INVARIANT NoLeakedReservation
INVARIANT DoubleFillFreezesWallet
PROPERTY ResendOnlyAfterProof
PROPERTY KeepsLedger
PROPERTY FilledOrderSettles
 
CHECK_DEADLOCK FALSE
