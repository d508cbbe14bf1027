SPECIFICATION SupportServicesSpec
CONSTANTS
    e1 = e1
    e2 = e2
    b1 = b1
    b2 = b2
    b3 = b3
    i1 = i1
    i2 = i2
    k1 = k1
    k2 = k2
    ja = ja
    jb = jb
    a1 = a1
    a2 = a2
    trade = trade
    evidence = evidence
    warmup = warmup
    Handles = {h1}
    Events = {e1, e2}
    ForeignWatches <- Foreign
    MaxFaults = 1
    Rows = {w1, d1}
    SystemRows = {d1}
    Asks <- AllAsks
    RuleAsks <- SomeAsks
    TradeTerms = {t1, t2}
    ActivationTries = 1
    MaxEdits = 2
    Inbound = {i1, i2}
    Behaviours = {b1, b2, b3}
    Items <- EventItems
    Kind <- Kinds
    MatchedTokens <- Matches
    Malformed = {}
    Unstable = {}
    Unknown = {}
    MaxTries = 2
    MaxCrashes = 1
    Requesters = {trade, evidence, warmup}
    Weight <- RateWeight
    Requests <- RateRequests
    Priority <- RatePriority
    Deadline <- RateDeadline
    Capacity = 4
    Cooldown = 2
    MaxRefusals = 1
    ResearchJobs = {ja, jb}
    ItemsOf <- JobItems
    TokenOf <- SameToken
    Concurrency = 2
    MaxResearchRetries = 1
    MaxDeaths = 1
    Followees = {u1, u2, u3}
    BaselineSize = 2
    BaselinePages = 1
    IncrementalSize = 1
    IncrementalPages = 2
    MaxFollows = 5
    Consumers = {c1, c2}
    MaxUpsets = 3
INVARIANT ContextCurrent
INVARIANT IntakeAccounted
INVARIANT FollowsReported
INVARIANT NeverIdle
PROPERTY ActivationDecided
 
 
PROPERTY RequestAnswered
PROPERTY ResearchSettled
PROPERTY ConnectionKept
PROPERTY ServedInOrder
CHECK_DEADLOCK FALSE
