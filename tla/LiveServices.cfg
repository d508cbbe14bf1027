SPECIFICATION LiveServicesSpec
CONSTANTS
    Contexts = {x1, x2}
    MaxScopes = 2
    MaxProbes = 2
    Configs = {c1, c2}
    Conditions = {"GMGN_RECENT_429"}
    Preparations = {p1}
    Ticks = {m1}
    HealthyChecks = 2
    MaxChanges = 2
    Signals = {s1}
    MaxVersion = 2
    Tokens <- Pair
    DominanceRatio = 2
    MaxCandidates = 25
    Posts <- TwoPosts
    Configurations <- TwoConfigurations
    Resolvers = {r1}
    Answers <- TokenAnswers
    JobTries = 2
    MaxRevisions = 2
    MaxDay = 2
    MaxLapses = 1
    Meant <- Resolved
    Sorts <- ThreeOrders
    HotTimers = {h1}
    MaxMishaps = 1
INVARIANT ApprovalEarned
INVARIANT ArmedAsConfirmed
INVARIANT StopHolds
 
 
PROPERTY BuyJustified
PROPERTY PauseEnds
PROPERTY RecordedSignalDecided
PROPERTY JobDecided
PROPERTY OrderSettles
INVARIANT SettledFromChain
CHECK_DEADLOCK FALSE
