\* Every branch of the pipeline, and every pair of objecting checks: one
\* request of any shape under every kind of configuration.
SPECIFICATION Spec
CONSTANTS
    Ips <- AllIps
    NoIp = "unattributed"
    Limit = 1
    Window = 1
    BanFor = 1
    Threshold = 2
    MaxTime = 0
    Listing <- MCListing
    Endpoints <- MCEndpoints
    Requests = {r1}
    Profiles <- ScreeningProfiles
    Shape <- MCShape
    Configs <- ScreeningConfigs
    UsageThreshold = 0
    UsageWindow = 1
    OperatorActs = {}
INVARIANTS
    TypeOK
    CompleteMediation
    PassiveOnlyObserves
    RefusalKeepsItsStatus
    EventOnlyWhenForwarded
    ViolationsAccounted
    HandlersAnswerStands
    BodyRidesItsRefusal
