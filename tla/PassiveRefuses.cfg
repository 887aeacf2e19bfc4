\* A carrier's own address rules refuse in passive mode.
SPECIFICATION Spec
CONSTANTS
    Ips <- AllIps
    NoIp = "unattributed"
    Limit = 1
    Window = 1
    BanFor = 1
    Threshold = 2
    MaxTime = 0
    Listing <- MCListing
    Endpoints <- MCEndpoints
    Requests = {r1, r2}
    Profiles <- ClaimProfiles
    Shape <- MCShape
    Configs <- ClaimConfigs
    UsageThreshold = 1
    UsageWindow = 1
    OperatorActs = {}
INVARIANTS
    PassiveNeverRefuses
