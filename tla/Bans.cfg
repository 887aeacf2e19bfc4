\* Requests of one address while bans are placed by detections, throttling,
\* usage and return rules and the operator, expire and are lifted.
SPECIFICATION Spec
CONSTANTS
    Ips <- OneIp
    NoIp = "unattributed"
    Limit = 1
    Window = 1
    BanFor = 2
    Threshold = 2
    MaxTime = 2
    Listing <- MCListing
    Endpoints <- MCEndpoints
    Requests = {r1, r2}
    Profiles <- BanProfiles
    Shape <- MCShape
    Configs <- BanConfigs
    UsageThreshold = 1
    UsageWindow = 1
    OperatorActs = {"ban", "unban"}
SYMMETRY Symmetry
INVARIANTS
    BanBites
    ViolationsAccounted
    PassiveCountsPerPhase
    UsageAccounted
PROPERTIES
    KeepsPromise
    BansAreEarned
    UsageBarsAreEarned
