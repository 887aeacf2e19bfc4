\* Requests of one address that share its rate budget, while the clock runs,
\* the distributed store comes and goes and the windows are reset.
SPECIFICATION Spec
CONSTANTS
    Ips <- OneIp
    NoIp = "unattributed"
    Limit = 1
    Window = 2
    BanFor = 1
    Threshold = 3
    MaxTime = 2
    Listing <- MCListing
    Endpoints <- MCEndpoints
    Requests = {r1, r2, r3}
    Profiles <- WindowProfiles
    Shape <- MCShape
    Configs <- WindowConfigs
    UsageThreshold = 1
    UsageWindow = 1
    OperatorActs = {"reset"}
SYMMETRY Symmetry
INVARIANTS
    OneHit
    AdmittedWithinLimit
