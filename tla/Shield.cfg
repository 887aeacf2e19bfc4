\* What two clients see: refusals on routed and on unrouted paths side by side.
SPECIFICATION Spec
CONSTANTS
    Ips <- AllIps
    NoIp = "unattributed"
    Limit = 1
    Window = 1
    BanFor = 1
    Threshold = 2
    MaxTime = 0
    Listing <- MCListing
    Endpoints <- MCEndpoints
    Requests = {r1, r2}
    Profiles <- ShieldProfiles
    Shape <- MCShape
    Configs <- ShieldConfigs
    UsageThreshold = 1
    UsageWindow = 1
    OperatorActs = {}
SYMMETRY Symmetry
INVARIANTS
    ShieldIsFaithful
