\* Every request taken is answered or waits for its client's body, by whatever
\* way it goes, while another one, the clock, the store and the operator interfere.
SPECIFICATION Spec
CONSTANTS
    Ips <- OneIp
    NoIp = "unattributed"
    Limit = 1
    Window = 1
    BanFor = 1
    Threshold = 1
    MaxTime = 1
    Listing <- MCListing
    Endpoints <- MCEndpoints
    Requests = {r1, r2}
    Profiles <- LiveProfiles
    Shape <- MCShape
    Configs <- LiveConfigs
    UsageThreshold = 1
    UsageWindow = 1
    OperatorActs = {"ban"}
PROPERTIES
    EveryRequestAnswered
