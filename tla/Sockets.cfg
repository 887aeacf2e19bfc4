\* Channels of a few clients and an HTTP request of one of them over one ban
\* manager, while the clock runs.
SPECIFICATION ServerSpec
CONSTANTS
    Ips <- AllIps
    NoIp = "unattributed"
    Limit = 1
    Window = 1
    BanFor = 1
    Threshold = 1
    MaxTime = 1
    Listing <- MCListing
    Endpoints <- MCEndpoints
    Requests = {r1}
    Profiles <- SocketProfiles
    Shape <- MCShape
    Configs <- SocketConfigs
    UsageThreshold = 1
    UsageWindow = 1
    OperatorActs = {}
    Sockets = {s1, s2}
    Peers <- MCPeers
    PeerShape <- MCPeerShape
    WsConfigs <- MCWsConfigs
    MaxFrames = 2
SYMMETRY SocketSymmetry
INVARIANTS
    ServerTypeOK
    ChannelsAreMediated
    BannedStaysOut
    DetectionsCounted
    UpgradesWithinLimit
    BanBites
PROPERTIES
    KeepsPromiseBeside
    ServerBansAreEarned
