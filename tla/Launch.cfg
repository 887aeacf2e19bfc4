\* An application builds, attaches and launches up to two fairings, in every
\* order of its calls, and serves requests while its operator resets windows
\* and refreshes the cloud ranges.
SPECIFICATION Spec
CONSTANTS
    r1 = r1
    MaxStores = 3
    SecurityConfigs <- MCSecurityConfigs
    MaxFairings = 2
    MaxCalls = 2
    AppCodes = {403}
    Bases = {"/", "/api"}
    Requests = {r1}
    Limit = 1
    Providers <- MCProviders
    MaxRefreshes = 3
INVARIANTS
    TypeOK
    GuardNeverCollides
    OneEngine
    FirstVerdictStands
    SwitchesReachEveryCopy
    ResetReachesTheStage
PROPERTIES
    ReportsNeverGoBack
CHECK_DEADLOCK FALSE
