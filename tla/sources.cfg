CONSTANTS
    Endpoint <- MCEndpoints
    Registration <- MCRegistrations
    defaultThreshold = 1
    SuspendPruningIfNatsUnavailable = TRUE
    App <- MCApp
    routerGroupGuid = ""
    PendingLimit = 2
SPECIFICATION FairSubscriberSpec
INVARIANTS
    OnlyAcceptedApps
PROPERTIES
    RegistryFollowsApps
