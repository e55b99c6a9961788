CONSTANTS
    Endpoint <- PoolEndpoints
    Registration <- Registrations
    defaultThreshold = 2
    SuspendPruningIfNatsUnavailable = TRUE
    Label <- Labels
    ToLower <- Lower
SPECIFICATION Spec
INVARIANTS
    RegistryTypeOK
    PoolsConsistent
    NoDeadBranches
PROPERTIES
    RegistryIsStore
    OutageForgiven
