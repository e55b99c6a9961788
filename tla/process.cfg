SPECIFICATION FairSpec
CONSTANTS
    Configuration <- MCConfiguration
    asyncCBChanSize = 2
    MaxOutages = 3
INVARIANTS
    ProcessTypeOK
    HealthyMeansListening
    DependenciesMet
PROPERTIES
    ShutdownCompletes
    CallbacksServed
CHECK_DEADLOCK FALSE
