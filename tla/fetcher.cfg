CONSTANTS
    RoutingKey = {r1}
    BackendServerKey = {b1}
    Tag <- MCTag
    TTL = {1}
    pruneStaleDropletsInterval = 30
    MaxAge = 2
    Route <- MCRoute
    Guid <- MCGuid
    MaxEvents = 1
    ChannelSize = 1
    RouteTTL <- MCRouteTTL
SPECIFICATION FairFetcherSpec
INVARIANTS
    FetcherTypeOK
PROPERTIES
    TableFollowsApi
