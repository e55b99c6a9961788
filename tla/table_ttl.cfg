CONSTANTS
    RoutingKey = {r1}
    BackendServerKey = {b1, b2, b3}
    Tag <- MCTag
    TTL = {0, 1}
    pruneStaleDropletsInterval = 30
    MaxAge = 2
SPECIFICATION TableSpec
INVARIANTS
    ExpiredMeansPassed
