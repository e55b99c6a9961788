SPECIFICATION Spec
CONSTANTS
  Uri = {"u1", "u2", "u3"}
  RoutePort = {}
  ObjectName <- MCObjectName
  Name <- MCName
  Endpoint = {e1}
  e1 = e1
  e2 = e2
  MultiWildcard = {}
  NoAddress = {}
  PlanID = {}
  plansMap <- MCPlans
  Default = "config"
  FirstIP = 1
  LastIP = 1
  MinPort = 1
  MaxPort = 3
  CachedDataGroups <- MCSecond
  MaxQueue = 2
  Item <- MCAdds
  Hashed = {}
INVARIANT NoSharedDestination
