SPECIFICATION FairSpec
CONSTANTS
  Uri = {}
  RoutePort = {"t1"}
  ObjectName <- MCObjectName
  Name <- MCName
  Endpoint = {e1, e2}
  e1 = e1
  e2 = e2
  MultiWildcard = {}
  NoAddress = {}
  PlanID = {}
  plansMap <- MCPlans
  Default = "config"
  FirstIP = 1
  LastIP = 1
  MinPort = 1
  MaxPort = 1
  CachedDataGroups <- MCNone
  MaxQueue = 3
  Item <- MCTcp
  Hashed <- TcpItem
INVARIANTS
  QueueOK
  TcpConverges
PROPERTIES
  AddsTakeEffect
  WrittenWhenQuiet
