SPECIFICATION Spec
SYMMETRY MCSymmetry
CONSTANTS
  Uri = {"u1"}
  RoutePort = {}
  ObjectName <- MCObjectName
  Name <- MCName
  Endpoint = {e1, e2}
  e1 = e1
  e2 = e2
  MultiWildcard = {}
  NoAddress = {}
  PlanID = {"p0", "p1", "p2"}
  plansMap <- MCPlans
  Default = "config"
  FirstIP = 1
  LastIP = 1
  MinPort = 1
  MaxPort = 2
  CachedDataGroups <- MCDataGroups
  MaxQueue = 2
  Item <- HttpItem
  Hashed = {}
INVARIANTS
  HttpConverges
  MembersUnique
  MonitorsCreated
