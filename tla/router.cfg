SPECIFICATION Spec
CONSTANTS
  Uri = {"u1", "u2", "u3"}
  RoutePort = {}
  ObjectName <- MCObjectName
  Name <- MCName
  Endpoint = {e1, e2}
  e1 = e1
  e2 = e2
  MultiWildcard = {"u3"}
  NoAddress = {}
  PlanID = {}
  plansMap <- MCPlans
  Default = "config"
  FirstIP = 1
  LastIP = 1
  MinPort = 1
  MaxPort = 1
  CachedDataGroups <- MCDataGroups
  MaxQueue = 2
  Item <- MCRoutes
  Hashed = {}
INVARIANTS
  RouterTypeOK
  Coherent
  HttpConverges
  DrainedMeansWritten
  WritesConsistent
PROPERTY
  Tier2Spec
