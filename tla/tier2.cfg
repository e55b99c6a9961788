SPECIFICATION Tier2Spec
CONSTANTS
  Name = {"n1", "n2", "n3", "n4"}
  FirstIP = 1
  LastIP = 2
  MinPort = 1
  MaxPort = 2
  CachedDataGroups <- MCDataGroups
INVARIANTS
  Tier2TypeOK
  RecordPerVirtual
  AddressesInRange
  SharedOnlyIfRecycled
