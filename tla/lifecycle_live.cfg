SPECIFICATION Spec
CONSTANTS
  s1 = s1
  l1 = l1
  s2 = s2
  l2 = l2
  Leg = {s1, l1}
  Rank <- MCRank
  Spread <- OneSpread
  Expiring <- OneSpread
  MaxOrders = 2
  MaxRows = 4
  MaxQty = 1
  MaxFaults = 1
  Rungs = 1
  MaxFixes = 1
  PageSize = 4
PROPERTIES
  LifecycleSpec
  DriftNoticed
  EntriesUnblocked
