SPECIFICATION SafeSpec
CONSTANTS
  s1 = s1
  l1 = l1
  s2 = s2
  l2 = l2
  Leg = {s1, l1, s2, l2}
  Rank <- MCRank
  Spread <- TwoSpreads
  Expiring <- OneSpread
  MaxOrders = 2
  MaxRows = 6
  MaxQty = 2
  MaxFaults = 0
  Rungs = 0
  MaxFixes = 1
  PageSize = 6
INVARIANTS
  OrderOwnership
  DecisionsStand
