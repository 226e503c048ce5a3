SPECIFICATION PassSpec
CONSTANTS
  a = a
  b = b
  c = c
  Leg = {a, b, c}
  Rank <- MCRank
  Spread <- MCLadder
  Expiring <- MCLadder
  Books <- MCBooks
  Evidence <- MCEvidence
  MaxOrders = 6
  MaxRows = 6
  MaxQty = 2
  MaxFaults = 0
  Rungs = 0
  MaxFixes = 4
  PageSize = 6
INVARIANTS
  AgreeOrAsked
  ExplainedIsHeld
CHECK_DEADLOCK FALSE
