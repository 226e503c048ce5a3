SPECIFICATION Spec
CONSTANTS
  Underlying <- Symbols
  Peers <- Group
  Candidate <- Spreads
  rules <- Rules
  MaxRows = 3
  MaxTime = 2
  DayLength = 2
  Lookback = 2
  Slips <- Fills
  Deltas = {1}
  Strays <- StraySpreads
  MaxAdopted = 1
  Results <- Outcomes
INVARIANTS
  TypeOK
  CapsHold
  OneBetPerStrike
  DayRiskBounded
  EntriesSpaced
  SizedRight
CHECK_DEADLOCK FALSE
