SPECIFICATION Spec
CONSTANTS
  Instants <- Passing
  Expiry = 2
  Lead = 3600
  Params <- ParamSets
  Mid = 100
  Fills = {80}
  Prices = {50, 62, 160}
  DeltasSeen <- ShortDeltas
  VolsSeen = {16000}
  BooksSeen = {200}
  MaxTicks = 2
  MaxFaults = 1
INVARIANTS
  TypeOK
  LossCapped
  SleepsBalanced
  ReplayAgrees
CHECK_DEADLOCK FALSE
