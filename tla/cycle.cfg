SPECIFICATION Spec
CONSTANTS
  Configs <- Setups
  Markets <- Calendars
  EXPIRY_MIN = 2
  EXPIRY_MAX = 3
  EXPIRY_FALLBACK = 6
  Chains <- SideChains
  About <- Middle
  Spots <- Prices
  sel <- Select
  Answers <- Replies
  min_confidence = 60
  min_reward_risk = 20
  Requotes <- Now
  limit_step = 4
  max_steps = 2
INVARIANTS
  SpreadsAsAsked
  ExpiryInReach
  OpenedAsDecided
  RungsWalkDown
