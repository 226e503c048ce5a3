SPECIFICATION Spec
CONSTANTS
  Reader = {entries, exits}
  TTL = 2
  STALE = 3
  RETRIES = 2
  MaxRead = 1
  MaxWrites = 1
  MaxFails = 2
INVARIANTS
  AgeBounded
  NotUndone
PROPERTIES
  EventuallyCurrent
