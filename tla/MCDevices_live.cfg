SPECIFICATION FairSpec
CONSTANTS
  phone = phone
  guest = guest
  Clients <- Phone
  Foreign <- Phone
  NewGrace = 1
  DefaultGrace = 2
  CleanupLimits <- OnOrOff
  Day = 3
PROPERTIES MovesAreNoticed StaleAreRemoved
