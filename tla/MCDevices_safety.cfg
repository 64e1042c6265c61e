SPECIFICATION Spec
CONSTANTS
  phone = phone
  guest = guest
  Clients <- Both
  Foreign <- Phone
  NewGrace = 1
  DefaultGrace = 2
  CleanupLimits <- OnOrOff
  Day = 3
INVARIANTS TypeOK EntitiesAreTracked TrackedHaveEntities
PROPERTIES OnlyPermittedTracked
