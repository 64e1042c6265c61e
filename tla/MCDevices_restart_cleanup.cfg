SPECIFICATION Spec
CONSTANTS
  phone = phone
  guest = guest
  Clients <- Both
  Foreign <- Phone
  NewGrace = 1
  DefaultGrace = 2
  CleanupLimits <- On
  Day = 3
PROPERTIES CleanupRespectsInactivity
