SPECIFICATION FairSpec
CONSTANTS
  MaxEntries = 2
  Routers = {r, s}
  NoRouter = NoRouter
  f = f
  g = g
  Features = {f, g}
  Alike <- Overlap
  Flows = {x, y}
  MaxChanges = 3
CHECK_DEADLOCK FALSE
INVARIANTS
  OneEntryPerId
  HubsHaveTheirSettings
  EnabledFeaturesHaveServices
  EntitiesFollowFeatures
PROPERTIES
  EntriesGetLoaded
