SPECIFICATION FairSpec
CONSTANTS
  phone = phone
  switch = switch
  service = service
  Macs <- OneClient
  Commands <- TwoCommands
PROPERTIES BlockActsOnItsTarget CacheConverges CopyIsMirror
