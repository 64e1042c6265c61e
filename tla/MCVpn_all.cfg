SPECIFICATION FairSpec
CONSTANTS
  Tunnels = {t1, t2}
  Hidden = {t2}
  Clients = {a, b}
  Commands = {x}
  NoClient = NoClient
  Depth = 2
INVARIANTS
  SwitchesFollowTheHub
  OneAtATime
PROPERTIES
  LeftAloneIsShown
  CommandsEnd
  VpnIsMirrored
