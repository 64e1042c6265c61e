SPECIFICATION FairSpec
CONSTANTS
  Sims = {s}
  Types = {physical, esim}
  Physical = physical
  NoSim = NoSim
  Msgs = {m}
  Commands = {x}
  MaxChanges = 2
  MaxParts = 2
  Days = {1, 28}
  Hours = {0, 12, 23}
  Months = {1, 2, 3}
  Noon = 12
  FirstYear = 2027
  LastYear = 2028
  Nets = {n}
  NoNet = NoNet
INVARIANTS
  NoGhosts
  LimitsHaveSensors
PROPERTIES
  TextsArriveWhole
  LeftAloneIsShown
  CountdownFalls
  ListRemembersNothingNew
  MobileIsMirrored
