SPECIFICATION FairSpec
CONSTANTS
  m1 = m1
  m2 = m2
  o1 = o1
  w1 = w1
  s1 = s1
  s2 = s2
  s3 = s3
  s4 = s4
  NoSession = NoSession
  Mandatory <- TwoGuarded
  Optional <- OneOptional
  Wifi <- NoTask
  SessionIds <- FourSessions
  MaxFaults = 2
PROPERTIES StaleSessionIsRenewed LinkRecovers
