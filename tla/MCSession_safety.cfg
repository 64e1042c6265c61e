SPECIFICATION Spec
CONSTANTS
  m1 = m1
  m2 = m2
  o1 = o1
  w1 = w1
  s1 = s1
  s2 = s2
  s3 = s3
  s4 = s4
  NoSession = NoSession
  Mandatory <- OneGuarded
  Optional <- OneOptional
  Wifi <- OneWifi
  SessionIds <- FourSessions
  MaxFaults = 4
SYMMETRY SessionSymmetry
INVARIANTS AtMostOnce ReauthOnlyAfterThreeRefusals NoLoginWithoutFault
PROPERTY ImplementsCalls
