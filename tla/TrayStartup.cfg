SPECIFICATION Spec
CONSTANTS
  k1 = k1
  k2 = k2
  s1 = s1
  e1 = e1
  ip1 = ip1
  ip2 = ip2
  Absent = absent
  Bad = bad
  WGConfigs <- MCWGConfigs
  NoWG = nowg
INVARIANTS
  TypeOK
  FailureReleases
  GatewayHasTunnel
  ConfiguredAsWritten
PROPERTIES
  IsTrayLife
