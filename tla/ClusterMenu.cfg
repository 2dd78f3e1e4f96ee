SPECIFICATION LiveSpec
CONSTANTS
  c1 = c1
  c2 = c2
  d1 = d1
  d2 = d2
  Cluster = {c1, c2}
  DC = {d1, d2}
  ClusterOf <- MCClusterOf
  Home = c1
  NoDC = nodc
  NoCluster = nocluster
INVARIANTS
  TypeOK
  LastClickWins
  BacklogBounded
PROPERTIES
  NoClickLost
  TakenClicksAreServed
  TitleFollows
