SPECIFICATION Spec
CONSTANTS
  Call = {p1, p2, p3}
  Key = {k1, k2, k3}
  NoKey = nokey
  Damaged = damaged
SYMMETRY KeypairSymmetry
INVARIANTS
  TypeOK
  HandedKeyWasStored
  OneKeypairInSeries
PROPERTIES
  EntryKeptInSeries
