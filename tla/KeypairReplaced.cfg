SPECIFICATION Spec
CONSTANTS
  Call = {p1, p2}
  Key = {k1, k2}
  NoKey = nokey
  Damaged = damaged
PROPERTIES
  KeyNotReplaced
