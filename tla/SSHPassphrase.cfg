SPECIFICATION Spec
CONSTANTS
  Store = {w1, w2, w3}
  Tray = {t1, t2}
  Passphrase = {p1, p2, p3}
  NoEntry = none
SYMMETRY PassphraseSymmetry
INVARIANTS
  TypeOK
  SuccessReplaced
