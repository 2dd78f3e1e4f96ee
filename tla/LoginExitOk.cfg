SPECIFICATION Spec
CONSTANTS
  Round = {r1}
  Keypair = kp
  NoRound = none
  NoCallback = empty
  KeypairFallback = TRUE
  Cancellable = FALSE
INVARIANTS
  ExitOkMeansSignedIn
