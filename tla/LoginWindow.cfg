SPECIFICATION LiveSpec
CONSTANTS
  Round = {r1, r2}
  Keypair = kp
  NoRound = none
  NoCallback = empty
  KeypairFallback = TRUE
  Cancellable = TRUE
INVARIANTS
  TypeOK
  ReturnedTokenPersisted
  OnlyOwnCallbackExchanged
PROPERTIES
  FirstVerdictStands
  IsAttempt
  ActsAsTrayChild
  RoundEndsTheWindow
  VerdictIsDelivered
