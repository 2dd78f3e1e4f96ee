SPECIFICATION LiveSpec
CONSTANTS
  OfferKeypair = TRUE
  Cancellable = TRUE
  Nothing = nothing
INVARIANTS
  TypeOK
  FirstWaitIsAnswered
  BailsOnlyWithoutCallback
  SendersAreFree
PROPERTIES
  AttemptEnds
