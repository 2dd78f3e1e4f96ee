SPECIFICATION LiveSpec
CONSTANTS
  MaxSwitches = 4
  MayReload = TRUE
  Unknown = unknown
INVARIANTS
  TypeOK
PROPERTIES
  ChipMovesForward
  SwitchReachesChip
