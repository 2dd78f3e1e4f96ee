SPECIFICATION LiveSpec
CONSTANTS
  MaxSwitches = 1
  MayReload = FALSE
  Unknown = unknown
PROPERTIES
  ChipCatchesUp
