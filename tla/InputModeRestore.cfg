SPECIFICATION Spec

CONSTANTS
  KeySets <- RolloverKeySets
  UseAinu = FALSE
  SettlesInTime = TRUE
  MenuModes = {}
  MaxSent = 1
  MaxDown = 2

INVARIANTS
  RestoreComes
