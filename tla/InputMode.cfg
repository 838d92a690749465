SPECIFICATION Spec

CONSTANTS
  KeySets <- MCKeySets
  UseAinu = FALSE
  SettlesInTime = TRUE
  MenuModes = {7}
  MaxSent = 1
  MaxDown = 2

INVARIANTS
  TypeOK
  SmartKeyGoesRound

PROPERTIES
  FilterFollowsMode
