SPECIFICATION Spec

CONSTANTS
  A = A
  B = B
  v1 = v1
  v2 = v2
  huge = huge
  Sessions = {A, B}
  First = A
  Nobody = Nobody
  OldClient = OldClient
  NULL = NULL
  Versions = {v1, v2, huge}
  Oversized = {huge}
  Prefs = {1, 2}
  Size <- MCSize
  FirstVersion = v1
  FirstPrefs = 1
  MaxEvents = 3

INVARIANTS
  TypeOK
  SettingsFitRules

PROPERTIES
  NotDisturbed
  FollowsUser

CHECK_DEADLOCK FALSE
