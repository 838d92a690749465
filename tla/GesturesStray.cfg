SPECIFICATION Spec

CONSTANTS
  a = a
  b = b
  c = c
  V = V
  W = W
  CTRL = CTRL
  SHIFT = SHIFT
  Keys = {a, b, c}
  VirtualKeys = {V, W}
  Modifiers = {CTRL, SHIFT}
  Settings <- MCPair
  NONE = NONE
  MaxQueue = 3
  MaxCount = 1

INVARIANT
  NoStrayRelease
