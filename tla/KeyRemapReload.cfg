SPECIFICATION Spec

CONSTANTS
  a = a
  b = b
  SHIFT = SHIFT
  CAPS = CAPS
  EXTRA1 = EXTRA1
  LOCK_SHIFT = LOCK_SHIFT
  LOCK_OFF = LOCK_OFF
  STICKY_SHIFT = STICKY_SHIFT
  LAZY_SHIFT = LAZY_SHIFT
  VK_NONE = VK_NONE
  CAPSLOCK = CAPS
  ModifierFlags = {SHIFT, CAPS, EXTRA1}
  ExtraFlags = {EXTRA1}
  PlainKeys = {a, b}
  VirtualLock <- MCVirtualLock
  VirtualSticky <- MCVirtualSticky
  VirtualLazy <- MCVirtualLazy
  PhysKeys = {a, SHIFT}
  RuleSets <- ReloadRules
  MaxIn = 2
  MaxOut = 1
  MaxFronts = 0
  MaxChanges = 3

INVARIANTS
  NoLostWakeup
  RepeatsForEnabledRule
  DeliveryMends

PROPERTIES
  FlushAtZero

CHECK_DEADLOCK FALSE
