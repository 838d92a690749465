SPECIFICATION FairSpec

CONSTANTS
  a = a
  b = b
  SHIFT = SHIFT
  CAPS = CAPS
  EXTRA1 = EXTRA1
  LOCK_SHIFT = LOCK_SHIFT
  LOCK_OFF = LOCK_OFF
  STICKY_SHIFT = STICKY_SHIFT
  LAZY_SHIFT = LAZY_SHIFT
  VK_NONE = VK_NONE
  CAPSLOCK = CAPS
  ModifierFlags = {SHIFT, CAPS, EXTRA1}
  ExtraFlags = {EXTRA1}
  PlainKeys = {a, b}
  VirtualLock <- MCVirtualLock
  VirtualSticky <- MCVirtualSticky
  VirtualLazy <- MCVirtualLazy
  PhysKeys = {a, b, SHIFT, CAPS}
  RuleSets <- ConvertingRules
  MaxIn = 2
  MaxOut = 2
  MaxFronts = 2
  MaxChanges = 0

INVARIANTS
  TypeOK
  NothingRefused
  FlagsBalance
  ActiveWhileHeld
  PressedIsWhatSystemHolds
  ModifiersAnnounced
  RepeatsWhatIsHeld
  HeldCountExact
  AllReleasedClean

PROPERTIES
  SettlesWhenReleased
