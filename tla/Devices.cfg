SPECIFICATION Spec

CONSTANTS
  a = a
  b = b
  SHIFT = SHIFT
  VOLUME = VOLUME
  MUTE = MUTE
  mouse = mouse
  pad = pad
  LEFT = LEFT
  RIGHT = RIGHT
  VK_NONE = VK_NONE
  CAPSLOCK = CAPSLOCK
  PlainKeys = {a, b}
  ModifierFlags = {SHIFT}
  ExtraFlags = {}
  VirtualLock <- MCNoVirtual
  VirtualSticky <- MCNoVirtual
  VirtualLazy <- MCNoVirtual
  PhysKeys = {a, SHIFT}
  PhysConsumers = {VOLUME}
  ConsumerKeys = {VOLUME, MUTE}
  RepeatingKeys = {VOLUME}
  Pointings = {mouse, pad}
  Buttons = {LEFT, RIGHT}
  Settings <- MCSettings
  MaxIn = 2
  MaxOut = 0
  MaxDrift = 1

INVARIANTS
  TypeOK
  CountsExact
  ReleasedEverywhere
  SourceReleased
  ConsumersFollowKeys
  TypingRecovers
