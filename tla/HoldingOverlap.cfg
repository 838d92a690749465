SPECIFICATION Spec

CONSTANTS
  one = one
  two = two
  other = other
  Keys = {one, two, other}
  Rules <- OneClass
  MaxChanges = 0

INVARIANTS
  HoldingOnlyWhileHeld
