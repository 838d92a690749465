SPECIFICATION FairSpec

CONSTANTS
  one = one
  two = two
  other = other
  Keys = {one, two, other}
  Rules <- TwoClasses
  MaxChanges = 1

INVARIANTS
  TypeOK
  TargetSet
  TimerForUndecided

PROPERTIES
  AnsweredOnce
  HeldIsAnswered
