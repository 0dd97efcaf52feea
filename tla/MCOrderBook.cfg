CONSTANTS
  none = none
  invalid = invalid
  Sides <- BothSides
  WordBits = 2
  BucketWords = 1
  MinPrice = 1
  MaxPrice = 6
  MaxPool = 2
  Qtys = {1, 2}
  ClearPrice = 0
  NoBucket = none
  Invalid = invalid
SPECIFICATION Spec
INVARIANTS TypeOK IndexCoherent BestIsBest PeekIsSorted BboNeverStale CrashOnlyWhenFull
CHECK_DEADLOCK FALSE
