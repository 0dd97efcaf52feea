CONSTANTS
  none = none
  invalid = invalid
  Sides <- BothSides
  WordBits = 1
  BucketWords = 2
  MinPrice = 0
  MaxPrice = 3
  MaxPool = 4
  Qtys = {1, 2}
  ClearPrice = 0
  NoBucket = none
  Invalid = invalid
SPECIFICATION FeedSpec
INVARIANTS IndexCoherent BestIsBest PeekIsSorted BboNeverStale BookFollowsFeed
PROPERTY BboLostOnlyWhenEmpty
