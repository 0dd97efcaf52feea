CONSTANTS
  none = none
  invalid = invalid
  Sides <- BothSides
  WordBits = 2
  BucketWords = 2
  MinPrice = 1
  MaxPrice = 5
  MaxPool = 4
  Qtys = {1}
  ClearPrice = 0
  NoBucket = none
  Invalid = invalid
SPECIFICATION FeedSpec
INVARIANT BookFollowsFeed
