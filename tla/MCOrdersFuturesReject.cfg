SPECIFICATION Spec
CONSTANTS
  NoPending = NoPending
  NumLayers = 1
  ScaleInt = 10
  Exchanges = {"futures"}
  Keys <- LongSide
  LossyWrites = FALSE
  LatePosts = FALSE
  Prices = {10}
  Qtys = {2}
  TtlReserved = 9
  TtlLive = 9
  MinReplaceTickDelta = 9
  MinReplaceQtyDelta = 9
  MinTimeGap = 0
  MinQty = 1
  MaxQty = 4
  QtyIncrement = 1
  MinUsdt = 0
  QtyScale = 1
  MaxOrderSize = 4
  MaxPosition = 4
  MinPosition <- NegativeLimit
  MaxTime = 2
  MayReject = TRUE
  MayFill = FALSE
  SendsPending = FALSE
INVARIANTS NoLeakedSlot
