SPECIFICATION Spec
CONSTANTS
  NoPending = NoPending
  NumLayers = 1
  ScaleInt = 10
  Exchanges = {"futures"}
  Keys <- LongSide
  LossyWrites = FALSE
  LatePosts = FALSE
  Prices = {10,20}
  Qtys = {2}
  TtlReserved = 2
  TtlLive = 9
  MinReplaceTickDelta = 1
  MinReplaceQtyDelta = 1
  MinTimeGap = 0
  MinQty = 1
  MaxQty = 4
  QtyIncrement = 1
  MinUsdt = 0
  QtyScale = 1
  MaxOrderSize = 4
  MaxPosition = 4
  MinPosition <- NegativeLimit
  MaxTime = 4
  MayReject = FALSE
  MayFill = TRUE
  SendsPending = FALSE
INVARIANTS RequestsNameOrders
