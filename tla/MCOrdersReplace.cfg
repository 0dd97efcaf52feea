SPECIFICATION Spec
CONSTANTS
  NoPending = NoPending
  NumLayers = 2
  ScaleInt = 10
  Exchanges = {"spot","futures"}
  Keys <- OneSideOrLong
  LossyWrites = TRUE
  LatePosts = FALSE
  Prices = {10, 20, 30}
  Qtys = {1,3}
  TtlReserved = 9
  TtlLive = 9
  MinReplaceTickDelta = 1
  MinReplaceQtyDelta = 1
  MinTimeGap = 2
  MinQty = 1
  MaxQty = 4
  QtyIncrement = 2
  MinUsdt = 0
  QtyScale = 1
  MaxOrderSize = 4
  MaxPosition = 6
  MinPosition <- NegativeLimit
  MaxTime = 4
  MayReject = FALSE
  MayFill = FALSE
  SendsPending = FALSE
INVARIANTS ReservedExact TicksDistinct OrdersTracked
