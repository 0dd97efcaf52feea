SPECIFICATION Spec
CONSTANTS
  NoPending = NoPending
  NumLayers = 2
  ScaleInt = 10
  Exchanges = {"spot"}
  Keys <- OneSide
  LossyWrites = FALSE
  LatePosts = TRUE
  Prices = {10, 20}
  Qtys = {1, 2, 3}
  TtlReserved = 9
  TtlLive = 9
  MinReplaceTickDelta = 9
  MinReplaceQtyDelta = 9
  MinTimeGap = 0
  MinQty = 1
  MaxQty = 4
  QtyIncrement = 1
  MinUsdt = 20
  QtyScale = 1
  MaxOrderSize = 2
  MaxPosition = 3
  MinPosition <- NegativeLimit
  MaxTime = 3
  MayReject = TRUE
  MayFill = TRUE
  SendsPending = FALSE
INVARIANTS TypeOK ReservedExact PositionWithinLimits OrdersTracked LeakedOnlyByOvertaking
