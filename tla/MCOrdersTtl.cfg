SPECIFICATION FairSpec
CONSTANTS
  NoPending = NoPending
  NumLayers = 1
  ScaleInt = 10
  Exchanges = {"spot","futures"}
  Keys <- OneSideOrLong
  LossyWrites = FALSE
  LatePosts = TRUE
  Prices = {10}
  Qtys = {2}
  TtlReserved = 2
  TtlLive = 2
  MinReplaceTickDelta = 9
  MinReplaceQtyDelta = 9
  MinTimeGap = 0
  MinQty = 1
  MaxQty = 4
  QtyIncrement = 1
  MinUsdt = 0
  QtyScale = 1
  MaxOrderSize = 4
  MaxPosition = 4
  MinPosition <- NegativeLimit
  MaxTime = 4
  MayReject = FALSE
  MayFill = TRUE
  SendsPending = TRUE
INVARIANTS NoLeakedSlot RequestsNameOrders
PROPERTIES NoEarlyCancel EverySlotFreed
