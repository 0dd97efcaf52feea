CONSTANTS
  a = a
  b = b
  none = none
  oeSocket = oeSocket
  Producers <- MCProducers
  Items <- MCItems
  NoItem = none
  Capacity <- MCCapacity
  Laps <- MCLaps
SPECIFICATION Spec
INVARIANTS TypeOK NoSlotRace
PROPERTIES IsBoundedFifo SpinReturns
