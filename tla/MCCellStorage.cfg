SPECIFICATION FairSpec
CONSTANTS
  c1 = c1
  v0 = v0
  v1 = v1
  Cells <- MCCells
  Capacity = 3
  MaxSlots = 4
  GenMax = 3
  Values <- MCValues
  ZeroValue = v0
  NullRow = NullRow
  Idle = Idle
  NoValue = NoValue
INVARIANTS
  TypeOK
  HandlesResolve
  RetirementInFlight
  SlotAccounting
PROPERTIES
  PinnedRowsStay
  CompactionCloses
  CompactionReturns
  ImplementsHandleMap
