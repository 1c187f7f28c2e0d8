SPECIFICATION StoreFairSpec
CONSTANTS
  c1 = c1
  c2 = c2
  v0 = v0
  v1 = v1
  Cells <- OneCell
  Capacity = 2
  MaxSlots = 2
  GenMax = 3
  Values <- TwoValues
  ZeroValue = v0
  NullRow = NullRow
  Idle = Idle
  NumRegions = 1
  MaxSerial = 1
  NoRegion = NoRegion
  NoShadow = NoShadow
INVARIANT GenerationsCurrent
PROPERTIES
  SyncPublishes
  InFlightHeld
  RetirementsDrain
