SPECIFICATION StoreSpec
CONSTANTS
  c1 = c1
  c2 = c2
  v0 = v0
  v1 = v1
  Cells <- TwoCells
  Capacity = 1
  MaxSlots = 1
  GenMax = 2
  Values <- OneValue
  ZeroValue = v0
  NullRow = NullRow
  Idle = Idle
  NumRegions = 2
  MaxSerial = 2
  NoRegion = NoRegion
  NoShadow = NoShadow
INVARIANTS
  RegionsExclusive
