SPECIFICATION TierSpec
CONSTANTS
  a = a
  b = b
  e1 = e1
  e2 = e2
  Blank = Blank
  ElemAlign = 1
  PoolCeiling = 12
  PoolOwners = {e1}
  Payloads <- LongOnly
  Rows <- OneRow
  RowBytes = 1
  Segments <- Atomic
  Spans = {0, 99}
  InitialCap = 3
  VramBudget = 3
  RamBudget = 3
  MaxClock = 4
  MaxPeek = 9
  MaxFetches = 1
INVARIANT NoSelfDeadlock
CHECK_DEADLOCK FALSE
