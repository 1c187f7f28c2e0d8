SPECIFICATION Spec
CONSTANTS
  mesh = mesh
  pos = pos
  a = a
  NoHandle = NoHandle
  Readers = {}
  Components <- MCComponents
  HandleComponents <- OnlyMesh
  PeerComponents <- OnlyPos
  Handles <- OneHandle
  PeerEntities <- PeerOfThree
  Capacity = 1
  FieldsSent = TRUE
  Filtered = FALSE
  GenMod = 3
  MaxSlots = 3
INVARIANTS RowsMatchSlots ColumnsAligned LedgerExact
PROPERTY ImplementsEntityStore
CHECK_DEADLOCK FALSE
