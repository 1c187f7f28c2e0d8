SPECIFICATION Spec
CONSTANTS
  mesh = mesh
  pos = pos
  a = a
  NoHandle = NoHandle
  Readers = {}
  Components <- MCComponents
  HandleComponents <- OnlyMesh
  PeerComponents <- OnlyMesh
  Handles <- OneHandle
  PeerEntities <- BothSlots
  Capacity = 1
  FieldsSent = TRUE
  Filtered = FALSE
  GenMod = 3
  MaxSlots = 2
INVARIANT LedgerExact
CHECK_DEADLOCK FALSE
