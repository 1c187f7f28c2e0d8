SPECIFICATION Spec
CONSTANTS
  mesh = mesh
  pos = pos
  a = a
  NoHandle = NoHandle
  Readers = {}
  Components <- MCComponents
  HandleComponents <- OnlyMesh
  PeerComponents <- OnlyPos
  Handles <- OneHandle
  PeerEntities <- BothSlots
  Capacity = 1
  FieldsSent = TRUE
  Filtered = TRUE
  GenMod = 3
  MaxSlots = 2
PROPERTY DespawnSparesOthers
CHECK_DEADLOCK FALSE
