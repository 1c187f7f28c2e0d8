SPECIFICATION ServicesSpec
\* World and ChangeJournal
CONSTANTS
  pos = pos
  h1 = h1
  NoHandle = NoHandle
  Readers = {r}
  Components <- OnlyPos
  HandleComponents = {}
  PeerComponents <- OnlyPos
  Handles <- OneHandle
  PeerEntities <- PeerOfTwo
  Capacity = 2
  FieldsSent = TRUE
  Filtered = FALSE
  GenMod = 2
  MaxSlots = 2
\* TieredStorage
CONSTANTS
  x = x
  y = y
  e1 = e1
  e2 = e2
  Blank = Blank
  ElemAlign = 1
  PoolCeiling = 12
  PoolOwners = {e1, e2}
  Payloads <- LongOnly
  Rows <- OneRow
  RowBytes = 1
  Segments <- TwoRanks
  Spans = {0, 99}
  InitialCap = 3
  VramBudget = 3
  RamBudget = 3
  MaxClock = 5
  MaxPeek = 1
  MaxFetches = 1
\* ObjectSubscriptions
CONSTANTS
  SubIndices = {1, 2}
  SubGenerations = {0}
  DataValues = {1, 2}
  BundleOrders <- OwnerFirst
  MaxSubscriptions = 2
\* Harvest
CONSTANTS
  WordBits = 4
  LaneCounts = {2}
  NaNum = NaNum
  Dims = 2
  RowKinds <- UnitAndOpen
  Views <- BoxAndFrustum
  HarvestCells = {"c1"}
  RegionBase <- FromEight
  MaxRows <- FiveRows
  StagedColumns <- TwoViews
  MaxViewEpoch = 3
\* Wire
CONSTANTS
  Base = 8
  Width32 = 2
  Width64 = 4
  Messages <- AllMessages
  CellSchemas <- FourSchemas
  CellRows <- ThreeCells
  Rooms = {1, 2}
  Keys = {"k"}
  Scalars <- TwoScalars
  MaxCompressed = 3
\* Prediction
CONSTANTS
  SnapshotCap = 1
  MaxInput = 3
  MaxServerFrame = 2
  Edits <- EditsOfTwo
  Editors = {1, 2}
  MapEntities = {"e1", "e2", "e3"}
  MapCells = {"r1", "r2", "r3"}
\* Runtime
CONSTANTS
  editor = editor
  p1 = p1
  p2 = p2
  Owner = editor
  Plugins = {p1, p2}
  Foreign = {}
  Users = {"u0", "u1"}
  CopyOf <- EditorAndPlugin
  Types = {"A", "B"}
  Collected <- FoundInCopies
\* Fields
CONSTANTS
  Structs <- Declared
  Companions <- BodyOfAuthored
  DerivedValue <- AsBody
  Programs <- ManyPrograms
  StructValues <- DeclaredValues
  FieldRows = {1, 2}
  PoolRoom = 1
  KeysShared = FALSE
INVARIANTS
  ReaderCurrent
  
  
  VramWithinBudget
  SubscribersTold
  ViewsExact
  PeersAgree
  FieldsExact
CHECK_DEADLOCK FALSE
