SPECIFICATION MachinesSpec
\* SlotAllocator
CONSTANTS t1 = t1 t2 = t2 t3 = t3 Threads <- Threads3 GenMod = 4 MaxSlots = 2 MaxFrees = 2
\* Replication
CONSTANTS
  Indices = {1}
  Components = {"A"}
  Values = {1, 2}
  DefaultValue = 0
  Clients = {"p1"}
  Condition <- AlwaysSent
  Owner <- OwnedByPeer
  MaxGen = 1
  MaxFrame = 3
  MaxInFlight = 2
\* Leases
CONSTANTS LeaseSlots = {0, 1} Holders = {"h1", "h2", "h3", "h4"}
\* InternedPool
CONSTANTS
  ElemAlign = 2
  PoolCeiling = 8
  Blank = 0
  InternRows = {"r1", "r2"}
  Ids = {"i1", "i2"}
  NoId = "none"
  Contents <- Payloads
  InternLeases = {"l1"}
  InternCap = 2
\* Grid
CONSTANTS
  Coords = {0, 3}
  Positions = {2, 7, 15}
  CellWidth = 2
  MarginRadius = 2
  GridPad = 2
  GridHyst = 1
  WarmOn = TRUE
  WarmRadius = 4
  WarmPad = 2
  WarmHyst = 1
  MaxWarm = 1
  GridRegions = {"g1"}
  PinDomains = {"Outer", "Inner"}
  NoGpuId = "none"
\* GpuAssets
CONSTANTS
  ArenaSize = 5
  ArenaAlign = 2
  Blobs = {"b1", "b2"}
  BlobLen <- BlobLengths
  NaN = NaN
  ClusterRows <- OfferedClusters
  MeshletRows <- OfferedMeshlets
  MaterialRows <- OfferedMaterials
  TableCap <- TableCapacities
  Images = {"x1", "x2", "x3"}
  MaxTextureSlots = 4
\* AssetTable
CONSTANTS
  Entities = {"e1"}
  Assets = {"a", "b"}
  Declared = {"a", "b"}
  Loadable = {"a"}
  SourceOf <- OneSource
  SizeOf <- OneByte
  Sources = {"src"}
  SourceContents = {"c1", "c2"}
  Corrupt = "c2"
  Budgets = {0, 1}
  Nothing = Nothing
  MaxPumps = 3
  MaxTokens = 2
  MaxEdits = 1
\* DerivedCache
CONSTANTS
  Callers = {"q1", "q2"}
  Settings = {"hi", "ro"}
  Originals = {"y1", "y2"}
  Unwritable = {"ro"}
  NoCall = NoCall
  MaxStamp = 1
\* WorldMirror
CONSTANTS
  MirrorRows = {0, 1}
  FieldValues = {1, 2}
  NoField = NoField
  GenerationRows = 1
  ColumnRows = 1
  ShrinkSlack = 0
  MaxGeneration = 2
  MaxMarked = 2
\* BufferRegistry
CONSTANTS
  BufferRows = {0, 1}
  RowValues = {0, 1}
  InitialCapacity = 1
  Slack = 0
  MaxEpoch = 2
  MaxContent = 2
INVARIANTS
  IndexConserved
  StaleDetected
  LiveCounted
  ReplicaCurrent
  LeasesHonoured
  InternedExact
  GridExact
  AssetsExact
  AssetsResolve
  MirrorCurrent
  HandoffCurrent
CHECK_DEADLOCK FALSE
