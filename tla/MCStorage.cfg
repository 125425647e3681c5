SPECIFICATION Spec
CONSTANTS
  Ids = {c1, c2}
  Disks = {"ample", "full"}
  Undecided = Undecided
  Nothing = Nothing
  Dialog = Dialog
  MaxHolds = 1
  Sources = {s1, s2}
  Extra = {s3}
  Uploads = {u1}
  ChunkBytes = 2
  MaxText = 6
  MaxStorage = 12
  MarkerReserve = 1
  MaxSources = 3
  MaxChunks = 4
  TextSizes = {1, 3}
  Dialogs = {d1, d2, d3}
  Home = d1
  PageLimit = 2
  PageBudget = 3
  Sizes = {1, 3}
  MaxRows = 3
  MaxVersion = 3
  Bindings = {b1, b2}
  ExportLimit = 4
  ExportBudget = 4
  SourceChunk = 4
  ReplicaChunk = 2
  RuneCut = 1
  MessageSizes = {5, 6}
  MaxMessages = 2
  MaxFacts = 3
  MaxAssets = 1
  MaxLost = 0
  None = None
  MaxCrashes = 1
INVARIANTS
  CommandsAreSound
  ArtifactsAreKept
  UsageIsSound
  ReplicaIsSound
PROPERTIES
  KeepsPromise
  PagesAreExact
SYMMETRY Interchangeable
CHECK_DEADLOCK FALSE
